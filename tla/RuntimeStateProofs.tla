--------------------------- MODULE RuntimeStateProofs ---------------------------
(***************************************************************************)
(* Proofs about the runtime-state store: what survives failing filesystem  *)
(* calls, crashes, restarts and the offline reset.                         *)
(***************************************************************************)
EXTENDS RuntimeState, FiniteSetTheorems, TLAPS

-----------------------------------------------------------------------------
(* Types                                                                     *)

\* validateRecordSlots, and a revision that the mark has reached.
ValidRecord(r, mark) ==
    /\ r.rev <= mark
    /\ r.res # NoWork => r.cur # NoWork /\ r.cur.seq < r.res.seq
    /\ r.cur # NoWork => r.cur.rev <= r.rev /\ r.cur.seq <= r.seq
    /\ r.res # NoWork => r.res.rev <= r.rev /\ r.res.seq <= r.seq

Valid == {n \in Namespaces : \A d \in Drivers : Recorded(n, d) => ValidRecord(n.rec[d], n.mark)}

Ctls == Valid \cup {NoNamespace, BadNamespace}
Files == [content : Contents, ctl : Ctls]
DirEntries == [file : Files \cup {AbsentFile, CorruptFile}, copies : BOOLEAN]
Directories == [shown : DirEntries, kept : SUBSET DirEntries]
DesiredStates == {"RUNNING", "STOPPED"}
Decisions == [driver : Drivers, expected : Nat, rev : Nat, desired : DesiredStates]
Statuses == {"MISSING", "LOADED", "MISSING_WITH_MATERIAL", "CORRUPT", "UNREADABLE", "LOCKED"}

Managers ==
    [up : BOOLEAN, boots : Nat, changes : Nat, content : Contents, ctl : Ctls,
     dirty : BOOLEAN, gen : Nat, status : Statuses, ambiguous : Valid \cup {NoStage},
     blocked : BOOLEAN, stopped : BOOLEAN, registered : BOOLEAN,
     configs : [Drivers -> Dispositions]]

Closing == [pc |-> "closing"]

\* What the caller of commitControl still has to do.
Extras ==
    [what : {"seed", "register"}, configs : [Drivers -> Dispositions]]
      \cup [what : {"decide"}, decision : Decisions]
      \cup [what : {"work", "catalog", "recovery", "flush"}]

Writes ==
    [pc : {"rename", "dir", "commit", "ambiguous"}, op : {"flush", "stop", "control"},
     snap : Files, stage : Valid \cup {NoStage}, gen : Nat, extra : Extras]

ManagerType == m \in Managers
WriteType == w \in Writes \cup {Idle, Closing}
FileType == fs \in Directories /\ fs.shown \in fs.kept
OtherTypes ==
    /\ lock \in {"free", "manager", "tool"}
    /\ acked \in SUBSET Decisions
    /\ storage \in {"sound", "undone", "spoiled"}

Types == ManagerType /\ WriteType /\ FileType /\ OtherTypes

-----------------------------------------------------------------------------
(* The inductive invariant                                                   *)

Holding == w \in Writes
ControlHeld == Holding /\ w.op = "control"

\* Who may write holds the store lock, and a write excludes an open outcome.
Locked ==
    /\ lock = "manager" => m.up
    /\ m.up /\ ~m.blocked => lock = "manager"
    /\ Busy => lock = "manager" /\ m.up /\ m.ambiguous = NoStage
    /\ Holding => ~m.blocked
    /\ m.ambiguous # NoStage => m.up /\ (~m.stopped => lock = "manager")

\* Only a namespace that is missing is seeded.
MissingIsMissing == m.status = "MISSING" => m.ctl = NoNamespace

\* The write under way against the state it was taken from and the disk.
SnapshotTaken ==
    Holding =>
      /\ w.gen <= m.gen
      /\ w.gen = m.gen \/ ~m.dirty => w.snap.content = m.content
      /\ w.op # "control" => w.snap.ctl = m.ctl /\ w.pc # "ambiguous"
      /\ w.op = "control" => w.stage \in Valid /\ w.snap.ctl = w.stage
      /\ w.pc # "rename" => fs.shown.file = w.snap
      /\ w.op = "control" /\ w.pc = "commit" => fs.kept = {fs.shown}

\* The file holds the control bytes of the manager.
Matches(f, ctl) == IF Parsed(f) THEN f.ctl = ctl ELSE f = AbsentFile /\ ctl = NoNamespace

Known ==
    /\ m.up /\ ~m.blocked /\ m.ambiguous = NoStage /\ (ControlHeld => w.pc = "rename")
    => Matches(fs.shown.file, m.ctl)

CleanOnDisk ==
    /\ m.up /\ lock = "manager" /\ ~m.dirty /\ storage = "sound"
    => Parsed(fs.shown.file) /\ fs.shown.file.content = m.content

\* The work of record d that namespace b must keep of namespace a.
RecordKept(a, b, d) ==
    Recorded(a, d) =>
      /\ a.rec[d].cur # NoWork => Recorded(b, d)
      /\ a.rec[d].res # NoWork => \/ SameIdentity(b.rec[d].res, a.rec[d].res)
                                  \/ SameIdentity(b.rec[d].cur, a.rec[d].res)
      /\ Recorded(b, d) /\ SameIdentity(b.rec[d].cur, a.rec[d].cur)
            => b.rec[d].cur.phase >= a.rec[d].cur.phase

WorkKept(a, b) == Decoded(a) /\ Decoded(b) => \A d \in Drivers : RecordKept(a, b, d)

\* What is staged, or may have been written, keeps the work of what is shown.
StagesKeepWork ==
    /\ ControlHeld => WorkKept(m.ctl, w.stage)
    /\ m.ambiguous # NoStage =>
          /\ WorkKept(m.ctl, m.ambiguous)
          /\ storage = "sound" /\ ~m.stopped =>
                Parsed(fs.shown.file) /\ fs.shown.file.ctl = m.ambiguous

\* The namespace holds decision a or a later one of its driver.
Covers(n, a) ==
    /\ Decoded(n)
    /\ n.mark >= a.rev
    /\ Recorded(n, a.driver) =>
          \/ n.rec[a.driver].rev > a.rev
          \/ n.rec[a.driver].rev = a.rev /\ n.rec[a.driver].desired = a.desired

Survives ==
    storage # "spoiled" =>
      \A a \in acked :
         /\ \A e \in fs.kept : Parsed(e.file) /\ Covers(e.file.ctl, a)
         /\ Holding => Covers(w.snap.ctl, a)

Deciding == ControlHeld /\ w.extra.what = "decide"

\* The decision under way is newer than every one answered.
Newest ==
    Deciding =>
      LET a == w.extra.decision
      IN  /\ a.expected < a.rev
          /\ Covers(w.stage, a)
          /\ storage # "spoiled" =>
                \A b \in acked : b.rev < a.rev /\ (b.driver = a.driver => b.rev <= a.expected)

Answered ==
    /\ \A a \in acked : a.expected < a.rev
    /\ OneDecisionPerRevision

IndInv ==
    /\ Types /\ Locked /\ MissingIsMissing /\ SnapshotTaken /\ Known /\ CleanOnDisk
    /\ StagesKeepWork /\ Survives /\ Newest /\ Answered

-----------------------------------------------------------------------------
(* Namespaces                                                                *)

\* The parts of a transition.
LEMMA TransitionFields ==
    ASSUME StateBounds, NEW t \in Transitions
    PROVE  /\ t.kind \in Methods /\ t.rev \in 1 .. MaxCounter /\ t.seq \in 1 .. MaxCounter
           /\ t.rev \in Nat /\ t.seq \in Nat /\ t.phase \in Nat
<1>1. t.rev \in 1 .. MaxCounter /\ t.seq \in 1 .. MaxCounter /\ t.phase \in Phases /\ t.kind \in Methods
  BY DEF Transitions
<1>2. Phases \subseteq Nat
  BY DEF StateBounds
<1>3. t.phase \in Nat
  BY <1>1, <1>2, Zenon
<1>4. MaxCounter \in Nat
  BY DEF StateBounds
<1>5. t.rev \in Nat /\ t.seq \in Nat
  BY <1>1, <1>4
<1> QED
  BY <1>1, <1>3, <1>5

\* The fields of a namespace and of its records.
LEMMA NamespaceFields ==
    ASSUME Apart, NEW n \in Valid, NEW d \in Drivers
    PROVE  /\ n \in Namespaces /\ n.mark \in 0 .. MaxCounter
           /\ n.rec \in [Drivers -> Records \cup {NoRecord, BadRecord}]
           /\ n.recovery \in SUBSET Drivers
           /\ Recorded(n, d) => n.rec[d] \in Records /\ ValidRecord(n.rec[d], n.mark)
           /\ Recorded(n, d) <=> n.rec[d] \in Records
           /\ Decoded(n)
BY DEF Valid, Namespaces, Recorded, Decoded, Apart

\* The parts of a record.
LEMMA RecordFields ==
    ASSUME StateBounds, Apart, NEW r \in Records
    PROVE  /\ r.desired \in DesiredStates /\ r.rev \in 1 .. MaxCounter /\ r.seq \in 0 .. MaxCounter
           /\ r.cur # NoWork => /\ r.cur \in Transitions /\ r.cur.rev \in 1 .. MaxCounter
                                /\ r.cur.seq \in 1 .. MaxCounter /\ r.cur.phase \in 0 .. 2
           /\ r.res # NoWork => /\ r.res \in Transitions /\ r.res.rev \in 1 .. MaxCounter
                                /\ r.res.seq \in 1 .. MaxCounter /\ r.res.phase \in 0 .. 2
BY DEF Records, Slots, Transitions, DesiredStates, StateBounds

\* A namespace with one record replaced.
Replaced(n, d, r, mark) == Namespace(mark, [n.rec EXCEPT ![d] = r], n.recovery)

LEMMA ReplacedFacts ==
    ASSUME Apart, StateBounds, NEW n \in Valid, NEW d \in Drivers, NEW r \in Records,
           NEW mark \in 0 .. MaxCounter, n.mark <= mark, ValidRecord(r, mark)
    PROVE  LET z == Replaced(n, d, r, mark)
           IN  /\ z \in Valid /\ z.mark = mark /\ z.rec[d] = r /\ Recorded(z, d)
               /\ \A e \in Drivers \ {d} : z.rec[e] = n.rec[e]
<1> DEFINE f == [n.rec EXCEPT ![d] = r]
           z == Replaced(n, d, r, mark)
<1>1. f \in [Drivers -> Records \cup {NoRecord, BadRecord}]
  BY NamespaceFields
<1>2. f[d] = r /\ \A e \in Drivers \ {d} : f[e] = n.rec[e]
  BY NamespaceFields
<1> HIDE DEF f
<1>3. n.recovery \in SUBSET Drivers /\ n.mark \in 0 .. MaxCounter
  BY NamespaceFields
<1>4. z = [mark |-> mark, rec |-> f, recovery |-> n.recovery]
  BY DEF Replaced, Namespace, f
<1>5. z \in Namespaces
  BY <1>1, <1>3, <1>4 DEF Namespaces
<1>6. z.mark = mark /\ z.rec = f
  BY <1>4
<1> HIDE DEF z
<1>7. Recorded(z, d)
  BY <1>2, <1>6 DEF Recorded, Apart
<1>8. ASSUME NEW e \in Drivers, Recorded(z, e) PROVE ValidRecord(z.rec[e], z.mark)
  <2>1. CASE e = d
    BY <2>1, <1>2, <1>6
  <2>2. CASE e # d
    <3>1. z.rec[e] = n.rec[e] /\ Recorded(n, e)
      BY <2>2, <1>2, <1>6, <1>8 DEF Recorded
    <3>2. n.rec[e] \in Records /\ ValidRecord(n.rec[e], n.mark)
      BY <3>1, NamespaceFields
    <3>3. n.rec[e].rev \in Nat /\ mark \in Nat
      BY <3>2, RecordFields DEF StateBounds
    <3> QED
      BY <1>3, <1>6, <3>1, <3>2, <3>3 DEF ValidRecord
  <2> QED
    BY <2>1, <2>2
<1>9. z \in Valid
  BY <1>5, <1>8 DEF Valid
<1> QED
  BY <1>2, <1>6, <1>7, <1>9 DEF z

\* The seed is a namespace.
LEMMA SeedFacts ==
    ASSUME Apart, StateBounds, NEW cfg \in Configs
    PROVE  Seed(cfg) \in Valid
<1> DEFINE C == Configured(cfg)
           n == Cardinality(C)
           rec == [d \in Drivers |->
                     IF cfg[d] = "absent" THEN NoRecord
                     ELSE [NewRecord EXCEPT !.rev = Rank(cfg, d),
                             !.desired = IF cfg[d] = "enabled" THEN "RUNNING" ELSE "STOPPED"]]
<1>1. IsFiniteSet(C) /\ n \in Nat /\ n <= MaxRecords
  <2>1. C \subseteq Drivers /\ IsFiniteSet(Drivers)
    BY DEF Configured, StateBounds
  <2>2. IsFiniteSet(C)
    BY <2>1, FS_Subset
  <2> QED
    BY <2>2, FS_CardinalityType DEF Configs
<1>2. n \in 0 .. MaxCounter
  BY <1>1 DEF StateBounds
<1>3. ASSUME NEW d \in C PROVE Rank(cfg, d) \in 1 .. n
  <2> DEFINE R == {e \in C : e <= d}
  <2>1. R \subseteq C /\ d \in R
    <3>1. d \in Nat
      BY <1>3 DEF Configured, StateBounds
    <3> HIDE DEF C
    <3> QED
      BY <1>3, <3>1
  <2>2. IsFiniteSet(R) /\ Cardinality(R) <= n
    BY <1>1, <2>1, FS_Subset
  <2>3. Cardinality(R) \in Nat /\ Cardinality(R) # 0
    BY <2>1, <2>2, FS_CardinalityType, FS_EmptySet
  <2>4. Rank(cfg, d) = Cardinality(R)
    BY DEF Rank
  <2> HIDE DEF R, n
  <2> QED
    BY <1>1, <2>2, <2>3, <2>4
<1> HIDE DEF n
<1>4. ASSUME NEW d \in Drivers
      PROVE  /\ rec[d] \in Records \cup {NoRecord, BadRecord}
             /\ rec[d] # NoRecord => /\ rec[d].rev <= n /\ rec[d].cur = NoWork
                                     /\ rec[d].res = NoWork
  <2>1. CASE cfg[d] = "absent"
    BY <2>1
  <2>2. CASE cfg[d] # "absent"
    <3> DEFINE des == IF cfg[d] = "enabled" THEN "RUNNING" ELSE "STOPPED"
               r == [NewRecord EXCEPT !.rev = Rank(cfg, d), !.desired = des]
    <3>1. d \in C
      BY <2>2 DEF Configured
    <3>2. Rank(cfg, d) \in 1 .. n
      BY <1>3, <3>1
    <3>3. Rank(cfg, d) \in 1 .. MaxCounter /\ Rank(cfg, d) <= n
      BY <1>2, <3>2 DEF StateBounds
    <3>4. des \in {"RUNNING", "STOPPED"} /\ 0 \in 0 .. MaxCounter
      BY DEF StateBounds
    <3> HIDE DEF des
    <3>5. rec[d] = r
      BY <2>2 DEF des
    <3>6. r \in Records
      BY <3>3, <3>4 DEF Records, Slots, NewRecord
    <3>7. r.rev = Rank(cfg, d) /\ r.cur = NoWork /\ r.res = NoWork
      BY DEF NewRecord
    <3> HIDE DEF r, rec
    <3> QED
      BY <3>3, <3>5, <3>6, <3>7
  <2> QED
    BY <2>1, <2>2
<1>5. Seed(cfg) = [mark |-> n, rec |-> rec, recovery |-> {}]
  BY DEF Seed, Namespace, n
<1>6. rec \in [Drivers -> Records \cup {NoRecord, BadRecord}]
  <2>1. rec = [d \in Drivers |-> rec[d]]
    OBVIOUS
  <2> HIDE DEF rec
  <2> QED
    BY <1>4, <2>1
<1> HIDE DEF rec
<1>7. Seed(cfg) \in Namespaces
  BY <1>2, <1>5, <1>6 DEF Namespaces
<1>8. ASSUME NEW d \in Drivers, Recorded(Seed(cfg), d)
      PROVE  ValidRecord(Seed(cfg).rec[d], Seed(cfg).mark)
  <2>1. Seed(cfg).rec[d] = rec[d] /\ Seed(cfg).mark = n
    BY <1>5
  <2>2. rec[d] # NoRecord
    BY <1>8, <2>1 DEF Recorded
  <2> QED
    BY <1>4, <2>1, <2>2 DEF ValidRecord
<1> QED
  BY <1>7, <1>8 DEF Valid

\* Namespace z may be written over namespace n: it keeps the work in flight and
\* every decision.
Follows(n, z) ==
    /\ z \in Valid
    /\ WorkKept(n, z)
    /\ \A a \in Decisions : Covers(n, a) => Covers(z, a)

\* A record that is left alone is kept.
LEMMA SameRecordKept ==
    ASSUME Apart, StateBounds, NEW n \in Valid, NEW z, NEW d \in Drivers, z.rec[d] = n.rec[d]
    PROVE  RecordKept(n, z, d)
<1> SUFFICES ASSUME Recorded(n, d) PROVE RecordKept(n, z, d)
  BY DEF RecordKept
<1>1. n.rec[d] \in Records /\ Recorded(z, d)
  BY NamespaceFields DEF Recorded
<1>2. n.rec[d].cur # NoWork => n.rec[d].cur.phase \in Nat
  BY <1>1, RecordFields
<1>3. SameIdentity(n.rec[d].cur, n.rec[d].cur) => n.rec[d].cur # NoWork
  BY DEF SameIdentity
<1>4. n.rec[d].res # NoWork => SameIdentity(n.rec[d].res, n.rec[d].res)
  BY DEF SameIdentity
<1> QED
  BY <1>1, <1>2, <1>3, <1>4 DEF RecordKept

\* A registration retires only records without work, and only raises the mark.
LEMMA RegisteredFacts ==
    ASSUME Apart, StateBounds, NEW n \in Valid, NEW cfg \in Configs,
           n.mark + Changes(n, cfg) <= MaxCounter
    PROVE  Follows(n, Registered(n, cfg))
<1> DEFINE z == Registered(n, cfg)
           rec == [d \in Drivers |-> IF Retirable(n, cfg, d) THEN NoRecord ELSE n.rec[d]]
           mark == n.mark + Changes(n, cfg)
<1>1. n.rec \in [Drivers -> Records \cup {NoRecord, BadRecord}] /\ n.mark \in 0 .. MaxCounter
      /\ n.recovery \in SUBSET Drivers /\ Decoded(n)
  BY DEF Valid, Namespaces, Decoded, Apart
<1>2. Changes(n, cfg) \in Nat
  <2> DEFINE S == {d \in Drivers : \/ Retirable(n, cfg, d)
                                   \/ cfg[d] # "absent" /\ n.rec[d] = NoRecord}
  <2>1. IsFiniteSet(S)
    BY FS_Subset DEF StateBounds
  <2> HIDE DEF S
  <2>2. Cardinality(S) \in Nat
    BY <2>1, FS_CardinalityType
  <2> QED
    BY <2>2 DEF Changes, S
<1>3. mark \in 0 .. MaxCounter /\ n.mark <= mark
  BY <1>1, <1>2 DEF StateBounds
<1>4. rec \in [Drivers -> Records \cup {NoRecord, BadRecord}]
  BY <1>1
<1>5. \A d \in Drivers : rec[d] = n.rec[d] \/ (rec[d] = NoRecord /\ Retirable(n, cfg, d))
  OBVIOUS
<1>6. z = [mark |-> mark, rec |-> rec, recovery |-> n.recovery]
  BY DEF Registered, Namespace
<1> HIDE DEF mark, rec
<1>7. z.mark = mark /\ z.rec = rec /\ z \in Namespaces
  BY <1>1, <1>3, <1>4, <1>6 DEF Namespaces
<1> HIDE DEF z
<1>8. z \in Valid
  <2> SUFFICES ASSUME NEW d \in Drivers, Recorded(z, d) PROVE ValidRecord(z.rec[d], z.mark)
    BY <1>7 DEF Valid
  <2>1. z.rec[d] = n.rec[d] /\ Recorded(n, d)
    BY <1>5, <1>7 DEF Recorded
  <2>2. n.rec[d] \in Records /\ ValidRecord(n.rec[d], n.mark)
    BY <2>1, NamespaceFields
  <2>3. n.rec[d].rev \in Nat
    BY <2>2, RecordFields
  <2> QED
    BY <1>1, <1>3, <1>7, <2>1, <2>2, <2>3 DEF ValidRecord
<1>9. WorkKept(n, z)
  <2> SUFFICES ASSUME NEW d \in Drivers PROVE RecordKept(n, z, d)
    BY DEF WorkKept
  <2>1. CASE z.rec[d] = n.rec[d]
    BY <2>1, SameRecordKept
  <2>2. CASE rec[d] = NoRecord /\ Retirable(n, cfg, d)
    <3>1. n.rec[d].cur = NoWork /\ n.rec[d].res = NoWork /\ ~Recorded(z, d)
      BY <2>2, <1>7 DEF Retirable, Recorded
    <3> QED
      BY <3>1 DEF RecordKept
  <2> QED
    BY <2>1, <2>2, <1>5, <1>7
<1>10. ASSUME NEW a \in Decisions, Covers(n, a) PROVE Covers(z, a)
  <2>1. a.driver \in Drivers /\ a.rev \in Nat
    BY DEF Decisions
  <2>2. Decoded(z)
    BY <1>8 DEF Decoded, Valid, Apart
  <2>3. z.mark >= a.rev
    BY <1>1, <1>3, <1>7, <1>10, <2>1 DEF Covers
  <2>4. Recorded(z, a.driver) => z.rec[a.driver] = n.rec[a.driver] /\ Recorded(n, a.driver)
    BY <1>5, <1>7, <2>1 DEF Recorded
  <2> QED
    BY <1>10, <2>2, <2>3, <2>4 DEF Covers
<1> QED
  BY <1>8, <1>9, <1>10 DEF Follows, z

\* Replacing a record that keeps its work and does not go back.
LEMMA ReplacedFollows ==
    ASSUME Apart, StateBounds, NEW n \in Valid, NEW d \in Drivers, NEW r \in Records,
           NEW mark \in 0 .. MaxCounter, n.mark <= mark, ValidRecord(r, mark),
           Recorded(n, d) =>
             /\ n.rec[d].res # NoWork => \/ SameIdentity(r.res, n.rec[d].res)
                                         \/ SameIdentity(r.cur, n.rec[d].res)
             /\ SameIdentity(r.cur, n.rec[d].cur) => r.cur.phase >= n.rec[d].cur.phase,
           \/ r.rev > n.mark
           \/ Recorded(n, d) /\ r.rev = n.rec[d].rev /\ r.desired = n.rec[d].desired
    PROVE  Follows(n, Replaced(n, d, r, mark))
<1> DEFINE z == Replaced(n, d, r, mark)
<1>1. /\ z \in Valid /\ z.mark = mark /\ z.rec[d] = r /\ Recorded(z, d)
      /\ \A e \in Drivers \ {d} : z.rec[e] = n.rec[e]
  BY ReplacedFacts
<1> HIDE DEF z
<1>2. WorkKept(n, z)
  <2> SUFFICES ASSUME NEW e \in Drivers PROVE RecordKept(n, z, e)
    BY DEF WorkKept
  <2>1. CASE e # d
    BY <2>1, <1>1, SameRecordKept
  <2>2. CASE e = d
    BY <2>2, <1>1 DEF RecordKept
  <2> QED
    BY <2>1, <2>2
<1>3. n.mark \in Nat /\ Decoded(n) /\ Decoded(z) /\ mark \in Nat /\ r.rev \in Nat
  BY <1>1, NamespaceFields, RecordFields DEF StateBounds
<1>4. ASSUME NEW a \in Decisions, Covers(n, a) PROVE Covers(z, a)
  <2>1. a.driver \in Drivers /\ a.rev \in Nat /\ n.mark >= a.rev
    BY <1>4 DEF Decisions, Covers
  <2>2. CASE a.driver # d
    <3>1. z.rec[a.driver] = n.rec[a.driver]
      BY <1>1, <2>1, <2>2
    <3> QED
      BY <1>1, <1>3, <1>4, <2>1, <3>1 DEF Covers, Recorded
  <2>3. CASE a.driver = d /\ r.rev > n.mark
    BY <1>1, <1>3, <2>1, <2>3 DEF Covers
  <2>4. CASE a.driver = d /\ Recorded(n, d) /\ r.rev = n.rec[d].rev /\ r.desired = n.rec[d].desired
    BY <1>1, <1>3, <1>4, <2>1, <2>4 DEF Covers
  <2> QED
    BY <2>2, <2>3, <2>4
<1> QED
  BY <1>1, <1>2, <1>4 DEF Follows, z

\* What a decision writes.
LEMMA DecidedFacts ==
    ASSUME Apart, StateBounds, NEW n \in Valid, NEW d \in Drivers, NEW method \in Methods,
           n.rec[d] # BadRecord, Decidable(n, d, method)
    PROVE  LET z == Decided(n, d, method)
               a == [driver |-> d, expected |-> Revision(n, d), rev |-> z.rec[d].rev,
                     desired |-> z.rec[d].desired]
           IN  /\ Follows(n, z)
               /\ a \in Decisions /\ a.expected < a.rev /\ Covers(z, a)
               /\ \A b \in Decisions : Covers(n, b) =>
                     b.rev < a.rev /\ (b.driver = a.driver => b.rev <= a.expected)
<1> DEFINE s == StoredRecord(n, d)
           mark == n.mark + 1
           next == [kind |-> method, rev |-> mark, seq |-> s.seq + 1, phase |-> 0]
           p == Planned(s, method, mark)
           des == IF method = "STOP" THEN "STOPPED" ELSE "RUNNING"
           r == [p EXCEPT !.rev = mark, !.desired = des]
           z == Decided(n, d, method)
<1>1. n.mark \in 0 .. MaxCounter /\ (Recorded(n, d) <=> n.rec[d] \in Records)
  BY NamespaceFields
<1>2. mark \in 1 .. MaxCounter /\ n.mark < mark /\ n.mark \in Nat
  BY <1>1 DEF Decidable, StateBounds
<1>3. /\ s.desired \in DesiredStates /\ s.seq \in 0 .. MaxCounter /\ s.rev \in 0 .. n.mark
      /\ s.cur \in Slots /\ s.res \in Slots /\ s.seq < MaxCounter
      /\ s.cur # NoWork => s.cur \in Transitions /\ s.cur.rev <= s.rev /\ s.cur.seq <= s.seq
      /\ s.res # NoWork => s.cur # NoWork
      /\ s \in [desired : DesiredStates, rev : Nat, seq : 0 .. MaxCounter, cur : Slots, res : Slots]
      /\ Recorded(n, d) => s = n.rec[d]
      /\ s.res = NoWork
  <2>1. s.seq < MaxCounter /\ SlotsFree(s)
    BY DEF Decidable
  <2>2. CASE n.rec[d] = NoRecord
    <3>1. s = NewRecord /\ ~Recorded(n, d)
      BY <2>2 DEF StoredRecord, Recorded
    <3> QED
      BY <1>1, <2>1, <3>1 DEF NewRecord, Slots, DesiredStates, StateBounds
  <2>3. CASE n.rec[d] # NoRecord
    <3>1. s = n.rec[d] /\ Recorded(n, d)
      BY <2>3 DEF StoredRecord, Recorded
    <3>2. s \in Records /\ ValidRecord(s, n.mark)
      BY <3>1, NamespaceFields
    <3>3. /\ s.desired \in DesiredStates /\ s.rev \in 1 .. MaxCounter /\ s.seq \in 0 .. MaxCounter
          /\ s.cur # NoWork => s.cur \in Transitions
      BY <3>2, RecordFields
    <3>4. s.rev \in 0 .. n.mark /\ s.cur \in Slots /\ s.res \in Slots
      BY <1>1, <3>2, <3>3 DEF ValidRecord, Records, StateBounds
    <3>5. s \in [desired : DesiredStates, rev : Nat, seq : 0 .. MaxCounter, cur : Slots, res : Slots]
      BY <3>2, <3>3 DEF Records, DesiredStates, StateBounds
    <3>6. s.res = NoWork
      BY <2>1, <3>2 DEF SlotsFree, ValidRecord
    <3> HIDE DEF s
    <3> QED
      BY <2>1, <3>1, <3>2, <3>3, <3>4, <3>5, <3>6 DEF ValidRecord
  <2> QED
    BY <2>2, <2>3
<1> HIDE DEF s
<1>4. next \in Transitions /\ next \in Slots /\ next # NoWork /\ next.rev = mark
      /\ next.seq = s.seq + 1 /\ next.phase = 0
  BY <1>2, <1>3 DEF Transitions, Slots, Apart, StateBounds
<1>5. p = IF s.cur = NoWork THEN [s EXCEPT !.cur = next, !.seq = @ + 1]
          ELSE [s EXCEPT !.res = next, !.seq = @ + 1]
  BY DEF Planned
<1> HIDE DEF next, mark
<1>6. s.seq + 1 \in 0 .. MaxCounter
  BY <1>3 DEF StateBounds
<1>7. /\ p \in [desired : DesiredStates, rev : Nat, seq : 0 .. MaxCounter, cur : Slots, res : Slots]
      /\ p.seq = s.seq + 1
      /\ p.cur = IF s.cur = NoWork THEN next ELSE s.cur
      /\ p.res = IF s.cur = NoWork THEN NoWork ELSE next
  BY <1>3, <1>4, <1>5, <1>6
<1>8. des \in DesiredStates
  BY DEF DesiredStates
<1> HIDE DEF p, des
<1>9. /\ r \in Records /\ r.rev = mark /\ r.desired = des /\ r.seq = s.seq + 1
      /\ r.cur = p.cur /\ r.res = p.res
  BY <1>2, <1>7, <1>8 DEF Records, DesiredStates
<1>10. z = Replaced(n, d, r, mark)
  BY DEF Decided, Replaced, r, p, s, des, mark
<1> HIDE DEF r
<1>11. s.cur # NoWork => s.cur.rev \in Nat /\ s.cur.seq \in Nat /\ s.cur.phase \in Nat
  BY <1>3, TransitionFields
<1>12. ValidRecord(r, mark)
  BY <1>2, <1>3, <1>4, <1>7, <1>9, <1>11 DEF ValidRecord
<1>13. Recorded(n, d) =>
         /\ n.rec[d].res # NoWork => \/ SameIdentity(r.res, n.rec[d].res)
                                     \/ SameIdentity(r.cur, n.rec[d].res)
         /\ SameIdentity(r.cur, n.rec[d].cur) => r.cur.phase >= n.rec[d].cur.phase
  BY <1>3, <1>7, <1>9, <1>11 DEF SameIdentity
<1>14. mark \in 0 .. MaxCounter /\ n.mark <= mark /\ r.rev > n.mark
  BY <1>2, <1>9 DEF StateBounds
<1>15. Follows(n, z)
  BY <1>9, <1>10, <1>12, <1>13, <1>14, ReplacedFollows
<1>16. z.rec[d] = r /\ z.mark = mark /\ Recorded(z, d) /\ Decoded(z)
  BY <1>9, <1>10, <1>12, <1>14, <1>15, ReplacedFacts, NamespaceFields DEF Follows
<1> HIDE DEF z
<1> DEFINE a == [driver |-> d, expected |-> Revision(n, d), rev |-> z.rec[d].rev,
                 desired |-> z.rec[d].desired]
<1>17. Revision(n, d) \in 0 .. n.mark
  BY <1>1, <1>2, <1>3 DEF Revision
<1>18. a.driver = d /\ a.expected = Revision(n, d) /\ a.rev = mark /\ a.desired = des
  BY <1>9, <1>16
<1>19. a \in Decisions
  BY <1>2, <1>8, <1>9, <1>16, <1>17 DEF Decisions
<1> HIDE DEF a
<1>20. a.expected < a.rev
  BY <1>2, <1>17, <1>18
<1>21. Covers(z, a)
  BY <1>2, <1>9, <1>16, <1>18 DEF Covers
<1>22. ASSUME NEW b \in Decisions, Covers(n, b)
       PROVE  b.rev < a.rev /\ (b.driver = a.driver => b.rev <= a.expected)
  <2>1. b.rev \in Nat /\ n.mark >= b.rev
    BY <1>22 DEF Decisions, Covers
  <2>2. ASSUME b.driver = d PROVE b.rev <= Revision(n, d)
    <3>1. CASE Recorded(n, d)
      <4>1. n.rec[d].rev >= b.rev
        BY <1>3, <1>22, <2>1, <2>2, <3>1 DEF Covers
      <4> QED
        BY <1>3, <2>1, <3>1, <4>1 DEF Revision
    <3>2. CASE ~Recorded(n, d)
      BY <1>2, <2>1, <3>2 DEF Revision
    <3> QED
      BY <3>1, <3>2
  <2> QED
    BY <1>2, <1>18, <2>1, <2>2
<1> QED
  BY <1>15, <1>19, <1>20, <1>21, <1>22 DEF a, z

\* An update of the work of one record.
LEMMA WorkedFacts ==
    ASSUME Apart, StateBounds, NEW n \in Valid, NEW d \in Drivers, Recorded(n, d),
           NEW cur \in Updates(n.rec[d].cur) \cup Updates(n.rec[d].res),
           NEW res \in Updates(n.rec[d].res), WorkAllowed(n.rec[d], cur, res)
    PROVE  Follows(n, Worked(n, d, cur, res))
<1> DEFINE s == n.rec[d]
           r == [s EXCEPT !.cur = cur, !.res = res]
           z == Worked(n, d, cur, res)
<1>1. s \in Records /\ ValidRecord(s, n.mark) /\ n.mark \in 0 .. MaxCounter /\ n \in Namespaces
  BY NamespaceFields
<1>2. ASSUME NEW t \in Slots, NEW u \in Updates(t), u # NoWork
      PROVE  /\ t # NoWork /\ t \in Transitions /\ u \in Transitions
             /\ u.rev = t.rev /\ u.seq = t.seq /\ u.kind = t.kind
  BY <1>2 DEF Updates, Slots, Transitions
<1>3. s.cur \in Slots /\ s.res \in Slots
  BY <1>1 DEF Records
<1> HIDE DEF s
<1>4. cur # NoWork =>
        /\ cur \in Transitions
        /\ \/ s.cur # NoWork /\ cur.rev = s.cur.rev /\ cur.seq = s.cur.seq
           \/ s.res # NoWork /\ cur.rev = s.res.rev /\ cur.seq = s.res.seq
  BY <1>2, <1>3 DEF s
<1>5. res # NoWork => /\ res \in Transitions /\ s.res # NoWork
                      /\ res.rev = s.res.rev /\ res.seq = s.res.seq
  BY <1>2, <1>3 DEF s
<1>6. cur \in Slots /\ res \in Slots
  BY <1>4, <1>5 DEF Slots
<1>7. /\ r \in Records /\ r.cur = cur /\ r.res = res /\ r.rev = s.rev /\ r.seq = s.seq
      /\ r.desired = s.desired
  BY <1>1, <1>6 DEF Records
<1>8. z = Replaced(n, d, r, n.mark)
  <2>1. n = [mark |-> n.mark, rec |-> n.rec, recovery |-> n.recovery]
    BY <1>1 DEF Namespaces
  <2>2. z = [n EXCEPT !.rec = [n.rec EXCEPT ![d] = r]]
    BY <1>1 DEF Worked, s, Namespaces, r
  <2> QED
    BY <1>1, <2>1, <2>2 DEF Replaced, Namespace, Namespaces
<1> HIDE DEF r
<1>9. ValidRecord(r, n.mark)
  BY <1>1, <1>4, <1>5, <1>7 DEF ValidRecord, WorkAllowed, s
<1>10. WorkAllowed(s, cur, res)
  BY DEF s
<1>11. s.res # NoWork => SameIdentity(r.res, s.res) \/ SameIdentity(r.cur, s.res)
  BY <1>7, <1>10 DEF WorkAllowed
<1>12. SameIdentity(r.cur, s.cur) => r.cur.phase >= s.cur.phase
  <2> SUFFICES ASSUME SameIdentity(cur, s.cur) PROVE cur.phase >= s.cur.phase
    BY <1>7
  <2>1. cur # NoWork /\ s.cur # NoWork /\ cur.seq = s.cur.seq
    BY DEF SameIdentity
  <2>2. cur.phase \in Nat /\ s.cur.phase \in Nat /\ s.cur.seq \in Nat
    BY <1>1, <1>4, <2>1, RecordFields, TransitionFields
  <2>3. ~SameIdentity(cur, s.res)
    <3>1. s.res # NoWork => s.cur.seq < s.res.seq
      BY <1>1 DEF ValidRecord
    <3>2. s.res # NoWork => s.res.seq \in Nat
      BY <1>1, RecordFields
    <3> QED
      BY <2>1, <2>2, <3>1, <3>2 DEF SameIdentity
  <2>4. ~Regresses(s.cur, cur)
    BY <1>10, <2>1, <2>3 DEF WorkAllowed, Progresses
  <2> QED
    BY <2>2, <2>4 DEF Regresses
<1>13. /\ n.mark \in Nat /\ n.mark <= n.mark
       /\ Recorded(n, d) /\ r.rev = n.rec[d].rev /\ r.desired = n.rec[d].desired
  BY <1>1, <1>7 DEF s, StateBounds
<1>14. Recorded(n, d) =>
         /\ n.rec[d].res # NoWork => \/ SameIdentity(r.res, n.rec[d].res)
                                     \/ SameIdentity(r.cur, n.rec[d].res)
         /\ SameIdentity(r.cur, n.rec[d].cur) => r.cur.phase >= n.rec[d].cur.phase
  BY <1>11, <1>12 DEF s
<1>15. Follows(n, Replaced(n, d, r, n.mark))
  BY <1>1, <1>7, <1>9, <1>13, <1>14, ReplacedFollows
<1> QED
  BY <1>8, <1>15

\* A write of the same records, with other recovery material or none.
LEMMA RecoveredFacts ==
    ASSUME Apart, StateBounds, NEW n \in Valid, NEW ids \in SUBSET Drivers
    PROVE  Follows(n, n) /\ Follows(n, [n EXCEPT !.recovery = ids])
<1>1. ASSUME NEW z \in Valid, z.mark = n.mark, z.rec = n.rec PROVE Follows(n, z)
  <2>1. WorkKept(n, z)
    BY <1>1, SameRecordKept DEF WorkKept
  <2>2. Decoded(z)
    BY <1>1 DEF Valid, Decoded, Apart
  <2>3. \A a \in Decisions : Covers(n, a) => Covers(z, a)
    BY <1>1, <2>2 DEF Covers, Recorded
  <2> QED
    BY <1>1, <2>1, <2>3 DEF Follows
<1> DEFINE z == [n EXCEPT !.recovery = ids]
<1>2. z \in Namespaces /\ z.mark = n.mark /\ z.rec = n.rec
  BY DEF Valid, Namespaces
<1> HIDE DEF z
<1>3. z \in Valid
  BY <1>2 DEF Valid, Recorded
<1>4. Follows(n, n)
  BY <1>1
<1>5. Follows(n, z)
  BY <1>1, <1>2, <1>3
<1> QED
  BY <1>4, <1>5 DEF z

-----------------------------------------------------------------------------
(* What each action does                                                     *)

\* A write is under way exactly between its snapshot and its last effect.
LEMMA WriteFields ==
    ASSUME WriteType
    PROVE  /\ Holding <=> w.pc \in {"rename", "dir", "commit", "ambiguous"}
           /\ Busy <=> Holding \/ w = Closing
           /\ ~Busy <=> w = Idle
           /\ w.pc = "closing" <=> w = Closing
           /\ Holding => /\ w.snap \in Files /\ w.stage \in Valid \cup {NoStage} /\ w.gen \in Nat
                         /\ w.op \in {"flush", "stop", "control"} /\ w.extra \in Extras
                         /\ w.snap.ctl \in Ctls /\ w.snap.content \in Contents
BY DEF WriteType, Holding, Busy, Idle, Closing, Writes, Files

\* The fields of the manager.
LEMMA ManagerFields ==
    ASSUME ManagerType
    PROVE  /\ m.up \in BOOLEAN /\ m.boots \in Nat /\ m.changes \in Nat /\ m.content \in Contents
           /\ m.ctl \in Ctls /\ m.dirty \in BOOLEAN /\ m.gen \in Nat /\ m.status \in Statuses
           /\ m.ambiguous \in Valid \cup {NoStage} /\ m.blocked \in BOOLEAN
           /\ m.stopped \in BOOLEAN /\ m.registered \in BOOLEAN
           /\ m.configs \in [Drivers -> Dispositions]
BY DEF ManagerType, Managers

\* The fields of the directory.
LEMMA FileFields ==
    ASSUME FileType
    PROVE  /\ fs.shown \in DirEntries /\ fs.kept \in SUBSET DirEntries /\ fs.shown \in fs.kept
           /\ fs.shown.file \in Files \cup {AbsentFile, CorruptFile} /\ fs.shown.copies \in BOOLEAN
BY DEF FileType, Directories, DirEntries

\* A file that parses is a state file.
LEMMA ParsedFields ==
    ASSUME Apart, NEW f \in Files \cup {AbsentFile, CorruptFile}
    PROVE  /\ Parsed(f) <=> f \in Files
           /\ Parsed(f) => f.content \in Contents /\ f.ctl \in Ctls
<1>1. Files \subseteq StateFiles
  BY DEF Files, StateFiles, Ctls, Valid
<1>2. AbsentFile \notin Files /\ CorruptFile \notin Files
  BY <1>1 DEF Apart
<1> QED
  BY <1>2 DEF Parsed, Files

\* A file is what its parts make it.
LEMMA FileIsFile ==
    ASSUME NEW c \in Contents, NEW n \in Ctls
    PROVE  File(c, n) \in Files /\ File(c, n).content = c /\ File(c, n).ctl = n
BY DEF File, Files

\* The process is down.
LEMMA DownFields ==
    ASSUME NEW b \in Nat, NEW ch \in Nat
    PROVE  /\ Down(b, ch) \in Managers
           /\ Down(b, ch).up = FALSE /\ Down(b, ch).ambiguous = NoStage
           /\ Down(b, ch).ctl = NoNamespace
<1>1. NoConfigs \in [Drivers -> Dispositions]
  BY DEF NoConfigs, Dispositions
<1>2. EmptyContent \in Contents
  BY DEF EmptyContent, Contents
<1> QED
  BY <1>1, <1>2 DEF Down, Managers, Ctls, Statuses

\* A process that has just loaded.
LoadedAs(z, c, n, st, blocked, dirty) ==
    /\ z.up = TRUE /\ z.content = c /\ z.ctl = n /\ z.status = st
    /\ z.blocked = blocked /\ z.dirty = dirty /\ z.ambiguous = NoStage /\ z.stopped = FALSE

LEMMA LoadedFields ==
    ASSUME ManagerType, NEW c \in Contents, NEW n \in Ctls, NEW st \in Statuses,
           NEW blocked \in BOOLEAN, NEW dirty \in BOOLEAN
    PROVE  /\ Loaded(c, n, st, blocked, dirty) \in Managers
           /\ LoadedAs(Loaded(c, n, st, blocked, dirty), c, n, st, blocked, dirty)
<1> DEFINE b == m.boots + 1
           g == IF dirty THEN 1 ELSE 0
           d == Down(b, m.changes)
<1>1. b \in Nat /\ m.changes \in Nat /\ g \in Nat
  BY ManagerFields
<1>2. d \in Managers /\ d.ambiguous = NoStage /\ d.stopped = FALSE
  BY <1>1, DownFields DEF Down
<1> HIDE DEF d, b, g
<1>3. Loaded(c, n, st, blocked, dirty) =
        [d EXCEPT !.up = TRUE, !.content = c, !.ctl = n, !.status = st, !.blocked = blocked,
                  !.dirty = dirty, !.gen = g]
  BY DEF Loaded, d, b, g
<1> QED
  BY <1>1, <1>2, <1>3 DEF Managers, LoadedAs

\* Load takes the lock or else writes nothing, and what it may write over it holds.
LoadShape ==
    /\ ~m.up /\ m' \in Managers /\ m'.up = TRUE /\ m'.ambiguous = NoStage /\ m'.stopped = FALSE
    /\ w' = w /\ acked' = acked /\ storage' = storage
    /\ \/ fs' = fs
       \/ fs.shown.file = CorruptFile /\ fs' = Renamed(fs, Entry(AbsentFile, TRUE))
    /\ \/ /\ lock' = "manager"
          /\ ~m'.dirty => Parsed(fs'.shown.file) /\ fs'.shown.file.content = m'.content
          /\ ~m'.blocked => Matches(fs'.shown.file, m'.ctl)
       \/ lock' = lock /\ m'.blocked = TRUE
    /\ m'.status = "MISSING" => m'.ctl = NoNamespace

LEMMA LoadFacts ==
    ASSUME Apart, Types, Load
    PROVE  LoadShape
<1>1. ManagerType /\ FileType
  BY DEF Types
<1>2. EmptyContent \in Contents /\ NoNamespace \in Ctls /\ BadNamespace \in Ctls
  BY DEF EmptyContent, Contents, Ctls
<1>3. ASSUME NEW c \in Contents, NEW dirty \in BOOLEAN, NEW enum \in BOOLEAN
      PROVE  \E st \in Statuses, bl \in BOOLEAN :
                /\ LoadedMissing(c, dirty, enum) \in Managers
                /\ LoadedAs(LoadedMissing(c, dirty, enum), c, NoNamespace, st, bl, dirty)
  <2> DEFINE st == IF ~enum THEN "UNREADABLE"
                   ELSE IF fs.shown.copies THEN "MISSING_WITH_MATERIAL" ELSE "MISSING"
             bl == ~enum
  <2>1. st \in Statuses /\ bl \in BOOLEAN
    BY DEF Statuses
  <2> HIDE DEF st, bl
  <2>2. LoadedMissing(c, dirty, enum) = Loaded(c, NoNamespace, st, bl, dirty)
    BY DEF LoadedMissing, st, bl
  <2> QED
    BY <1>1, <1>2, <1>3, <2>1, <2>2, LoadedFields
<1>4. CASE LoadAbsent
  <2>1. PICK enum \in BOOLEAN : m' = LoadedMissing(EmptyContent, TRUE, enum)
    BY <1>4 DEF LoadAbsent
  <2>2. /\ m' \in Managers /\ m'.up = TRUE /\ m'.ctl = NoNamespace /\ m'.dirty = TRUE
        /\ m'.ambiguous = NoStage /\ m'.stopped = FALSE
    <3>1. PICK st \in Statuses, bl \in BOOLEAN :
             m' \in Managers /\ LoadedAs(m', EmptyContent, NoNamespace, st, bl, TRUE)
      BY <1>2, <1>3, <2>1
    <3> QED
      BY <3>1 DEF LoadedAs
  <2>3. /\ ~m.up /\ w' = w /\ acked' = acked /\ storage' = storage /\ fs' = fs
        /\ lock' = "manager" /\ fs'.shown.file = AbsentFile
    BY <1>4 DEF LoadAbsent, Boot
  <2>4. Matches(fs'.shown.file, m'.ctl)
    BY <2>2, <2>3 DEF Matches, Parsed
  <2> QED
    BY <2>2, <2>3, <2>4 DEF LoadShape
<1>5. CASE LoadUnreadable
  <2>1. /\ m' \in Managers /\ m'.up = TRUE /\ m'.ctl = NoNamespace /\ m'.dirty = TRUE
        /\ m'.ambiguous = NoStage /\ m'.stopped = FALSE /\ m'.blocked = TRUE
    <3>1. m' = Loaded(EmptyContent, NoNamespace, "UNREADABLE", TRUE, TRUE)
      BY <1>5 DEF LoadUnreadable
    <3>2. m' \in Managers /\ LoadedAs(m', EmptyContent, NoNamespace, "UNREADABLE", TRUE, TRUE)
      BY <1>1, <1>2, <3>1, LoadedFields DEF Statuses
    <3> QED
      BY <3>2 DEF LoadedAs
  <2>2. /\ ~m.up /\ w' = w /\ acked' = acked /\ storage' = storage /\ fs' = fs
        /\ lock' = "manager"
    BY <1>5 DEF LoadUnreadable, Boot
  <2> QED
    BY <2>1, <2>2 DEF LoadShape
<1>6. CASE LoadCorrupt
  <2>1. PICK bl \in BOOLEAN :
           /\ m' = Loaded(EmptyContent, NoNamespace, "CORRUPT", bl, TRUE)
           /\ \/ fs' = Renamed(fs, Entry(AbsentFile, TRUE))
              \/ bl = TRUE /\ fs' = fs
    BY <1>6 DEF LoadCorrupt
  <2>2. /\ m' \in Managers /\ m'.up = TRUE /\ m'.ctl = NoNamespace /\ m'.dirty = TRUE
        /\ m'.ambiguous = NoStage /\ m'.stopped = FALSE /\ m'.blocked = bl
        /\ m'.status = "CORRUPT"
    <3>1. m' \in Managers /\ LoadedAs(m', EmptyContent, NoNamespace, "CORRUPT", bl, TRUE)
      BY <1>1, <1>2, <2>1, LoadedFields DEF Statuses
    <3> QED
      BY <3>1 DEF LoadedAs
  <2>3. /\ ~m.up /\ w' = w /\ acked' = acked /\ storage' = storage
        /\ lock' = "manager" /\ fs.shown.file = CorruptFile
    BY <1>6 DEF LoadCorrupt, Boot
  <2>4. ~m'.blocked => Matches(fs'.shown.file, m'.ctl)
    <3> SUFFICES ASSUME fs' = Renamed(fs, Entry(AbsentFile, TRUE))
                 PROVE  Matches(fs'.shown.file, m'.ctl)
      BY <2>1, <2>2
    <3>1. fs'.shown.file = AbsentFile
      BY DEF Renamed, Entry
    <3> QED
      BY <2>2, <3>1 DEF Matches, Parsed
  <2> QED
    BY <2>1, <2>2, <2>3, <2>4 DEF LoadShape
<1>7. fs.shown.file \in Files \cup {AbsentFile, CorruptFile}
  BY <1>1, FileFields
<1>8. CASE LoadParsed
  <2> DEFINE f == fs.shown.file
  <2>1. /\ ~m.up /\ w' = w /\ acked' = acked /\ storage' = storage /\ fs' = fs
        /\ lock' = "manager" /\ Parsed(f)
    BY <1>8 DEF LoadParsed, Boot
  <2>2. f.content \in Contents /\ f.ctl \in Ctls
    BY <1>7, <2>1, ParsedFields
  <2>3. PICK up, enum \in BOOLEAN : m' = ParsedState(f, up, enum)
    BY <1>8 DEF LoadParsed
  <2>4. \/ f.ctl = NoNamespace /\ m' = LoadedMissing(f.content, up, enum)
        \/ \E st \in {"CORRUPT", "LOADED"} : m' = Loaded(f.content, f.ctl, st, FALSE, up)
    BY <2>3 DEF ParsedState, Apart
  <2>5. /\ m' \in Managers /\ m'.up = TRUE /\ m'.ctl = f.ctl /\ m'.dirty = up
        /\ m'.content = f.content /\ m'.ambiguous = NoStage /\ m'.stopped = FALSE
        /\ m'.status = "MISSING" => m'.ctl = NoNamespace
    <3>1. CASE f.ctl = NoNamespace /\ m' = LoadedMissing(f.content, up, enum)
      <4>1. PICK st \in Statuses, bl \in BOOLEAN :
               m' \in Managers /\ LoadedAs(m', f.content, NoNamespace, st, bl, up)
        BY <1>3, <2>2, <2>3, <3>1
      <4> QED
        BY <3>1, <4>1 DEF LoadedAs
    <3>2. ASSUME NEW st \in {"CORRUPT", "LOADED"}, m' = Loaded(f.content, f.ctl, st, FALSE, up)
          PROVE  /\ m' \in Managers /\ m'.up = TRUE /\ m'.ctl = f.ctl /\ m'.dirty = up
                 /\ m'.content = f.content /\ m'.ambiguous = NoStage /\ m'.stopped = FALSE
                 /\ m'.status = "MISSING" => m'.ctl = NoNamespace
      <4>1. st \in Statuses /\ st # "MISSING"
        BY <3>2 DEF Statuses
      <4>2. m' \in Managers /\ LoadedAs(m', f.content, f.ctl, st, FALSE, up)
        BY <1>1, <2>2, <2>3, <3>2, <4>1, LoadedFields
      <4> QED
        BY <4>1, <4>2 DEF LoadedAs
    <3> QED
      BY <2>4, <3>1, <3>2
  <2>6. Matches(fs'.shown.file, m'.ctl)
    BY <2>1, <2>5 DEF Matches
  <2> QED
    BY <2>1, <2>5, <2>6 DEF LoadShape
<1>9. CASE LoadLocked
  <2> DEFINE f == fs.shown.file
  <2>1. /\ ~m.up /\ w' = w /\ acked' = acked /\ storage' = storage /\ fs' = fs /\ lock' = lock
    BY <1>9 DEF LoadLocked, Boot
  <2>2. \E c \in Contents, n \in Ctls, up \in BOOLEAN : m' = Loaded(c, n, "LOCKED", TRUE, up)
    <3>1. CASE Parsed(f) /\ \E up \in BOOLEAN : m' = Loaded(f.content, f.ctl, "LOCKED", TRUE, up)
      BY <1>7, <3>1, ParsedFields
    <3>2. CASE m' = Loaded(EmptyContent, NoNamespace, "LOCKED", TRUE, TRUE)
      BY <1>2, <3>2
    <3> QED
      BY <1>9, <3>1, <3>2 DEF LoadLocked
  <2>3. /\ m' \in Managers /\ m'.up = TRUE /\ m'.ambiguous = NoStage /\ m'.stopped = FALSE
        /\ m'.blocked = TRUE /\ m'.status = "LOCKED"
    <3>1. PICK c \in Contents, n \in Ctls, up \in BOOLEAN : m' = Loaded(c, n, "LOCKED", TRUE, up)
      BY <2>2
    <3>2. m' \in Managers /\ LoadedAs(m', c, n, "LOCKED", TRUE, up)
      BY <1>1, <3>1, LoadedFields DEF Statuses
    <3> QED
      BY <3>2 DEF LoadedAs
  <2> QED
    BY <2>1, <2>3 DEF LoadShape
<1> QED
  BY <1>4, <1>5, <1>6, <1>8, <1>9 DEF Load

\* What no write and no registration touches in memory.
SameState ==
    /\ m'.up = m.up /\ m'.ctl = m.ctl /\ m'.status = m.status /\ m'.ambiguous = m.ambiguous
    /\ m'.blocked = m.blocked /\ m'.stopped = m.stopped

SameContent == m'.content = m.content /\ m'.dirty = m.dirty /\ m'.gen = m.gen

\* The decision that a control write carries.
NewDecision(n, z, a) ==
    /\ a.expected < a.rev
    /\ Covers(z, a)
    /\ \A b \in Decisions : Covers(n, b) =>
          b.rev < a.rev /\ (b.driver = a.driver => b.rev <= a.expected)

\* A write takes the slot.
StartShape ==
    /\ m.up /\ ~m.blocked /\ m.ambiguous = NoStage /\ w = Idle
    /\ m' \in Managers /\ SameState /\ SameContent
    /\ w' \in Writes /\ w'.pc = "rename" /\ w'.gen = m.gen /\ w'.snap.content = m.content
    /\ \/ w'.op # "control" /\ w'.snap.ctl = m.ctl
       \/ /\ w'.op = "control" /\ w'.stage \in Valid /\ w'.snap.ctl = w'.stage
          /\ m.ctl = NoNamespace \/ (m.ctl \in Valid /\ Follows(m.ctl, w'.stage))
          /\ w'.extra.what = "decide" =>
                m.ctl \in Valid /\ NewDecision(m.ctl, w'.stage, w'.extra.decision)
    /\ UNCHANGED <<fs, lock, acked, storage>>

LEMMA StartFlushFacts ==
    ASSUME Types, NEW op \in {"flush", "stop"}, StartFlush(op)
    PROVE  StartShape
<1>1. ManagerType /\ WriteType
  BY DEF Types
<1>2. /\ m.up /\ ~m.blocked /\ m.ambiguous = NoStage /\ ~Busy /\ m' = m
      /\ w' = Hold(op, File(m.content, m.ctl), NoStage, [what |-> "flush"])
      /\ UNCHANGED <<fs, lock, acked, storage>>
  BY DEF StartFlush, Flushable
<1>3. /\ w = Idle /\ m.content \in Contents /\ m.ctl \in Ctls /\ m.gen \in Nat
  BY <1>1, <1>2, WriteFields, ManagerFields
<1> DEFINE f == File(m.content, m.ctl)
           x == [what |-> "flush"]
<1>4. f \in Files /\ f.content = m.content /\ f.ctl = m.ctl
  BY <1>3, FileIsFile
<1>5. x \in Extras
  BY DEF Extras
<1> HIDE DEF f, x
<1>6. w' = [pc |-> "rename", op |-> op, snap |-> f, stage |-> NoStage, gen |-> m.gen, extra |-> x]
  BY <1>2 DEF Hold, f, x
<1>7. w' \in Writes
  BY <1>3, <1>4, <1>5, <1>6 DEF Writes
<1>8. w'.pc = "rename" /\ w'.op # "control" /\ w'.snap = f /\ w'.gen = m.gen
  BY <1>6
<1>9. m' \in Managers /\ SameState /\ SameContent
  BY <1>1, <1>2 DEF ManagerType, SameState, SameContent
<1> QED
  BY <1>2, <1>3, <1>4, <1>7, <1>8, <1>9 DEF StartShape

LEMMA StartControlFacts ==
    ASSUME Types, m.up, ~Busy, m.ambiguous = NoStage, NEW stage \in Valid, NEW x \in Extras,
           StartControl(stage, x),
           m.ctl = NoNamespace \/ (m.ctl \in Valid /\ Follows(m.ctl, stage)),
           x.what = "decide" => m.ctl \in Valid /\ NewDecision(m.ctl, stage, x.decision)
    PROVE  StartShape
<1>1. ManagerType /\ WriteType
  BY DEF Types
<1> DEFINE f == File(m.content, stage)
           reg == x.what \in {"seed", "register"}
           ch == IF reg THEN m.changes ELSE m.changes + 1
           rg == m.registered \/ reg
<1>2. /\ ~m.blocked /\ UNCHANGED <<fs, lock, acked, storage>>
      /\ w' = Hold("control", f, stage, x)
      /\ m' = [m EXCEPT !.registered = rg, !.changes = ch]
  BY DEF StartControl
<1>3. /\ w = Idle /\ m.content \in Contents /\ m.gen \in Nat /\ m.changes \in Nat
      /\ stage \in Ctls
  BY <1>1, WriteFields, ManagerFields DEF Ctls
<1>4. f \in Files /\ f.content = m.content /\ f.ctl = stage
  BY <1>3, FileIsFile
<1>5. rg \in BOOLEAN /\ ch \in Nat
  BY <1>3
<1> HIDE DEF f, reg, ch, rg
<1>6. w' = [pc |-> "rename", op |-> "control", snap |-> f, stage |-> stage, gen |-> m.gen, extra |-> x]
  BY <1>2 DEF Hold
<1>7. w' \in Writes
  BY <1>3, <1>4, <1>6 DEF Writes
<1>8. /\ w'.pc = "rename" /\ w'.op = "control" /\ w'.snap = f /\ w'.gen = m.gen
      /\ w'.stage = stage /\ w'.extra = x
  BY <1>6
<1>9. m' \in Managers /\ SameState /\ SameContent
  BY <1>1, <1>2, <1>5 DEF ManagerType, SameState, SameContent, Managers
<1> QED
  BY <1>2, <1>3, <1>4, <1>7, <1>8, <1>9 DEF StartShape

\* The namespace is open to control writes.
LEMMA OpenFields ==
    ASSUME Types, ControlOpen
    PROVE  m.up /\ ~Busy /\ m.ambiguous = NoStage /\ m.ctl \in Valid
<1>1. m.ctl \in Ctls
  BY ManagerFields DEF Types
<1> QED
  BY <1>1 DEF ControlOpen, Admitted, Ctls, Decoded

\* Every control request that writes takes the slot like that.
LEMMA RequestFacts ==
    ASSUME Apart, StateBounds, Types, MissingIsMissing,
           \/ Flush \/ StopFlush
           \/ \E cfg \in Configs : SeedControl(cfg) \/ RegisterControl(cfg)
           \/ \E d \in Drivers :
                 CommitControlWork(d) \/ \E method \in Methods : DecideControl(d, method)
           \/ AdvanceControlCatalog \/ CommitControlRecovery
    PROVE  StartShape
<1>1. CASE Flush \/ StopFlush
  BY <1>1, StartFlushFacts DEF Flush, StopFlush
<1>2. ASSUME NEW cfg \in Configs, SeedControl(cfg) PROVE StartShape
  <2> DEFINE x == [what |-> "seed", configs |-> cfg]
  <2>1. m.up /\ ~Busy /\ m.ambiguous = NoStage /\ m.ctl = NoNamespace /\ StartControl(Seed(cfg), x)
    BY <1>2 DEF SeedControl, Registers, Admitted, MissingIsMissing
  <2>2. x \in Extras /\ x.what # "decide"
    BY <1>2 DEF Extras, Configs
  <2>3. Seed(cfg) \in Valid
    BY <1>2, SeedFacts
  <2> HIDE DEF x
  <2> QED
    BY <2>1, <2>2, <2>3, StartControlFacts
<1>3. ASSUME NEW cfg \in Configs, RegisterControl(cfg) PROVE StartShape
  <2> DEFINE x == [what |-> "register", configs |-> cfg]
             z == Registered(m.ctl, cfg)
  <2>1. m.up /\ ~Busy /\ m.ambiguous = NoStage /\ m.ctl \in Valid
    BY <1>3, OpenFields DEF RegisterControl
  <2>2. StartControl(z, x) /\ m.ctl.mark + Changes(m.ctl, cfg) <= MaxCounter
    BY <1>3 DEF RegisterControl
  <2>3. Follows(m.ctl, z)
    BY <1>3, <2>1, <2>2, RegisteredFacts
  <2>4. x \in Extras /\ x.what # "decide"
    BY <1>3 DEF Extras, Configs
  <2>5. z \in Valid
    BY <2>3 DEF Follows
  <2> HIDE DEF x, z
  <2> QED
    BY <2>1, <2>2, <2>3, <2>4, <2>5, StartControlFacts
<1>4. ASSUME NEW d \in Drivers, CommitControlWork(d) PROVE StartShape
  <2> DEFINE x == [what |-> "work"]
  <2>1. m.up /\ ~Busy /\ m.ambiguous = NoStage /\ m.ctl \in Valid /\ Recorded(m.ctl, d)
    BY <1>4, OpenFields DEF CommitControlWork, Serving
  <2>2. PICK cur \in Updates(m.ctl.rec[d].cur) \cup Updates(m.ctl.rec[d].res),
             res \in Updates(m.ctl.rec[d].res) :
           WorkAllowed(m.ctl.rec[d], cur, res) /\ StartControl(Worked(m.ctl, d, cur, res), x)
    BY <1>4 DEF CommitControlWork
  <2> DEFINE z == Worked(m.ctl, d, cur, res)
  <2>3. Follows(m.ctl, z)
    BY <1>4, <2>1, <2>2, WorkedFacts
  <2>4. x \in Extras /\ x.what # "decide"
    BY DEF Extras
  <2>5. z \in Valid /\ StartControl(z, x)
    BY <2>2, <2>3 DEF Follows
  <2> HIDE DEF x, z
  <2> QED
    BY <2>1, <2>3, <2>4, <2>5, StartControlFacts
<1>5. ASSUME NEW d \in Drivers, NEW method \in Methods, DecideControl(d, method) PROVE StartShape
  <2> DEFINE z == Decided(m.ctl, d, method)
             a == [driver |-> d, expected |-> Revision(m.ctl, d), rev |-> z.rec[d].rev,
                   desired |-> z.rec[d].desired]
             x == [what |-> "decide", decision |-> a]
  <2>1. m.up /\ ~Busy /\ m.ambiguous = NoStage /\ m.ctl \in Valid
    BY <1>5, OpenFields DEF DecideControl, Serving
  <2>2. m.ctl.rec[d] # BadRecord /\ Decidable(m.ctl, d, method) /\ StartControl(z, x)
    BY <1>5 DEF DecideControl
  <2>3. /\ Follows(m.ctl, z)
        /\ a \in Decisions /\ a.expected < a.rev /\ Covers(z, a)
        /\ \A b \in Decisions : Covers(m.ctl, b) =>
              b.rev < a.rev /\ (b.driver = a.driver => b.rev <= a.expected)
    BY <2>1, <2>2, DecidedFacts
  <2> HIDE DEF a, z
  <2>4. NewDecision(m.ctl, z, a) /\ z \in Valid
    BY <2>3 DEF NewDecision, Follows
  <2>5. x \in Extras /\ x.decision = a
    BY <2>3 DEF Extras
  <2> HIDE DEF x
  <2> QED
    BY <2>1, <2>2, <2>3, <2>4, <2>5, StartControlFacts
<1>6. CASE AdvanceControlCatalog
  <2> DEFINE x == [what |-> "catalog"]
  <2>1. m.up /\ ~Busy /\ m.ambiguous = NoStage /\ m.ctl \in Valid
    BY <1>6, OpenFields DEF AdvanceControlCatalog, Serving
  <2>2. StartControl(m.ctl, x)
    BY <1>6 DEF AdvanceControlCatalog
  <2>3. Follows(m.ctl, m.ctl)
    BY <2>1, RecoveredFacts
  <2>4. x \in Extras /\ x.what # "decide"
    BY DEF Extras
  <2> HIDE DEF x
  <2> QED
    BY <2>1, <2>2, <2>3, <2>4, StartControlFacts
<1>7. CASE CommitControlRecovery
  <2> DEFINE x == [what |-> "recovery"]
  <2>1. m.up /\ ~Busy /\ m.ambiguous = NoStage /\ m.ctl \in Valid
    BY <1>7, OpenFields DEF CommitControlRecovery, Serving
  <2>2. PICK ids \in SUBSET Drivers : StartControl([m.ctl EXCEPT !.recovery = ids], x)
    BY <1>7 DEF CommitControlRecovery
  <2> DEFINE z == [m.ctl EXCEPT !.recovery = ids]
  <2>3. Follows(m.ctl, z)
    BY <2>1, RecoveredFacts
  <2>4. x \in Extras /\ x.what # "decide"
    BY DEF Extras
  <2>5. StartControl(z, x) /\ z \in Valid
    BY <2>2, <2>3 DEF Follows
  <2> HIDE DEF x, z
  <2> QED
    BY <2>1, <2>3, <2>4, <2>5, StartControlFacts
<1> QED
  BY <1>1, <1>2, <1>3, <1>4, <1>5, <1>6, <1>7

\* A mutator of the generic state.
MutateShape ==
    /\ m' \in Managers /\ SameState /\ m'.dirty = TRUE /\ m'.gen = m.gen + 1
    /\ UNCHANGED <<w, fs, lock, acked, storage>>

\* A registration that writes nothing, the first half of Stop, and no step at all.
QuietShape ==
    /\ m' \in Managers /\ SameContent
    /\ m'.up = m.up /\ m'.ctl = m.ctl /\ m'.status = m.status /\ m'.ambiguous = m.ambiguous
    /\ m'.blocked = m.blocked
    /\ m.stopped => m'.stopped
    /\ UNCHANGED <<w, fs, lock, acked, storage>>

\* A write that fails, or a generic write that is done.
EndShape ==
    /\ Holding /\ w' \in {Idle, Closing} /\ m' \in Managers /\ SameState
    /\ m'.content = m.content /\ m'.gen = m.gen
    /\ \/ w.pc = "rename" /\ m'.dirty = m.dirty
       \/ /\ w.pc = "commit" /\ w.op # "control"
          /\ m'.dirty = IF m.gen = w.gen THEN FALSE ELSE m.dirty
    /\ UNCHANGED <<fs, lock, acked, storage>>

SameWrite ==
    /\ w' \in Writes /\ w'.op = w.op /\ w'.snap = w.snap /\ w'.stage = w.stage
    /\ w'.gen = w.gen /\ w'.extra = w.extra

\* One filesystem call of a write.
CallShape ==
    /\ Holding /\ SameWrite
    /\ \/ /\ w.pc = "rename" /\ w'.pc = "dir"
          /\ fs' = Renamed(fs, Entry(w.snap, fs.shown.copies))
       \/ /\ w.pc = "dir" /\ w'.pc = "commit" /\ fs' = DirSynced(fs)
       \/ /\ w.pc = "dir" /\ fs' = fs
          /\ w'.pc = IF w.op = "control" THEN "ambiguous" ELSE "commit"
    /\ UNCHANGED <<m, lock, acked, storage>>

\* A control write that is done: the stage is what everyone sees.
CommitShape ==
    /\ ControlHeld /\ w.pc = "commit" /\ w' = Idle
    /\ m' \in Managers
    /\ m'.up = m.up /\ m'.ambiguous = m.ambiguous /\ m'.blocked = m.blocked
    /\ m'.stopped = m.stopped /\ m'.ctl = w.stage /\ m'.status = "LOADED"
    /\ m'.content = m.content /\ m'.dirty = IF m.gen = w.gen THEN FALSE ELSE m.dirty
    /\ acked' = IF w.extra.what = "decide" THEN acked \cup {w.extra.decision} ELSE acked
    /\ UNCHANGED <<fs, lock, storage>>

\* A control write of unknown outcome.
AmbiguousShape ==
    /\ ControlHeld /\ w.pc = "ambiguous" /\ w' = Idle
    /\ m' \in Managers /\ SameContent
    /\ m'.up = m.up /\ m'.ambiguous = w.stage /\ m'.blocked = m.blocked
    /\ m'.stopped = m.stopped /\ m'.ctl = m.ctl /\ m'.status = m.status
    /\ UNCHANGED <<fs, lock, acked, storage>>

\* The outcome is read back.
ReadbackShape ==
    /\ m.up /\ ~Busy /\ ~m.stopped /\ m.ambiguous # NoStage
    /\ m' \in Managers /\ SameContent
    /\ m'.up = m.up /\ m'.stopped = m.stopped /\ m'.ambiguous = NoStage
    /\ \/ m'.blocked = TRUE /\ m'.ctl = m.ctl /\ m'.status # "MISSING" /\ fs' = fs
       \/ /\ Parsed(fs.shown.file) /\ fs.shown.file.ctl = m.ambiguous /\ fs' = DirSynced(fs)
          /\ m'.blocked = m.blocked /\ m'.ctl = m.ambiguous /\ m'.status = "LOADED"
       \/ /\ Parsed(fs.shown.file) /\ fs.shown.file.ctl = m.ctl /\ fs' = DirSynced(fs)
          /\ m'.blocked = m.blocked /\ m'.ctl = m.ctl /\ m'.status = m.status
       \/ /\ Parsed(fs.shown.file) /\ fs.shown.file.ctl \notin {m.ctl, m.ambiguous} /\ fs' = fs
          /\ m'.blocked = m.blocked /\ m'.ctl = fs.shown.file.ctl /\ m'.status = "CORRUPT"
    /\ UNCHANGED <<w, lock, acked, storage>>

\* The second half of Stop.
CloseShape ==
    /\ m.up /\ m.stopped /\ ~Holding /\ w' = Idle
    /\ m' \in Managers /\ SameContent
    /\ m'.up = m.up /\ m'.ctl = m.ctl /\ m'.status = m.status /\ m'.ambiguous = m.ambiguous
    /\ m'.blocked = TRUE /\ m'.stopped = m.stopped
    /\ lock' \in {lock, "free"} /\ lock' # "manager"
    /\ UNCHANGED <<fs, acked, storage>>

\* The process ends; a power loss keeps one of the directories it may keep.
DownShape ==
    /\ m' \in Managers /\ m'.up = FALSE /\ m'.ambiguous = NoStage /\ m'.ctl = NoNamespace
    /\ w' = Idle
    /\ lock' \in {lock, "free"} /\ lock' # "manager"
    /\ \/ fs' = fs
       \/ \E e \in fs.kept : fs' = Durable(e)
    /\ UNCHANGED <<acked, storage>>

\* The storage behind an open outcome.
StorageShape ==
    /\ m.ambiguous # NoStage /\ storage = "sound"
    /\ \/ storage' = "undone" /\ \E e \in fs.kept : fs' = [fs EXCEPT !.shown = e]
       \/ storage' = "spoiled" /\ \E e \in DirEntries : fs' = Durable(e)
    /\ UNCHANGED <<m, w, lock, acked>>

\* The offline reset takes the lock or gives it back.
ToolShape ==
    /\ \/ lock = "free" /\ lock' = "tool"
       \/ lock = "tool" /\ lock' = "free"
    /\ UNCHANGED <<m, w, fs, acked, storage>>

\* The offline reset writes: whatever it may leave on disk covers what was shown,
\* and what it answers is on disk and newer than all that was shown.
ResetAnswers ==
    \A a \in acked' \ acked :
      /\ a \in Decisions /\ a.expected < a.rev
      /\ \A e \in fs'.kept : Parsed(e.file) /\ Covers(e.file.ctl, a)
      /\ \A b \in Decisions : Covers(fs.shown.file.ctl, b) =>
            b.rev < a.rev /\ (b.driver = a.driver => b.rev <= a.expected)
      /\ \A b \in acked' \ acked : a.rev = b.rev \/ a.driver = b.driver => a = b

ResetShape ==
    /\ lock = "tool" /\ lock' = "free"
    /\ m' \in Managers /\ SameContent
    /\ m'.up = m.up /\ m'.ctl = m.ctl /\ m'.status = m.status /\ m'.ambiguous = m.ambiguous
    /\ m'.blocked = m.blocked /\ m'.stopped = m.stopped
    /\ FileType'
    /\ \A e \in fs'.kept \ fs.kept :
          /\ Parsed(e.file)
          /\ \A a \in Decisions : Covers(fs.shown.file.ctl, a) => Covers(e.file.ctl, a)
    /\ acked \subseteq acked' /\ ResetAnswers
    /\ UNCHANGED <<w, storage>>

LEMMA MutateFacts ==
    ASSUME ManagerType, Generic
    PROVE  MutateShape
<1>1. ASSUME NEW c \in Contents, Mutate(c) PROVE MutateShape
  <2>1. m' = [m EXCEPT !.content = c, !.dirty = TRUE, !.gen = m.gen + 1, !.changes = m.changes + 1]
    BY <1>1 DEF Mutate
  <2>2. m.gen + 1 \in Nat /\ m.changes + 1 \in Nat
    BY ManagerFields
  <2>3. m' \in Managers /\ SameState /\ m'.dirty = TRUE /\ m'.gen = m.gen + 1
    BY <2>1, <2>2 DEF ManagerType, Managers, SameState
  <2> QED
    BY <1>1, <2>3 DEF MutateShape, Mutate
<1>2. m.content \in Contents
  BY ManagerFields
<1>3. [m.content EXCEPT !.guid = TRUE] \in Contents
  BY <1>2 DEF Contents
<1>4. \A a \in Addrs : /\ [m.content EXCEPT !.members = @ \cup {a}] \in Contents
                       /\ [m.content EXCEPT !.members = @ \ {a}] \in Contents
  BY <1>2 DEF Contents
<1> QED
  BY <1>1, <1>2, <1>3, <1>4 DEF Generic, SetGUID, UpdateSelf, UpsertKnownBusMember,
     RefreshKnownBusMemberPresence, EvictKnownBusMember

LEMMA QuietFacts ==
    ASSUME ManagerType,
           \/ \E cfg \in Configs : RegisterOnly(cfg) \/ RegisterRefused(cfg)
           \/ Stop \/ UNCHANGED vars
    PROVE  QuietShape
<1>1. ASSUME NEW cfg \in Configs, RegisterOnly(cfg) PROVE QuietShape
  <2>1. m' = [m EXCEPT !.configs = cfg, !.registered = TRUE]
        /\ UNCHANGED <<w, fs, lock, acked, storage>>
    BY <1>1 DEF RegisterOnly
  <2>2. cfg \in [Drivers -> Dispositions]
    BY DEF Configs
  <2>3. m' \in Managers
    BY <2>1, <2>2 DEF ManagerType, Managers
  <2> QED
    BY <2>1, <2>3 DEF QuietShape, SameContent, ManagerType, Managers
<1>2. ASSUME NEW cfg \in Configs, RegisterRefused(cfg) PROVE QuietShape
  <2>1. m' = [m EXCEPT !.registered = TRUE] /\ UNCHANGED <<w, fs, lock, acked, storage>>
    BY <1>2 DEF RegisterRefused
  <2> QED
    BY <2>1 DEF QuietShape, SameContent, ManagerType, Managers
<1>3. CASE Stop
  <2>1. m' = [m EXCEPT !.stopped = TRUE] /\ UNCHANGED <<w, fs, lock, acked, storage>>
    BY <1>3 DEF Stop
  <2> QED
    BY <2>1 DEF QuietShape, SameContent, ManagerType, Managers
<1>4. CASE UNCHANGED vars
  BY <1>4 DEF vars, QuietShape, SameContent, ManagerType
<1> QED
  BY <1>1, <1>2, <1>3, <1>4

LEMMA EndFacts ==
    ASSUME ManagerType, WriteType, WriteFails \/ FlushCommitted
    PROVE  EndShape
<1>1. Ended \in {Idle, Closing}
  BY DEF Ended, Closing
<1>2. CASE WriteFails
  <2>1. w.pc = "rename" /\ m' = [m EXCEPT !.configs = Published] /\ w' = Ended
        /\ UNCHANGED <<fs, lock, acked, storage>>
    BY <1>2 DEF WriteFails
  <2>2. Holding
    BY <2>1, WriteFields
  <2>3. Published \in [Drivers -> Dispositions]
    BY <2>2, WriteFields, ManagerFields DEF Published, Extras
  <2>4. m' \in Managers /\ SameState /\ SameContent
    BY <2>1, <2>3 DEF ManagerType, Managers, SameState, SameContent
  <2> QED
    BY <1>1, <2>1, <2>2, <2>4 DEF EndShape, SameContent
<1>3. CASE FlushCommitted
  <2> DEFINE d == IF m.gen = w.gen THEN FALSE ELSE m.dirty
  <2>1. /\ w.pc = "commit" /\ w.op # "control" /\ w' = Ended
        /\ UNCHANGED <<fs, lock, acked, storage>>
        /\ m' = [m EXCEPT !.dirty = d]
    BY <1>3 DEF FlushCommitted, Cleaned
  <2>2. Holding
    BY <2>1, WriteFields
  <2>3. d \in BOOLEAN
    BY ManagerFields
  <2> HIDE DEF d
  <2>4. /\ m' \in Managers /\ SameState /\ m'.content = m.content /\ m'.gen = m.gen
        /\ m'.dirty = d
    BY <2>1, <2>3 DEF ManagerType, Managers, SameState
  <2> QED
    BY <1>1, <2>1, <2>2, <2>4 DEF EndShape, d
<1> QED
  BY <1>2, <1>3

LEMMA CallFacts ==
    ASSUME WriteType, Rename \/ DirFsync \/ DirFsyncFails
    PROVE  CallShape
<1>1. Holding
  BY WriteFields DEF Rename, DirFsync, DirFsyncFails
<1>2. ASSUME NEW pc \in {"dir", "commit", "ambiguous"}, w' = [w EXCEPT !.pc = pc]
      PROVE  SameWrite /\ w'.pc = pc
  BY <1>1, <1>2 DEF SameWrite, Holding, Writes
<1>3. CASE Rename
  <2>1. SameWrite /\ w'.pc = "dir"
    BY <1>2, <1>3 DEF Rename
  <2> QED
    BY <1>1, <1>3, <2>1 DEF Rename, CallShape
<1>4. CASE DirFsync
  <2>1. SameWrite /\ w'.pc = "commit"
    BY <1>2, <1>4 DEF DirFsync
  <2> QED
    BY <1>1, <1>4, <2>1 DEF DirFsync, CallShape
<1>5. CASE DirFsyncFails
  <2> DEFINE pc == IF w.op = "control" THEN "ambiguous" ELSE "commit"
  <2>1. pc \in {"dir", "commit", "ambiguous"} /\ w' = [w EXCEPT !.pc = pc]
    BY <1>5 DEF DirFsyncFails
  <2>2. SameWrite /\ w'.pc = pc
    BY <1>2, <2>1
  <2> QED
    BY <1>1, <1>5, <2>2 DEF DirFsyncFails, CallShape
<1> QED
  BY <1>3, <1>4, <1>5

LEMMA CommitFacts ==
    ASSUME ManagerType, WriteType, ControlCommitted, w.stage \in Valid
    PROVE  CommitShape
<1> DEFINE d == IF m.gen = w.gen THEN FALSE ELSE m.dirty
           c == IF w.extra.what \in {"seed", "register"} THEN w.extra.configs ELSE m.configs
<1>1. Holding /\ w.op = "control" /\ w.pc = "commit" /\ w' = Idle
  BY WriteFields DEF ControlCommitted
<1>2. d \in BOOLEAN /\ c \in [Drivers -> Dispositions] /\ w.stage \in Ctls /\ "LOADED" \in Statuses
  BY <1>1, WriteFields, ManagerFields DEF Extras, Ctls, Statuses
<1> HIDE DEF d
<1>3. Cleaned(m) = [m EXCEPT !.dirty = d]
  BY DEF Cleaned, d
<1>4. m' = [[m EXCEPT !.dirty = d] EXCEPT !.ctl = w.stage, !.status = "LOADED", !.configs = c]
  <2> DEFINE k == [m EXCEPT !.dirty = d]
  <2>1. k.configs = m.configs /\ k \in Managers
    BY <1>2 DEF ManagerType, Managers
  <2>2. m' = [k EXCEPT !.ctl = w.stage, !.status = "LOADED",
                !.configs = IF w.extra.what \in {"seed", "register"} THEN w.extra.configs ELSE @]
    BY <1>3 DEF ControlCommitted
  <2> HIDE DEF k
  <2>3. m' = [k EXCEPT !.ctl = w.stage, !.status = "LOADED",
                !.configs = IF w.extra.what \in {"seed", "register"} THEN w.extra.configs ELSE k.configs]
    BY <2>1, <2>2 DEF Managers
  <2> QED
    BY <2>1, <2>3 DEF k
<1> HIDE DEF c
<1>5. m' \in Managers
  BY <1>2, <1>4 DEF ManagerType, Managers
<1>6. /\ m'.up = m.up /\ m'.ambiguous = m.ambiguous /\ m'.blocked = m.blocked
      /\ m'.stopped = m.stopped /\ m'.ctl = w.stage /\ m'.status = "LOADED"
      /\ m'.content = m.content /\ m'.dirty = d
  BY <1>2, <1>4 DEF ManagerType, Managers
<1> QED
  BY <1>1, <1>5, <1>6 DEF CommitShape, ControlCommitted, ControlHeld, d

LEMMA AmbiguousFacts ==
    ASSUME ManagerType, WriteType, ControlAmbiguous, w.op = "control"
    PROVE  AmbiguousShape
<1>1. Holding /\ w.pc = "ambiguous" /\ w' = Idle
  BY WriteFields DEF ControlAmbiguous
<1>2. Published \in [Drivers -> Dispositions] /\ w.stage \in Valid \cup {NoStage}
  BY <1>1, WriteFields, ManagerFields DEF Published, Extras
<1>3. m' = [m EXCEPT !.ambiguous = w.stage, !.configs = Published]
  BY DEF ControlAmbiguous
<1>4. m' \in Managers
  BY <1>2, <1>3 DEF ManagerType, Managers
<1>5. /\ SameContent /\ m'.up = m.up /\ m'.ambiguous = w.stage /\ m'.blocked = m.blocked
      /\ m'.stopped = m.stopped /\ m'.ctl = m.ctl /\ m'.status = m.status
  BY <1>3 DEF ManagerType, Managers, SameContent
<1> QED
  BY <1>1, <1>4, <1>5 DEF AmbiguousShape, ControlAmbiguous, ControlHeld

LEMMA ReadbackFacts ==
    ASSUME Apart, ManagerType, FileType, Resolve
    PROVE  ReadbackShape
<1>1. Readback /\ m.up /\ ~Busy /\ ~m.stopped /\ m.ambiguous # NoStage
      /\ UNCHANGED <<w, lock, acked, storage>>
  BY DEF Resolve, ReadbackUnreadable, ReadbackCorrupt, ReadbackStaged, ReadbackCommitted,
     ReadbackDisagrees, Readback, Admitted
<1>2. ASSUME NEW st \in {"UNREADABLE", "CORRUPT"}, m' = ControlFailed(st, NoNamespace), fs' = fs
      PROVE  ReadbackShape
  <2> DEFINE b == m.blocked \/ NoNamespace = NoNamespace
  <2>1. m' = [m EXCEPT !.status = st, !.ambiguous = NoStage, !.blocked = b, !.ctl = m.ctl]
    BY <1>2 DEF ControlFailed
  <2>2. b = TRUE /\ st \in Statuses /\ st # "MISSING"
    BY <1>2 DEF Statuses
  <2> HIDE DEF b
  <2>3. m' \in Managers
    BY <2>1, <2>2, ManagerFields DEF ManagerType, Managers
  <2>4. /\ SameContent /\ m'.up = m.up /\ m'.stopped = m.stopped /\ m'.ambiguous = NoStage
        /\ m'.blocked = TRUE /\ m'.ctl = m.ctl /\ m'.status = st
    BY <2>1, <2>2 DEF ManagerType, Managers, SameContent
  <2> QED
    BY <1>1, <1>2, <2>2, <2>3, <2>4 DEF ReadbackShape
<1>3. CASE ReadbackUnreadable \/ ReadbackCorrupt
  BY <1>2, <1>3 DEF ReadbackUnreadable, ReadbackCorrupt
<1>4. m.ambiguous \in Valid /\ m.ambiguous \in Ctls
  BY <1>1, ManagerFields DEF Ctls
<1>5. CASE ReadbackStaged
  <2>1. /\ m' = [m EXCEPT !.ctl = m.ambiguous, !.status = "LOADED", !.ambiguous = NoStage]
        /\ Parsed(fs.shown.file) /\ fs.shown.file.ctl = m.ambiguous /\ fs' = DirSynced(fs)
    BY <1>5 DEF ReadbackStaged
  <2>2. m' \in Managers
    BY <1>4, <2>1 DEF ManagerType, Managers, Statuses
  <2>3. /\ SameContent /\ m'.up = m.up /\ m'.stopped = m.stopped /\ m'.ambiguous = NoStage
        /\ m'.blocked = m.blocked /\ m'.ctl = m.ambiguous /\ m'.status = "LOADED"
    BY <2>1 DEF ManagerType, Managers, SameContent
  <2> QED
    BY <1>1, <2>1, <2>2, <2>3 DEF ReadbackShape
<1>6. CASE ReadbackCommitted
  <2>1. /\ m' = [m EXCEPT !.ambiguous = NoStage]
        /\ Parsed(fs.shown.file) /\ fs.shown.file.ctl = m.ctl /\ fs' = DirSynced(fs)
    BY <1>6 DEF ReadbackCommitted
  <2>2. m' \in Managers
    BY <2>1 DEF ManagerType, Managers
  <2>3. /\ SameContent /\ m'.up = m.up /\ m'.stopped = m.stopped /\ m'.ambiguous = NoStage
        /\ m'.blocked = m.blocked /\ m'.ctl = m.ctl /\ m'.status = m.status
    BY <2>1 DEF ManagerType, Managers, SameContent
  <2> QED
    BY <1>1, <2>1, <2>2, <2>3 DEF ReadbackShape
<1>7. CASE ReadbackDisagrees
  <2> DEFINE p == fs.shown.file.ctl
  <2>1. m' = ControlFailed("CORRUPT", p) /\ fs' = fs /\ Parsed(fs.shown.file)
        /\ p \notin {m.ctl, m.ambiguous}
    BY <1>7 DEF ReadbackDisagrees
  <2>2. p \in Ctls
    BY <2>1, FileFields, ParsedFields
  <2> HIDE DEF p
  <2>3. CASE p = NoNamespace
    BY <1>2, <2>1, <2>3
  <2>4. CASE p # NoNamespace
    <3> DEFINE b == m.blocked \/ p = NoNamespace
    <3>1. m' = [m EXCEPT !.status = "CORRUPT", !.ambiguous = NoStage, !.blocked = b, !.ctl = p]
      BY <2>1, <2>4 DEF ControlFailed
    <3>2. b = m.blocked
      BY <2>4, ManagerFields
    <3> HIDE DEF b
    <3>3. m' \in Managers
      BY <2>2, <3>1, <3>2, ManagerFields DEF ManagerType, Managers, Statuses
    <3>4. /\ SameContent /\ m'.up = m.up /\ m'.stopped = m.stopped /\ m'.ambiguous = NoStage
          /\ m'.blocked = m.blocked /\ m'.ctl = p /\ m'.status = "CORRUPT"
      BY <3>1, <3>2 DEF ManagerType, Managers, SameContent
    <3> QED
      BY <1>1, <2>1, <3>3, <3>4 DEF ReadbackShape, p
  <2> QED
    BY <2>3, <2>4
<1> QED
  BY <1>3, <1>5, <1>6, <1>7 DEF Resolve

LEMMA CloseFacts ==
    ASSUME ManagerType, WriteType, CloseWrites
    PROVE  CloseShape
<1>1. /\ m.up /\ m.stopped /\ m' = [m EXCEPT !.blocked = TRUE] /\ w' = Idle
      /\ UNCHANGED <<fs, acked, storage>>
      /\ lock' \in {lock, "free"} /\ lock' # "manager"
  BY DEF CloseWrites
<1>2. ~Holding
  BY WriteFields DEF CloseWrites
<1>3. /\ m' \in Managers /\ SameContent
      /\ m'.up = m.up /\ m'.ctl = m.ctl /\ m'.status = m.status /\ m'.ambiguous = m.ambiguous
      /\ m'.blocked = TRUE /\ m'.stopped = m.stopped
  BY <1>1 DEF ManagerType, Managers, SameContent
<1> QED
  BY <1>1, <1>2, <1>3 DEF CloseShape

LEMMA DownFacts ==
    ASSUME ManagerType, Exit \/ PowerLoss
    PROVE  DownShape
<1>1. m' = Down(m.boots, m.changes) /\ w' = Idle /\ UNCHANGED <<acked, storage>>
  BY DEF Exit, PowerLoss
<1>2. m' \in Managers /\ m'.up = FALSE /\ m'.ambiguous = NoStage /\ m'.ctl = NoNamespace
  BY <1>1, ManagerFields, DownFields
<1>3. lock' \in {lock, "free"} /\ lock' # "manager"
  BY DEF Exit, PowerLoss
<1>4. fs' = fs \/ \E e \in fs.kept : fs' = Durable(e)
  BY DEF Exit, PowerLoss
<1> QED
  BY <1>1, <1>2, <1>3, <1>4 DEF DownShape

\* What the storage and the tool leave are files.
LEMMA EntryIsEntry ==
    ASSUME NEW f \in Files \cup {AbsentFile, CorruptFile}, NEW c \in BOOLEAN
    PROVE  Entry(f, c) \in DirEntries /\ Entry(f, c).file = f
BY DEF Entry, DirEntries

LEMMA StorageFacts ==
    ASSUME FileType, RenameUndone \/ Damage
    PROVE  StorageShape
<1>1. CASE RenameUndone
  BY <1>1 DEF RenameUndone, StorageShape
<1>2. CASE Damage
  <2>1. PICK f \in {CorruptFile, File(EmptyContent, BadNamespace), File(EmptyContent, NoNamespace)} :
           fs' = Durable(Entry(f, fs.shown.copies))
    BY <1>2 DEF Damage
  <2>2. f \in Files \cup {AbsentFile, CorruptFile}
    <3>1. EmptyContent \in Contents /\ BadNamespace \in Ctls /\ NoNamespace \in Ctls
      BY DEF EmptyContent, Contents, Ctls
    <3> QED
      BY <2>1, <3>1, FileIsFile
  <2>3. Entry(f, fs.shown.copies) \in DirEntries
    BY <2>2, FileFields, EntryIsEntry
  <2> QED
    BY <1>2, <2>1, <2>3 DEF Damage, StorageShape
<1> QED
  BY <1>1, <1>2

LEMMA ToolFacts ==
    ASSUME ToolLocks \/ ToolUnlocks
    PROVE  ToolShape
BY DEF ToolLocks, ToolUnlocks, ToolShape

\* The places of the drivers that a reset names are 1 to their number.
LEMMA PlaceFacts ==
    ASSUME StateBounds, NEW ids \in SUBSET Drivers
    PROVE  /\ Cardinality(ids) \in Nat
           /\ \A d \in ids : Place(ids, d) \in 1 .. Cardinality(ids)
           /\ \A d, e \in ids : Place(ids, d) = Place(ids, e) => d = e
<1>1. IsFiniteSet(ids) /\ ids \subseteq Nat
  BY FS_Subset DEF StateBounds
<1>2. Cardinality(ids) \in Nat
  BY <1>1, FS_CardinalityType
<1> DEFINE Upto(d) == {x \in ids : x <= d}
<1>3. ASSUME NEW d \in ids
      PROVE  /\ IsFiniteSet(Upto(d)) /\ Cardinality(Upto(d)) \in 1 .. Cardinality(ids)
             /\ Place(ids, d) = Cardinality(Upto(d))
  <2>1. d \in Upto(d) /\ Upto(d) \subseteq ids
    BY <1>1
  <2>2. Place(ids, d) = Cardinality(Upto(d))
    BY DEF Place
  <2> HIDE DEF Upto
  <2>3. IsFiniteSet(Upto(d)) /\ Cardinality(Upto(d)) <= Cardinality(ids)
    BY <1>1, <2>1, FS_Subset
  <2>4. Cardinality(Upto(d)) \in Nat /\ Cardinality(Upto(d)) # 0
    BY <2>1, <2>3, FS_CardinalityType, FS_EmptySet
  <2> QED
    BY <1>2, <2>2, <2>3, <2>4
<1>4. ASSUME NEW d \in ids, NEW e \in ids, d < e PROVE Cardinality(Upto(d)) # Cardinality(Upto(e))
  <2>1. Upto(d) \subseteq Upto(e) /\ e \in Upto(e) /\ e \notin Upto(d)
    <3>1. d \in Nat /\ e \in Nat /\ \A x \in ids : x \in Nat
      BY <1>1
    <3>2. \A x \in ids : x <= d => x <= e
      BY <1>4, <3>1
    <3>3. e <= e /\ ~(e <= d)
      BY <1>4, <3>1
    <3> QED
      BY <3>2, <3>3
  <2>2. IsFiniteSet(Upto(e))
    BY <1>3
  <2> HIDE DEF Upto
  <2> QED
    BY <2>1, <2>2, FS_Subset
<1>5. ASSUME NEW d \in ids, NEW e \in ids, Place(ids, d) = Place(ids, e) PROVE d = e
  <2>1. Cardinality(Upto(d)) = Cardinality(Upto(e))
    BY <1>3, <1>5
  <2>2. ~(d < e) /\ ~(e < d)
    BY <1>4, <2>1
  <2> QED
    BY <1>1, <2>2
<1>6. \A d \in ids : Place(ids, d) \in 1 .. Cardinality(ids)
  BY <1>3
<1> QED
  BY <1>2, <1>5, <1>6

\* A reset namespace: what is on disk follows what was read, driver by driver.
LEMMA ResetNamespaceFacts ==
    ASSUME Apart, StateBounds, NEW n \in Valid, NEW ids \in SUBSET Drivers,
           NEW seq \in [Drivers -> 0 .. MaxCounter], Resettable(n, ids)
    PROVE  LET z == ResetNamespace(n, ids, seq)
           IN  /\ z \in Valid /\ n.mark < z.mark
               /\ \A d \in Drivers \ ids : ~Recorded(z, d)
               /\ \A d \in ids : /\ Recorded(z, d) /\ z.rec[d].desired = "STOPPED"
                                 /\ z.rec[d].rev = n.mark + Place(ids, d)
                                 /\ n.mark < z.rec[d].rev /\ z.rec[d].rev <= z.mark
<1> DEFINE k == Cardinality(ids)
           mark == n.mark + k
           r(d) == [NewRecord EXCEPT !.rev = n.mark + Place(ids, d), !.seq = seq[d]]
           rec == [d \in Drivers |-> IF d \in ids THEN r(d) ELSE NoRecord]
           z == ResetNamespace(n, ids, seq)
<1>1. n.mark \in Nat /\ n.mark \in 0 .. MaxCounter /\ n.recovery \in SUBSET Drivers
  BY DEF Valid, Namespaces
<1>2. k \in Nat /\ k # 0 /\ mark <= MaxCounter /\ MaxCounter \in Nat
  <2>1. ids # {} /\ n.mark + k <= MaxCounter
    BY DEF Resettable
  <2>2. \E d \in ids : Place(ids, d) \in 1 .. k
    BY <2>1, PlaceFacts
  <2> QED
    BY <2>1, <2>2, PlaceFacts DEF StateBounds
<1>3. mark \in 0 .. MaxCounter /\ n.mark < mark
  BY <1>1, <1>2
<1>4. ASSUME NEW d \in ids
      PROVE  /\ r(d) \in Records /\ r(d).rev = n.mark + Place(ids, d)
             /\ r(d).desired = "STOPPED" /\ r(d).cur = NoWork /\ r(d).res = NoWork
             /\ n.mark < r(d).rev /\ r(d).rev <= mark
  <2> DEFINE p == n.mark + Place(ids, d)
  <2>1. Place(ids, d) \in 1 .. k
    BY PlaceFacts
  <2>2. p \in 1 .. MaxCounter /\ n.mark < p /\ p <= mark
    BY <1>1, <1>2, <2>1
  <2>3. seq[d] \in 0 .. MaxCounter
    OBVIOUS
  <2> DEFINE q == [NewRecord EXCEPT !.rev = p, !.seq = seq[d]]
  <2> HIDE DEF p, mark, k
  <2>4. /\ q \in Records /\ q.rev = p /\ q.desired = "STOPPED"
        /\ q.cur = NoWork /\ q.res = NoWork
    BY <2>2, <2>3 DEF Records, Slots, NewRecord
  <2>5. r(d) = q
    BY DEF p
  <2> HIDE DEF q, r
  <2> QED
    BY <2>2, <2>4, <2>5 DEF p
<1>5. z = [mark |-> mark, rec |-> rec, recovery |-> n.recovery]
  BY DEF ResetNamespace, Namespace
<1>6. \A d \in Drivers : rec[d] = IF d \in ids THEN r(d) ELSE NoRecord
  OBVIOUS
<1> HIDE DEF r
<1>7. rec \in [Drivers -> Records \cup {NoRecord, BadRecord}]
  BY <1>4
<1> HIDE DEF rec, mark, z
<1>8. z \in Namespaces
  BY <1>1, <1>3, <1>5, <1>7 DEF Namespaces
<1>9. z.mark = mark /\ z.rec = rec
  BY <1>5
<1>10. \A d \in Drivers \ ids : ~Recorded(z, d)
  BY <1>6, <1>9 DEF Recorded
<1>11. \A d \in ids : Recorded(z, d)
  BY <1>4, <1>6, <1>9, Apart DEF Recorded, Apart
<1>12. ASSUME NEW d \in Drivers, Recorded(z, d) PROVE ValidRecord(z.rec[d], z.mark)
  <2>1. d \in ids
    BY <1>10, <1>12
  <2> QED
    BY <1>4, <1>6, <1>9, <2>1 DEF ValidRecord
<1>13. z \in Valid
  BY <1>8, <1>12 DEF Valid
<1> QED
  BY <1>3, <1>4, <1>6, <1>9, <1>10, <1>11, <1>13 DEF z

\* A reset covers every decision that was in what it read, and the revision
\* that a driver showed is at least that of its last decision.
LEMMA ResetCovers ==
    ASSUME Apart, StateBounds, NEW n \in Valid, NEW ids \in SUBSET Drivers,
           NEW seq \in [Drivers -> 0 .. MaxCounter], Resettable(n, ids)
    PROVE  /\ \A a \in Decisions : Covers(n, a) => Covers(ResetNamespace(n, ids, seq), a)
           /\ \A d \in Drivers : Revision(n, d) \in Nat /\ Revision(n, d) <= n.mark
           /\ \A a \in Decisions : Covers(n, a) => a.rev <= Revision(n, a.driver)
<1> DEFINE z == ResetNamespace(n, ids, seq)
<1>1. /\ z \in Valid /\ n.mark < z.mark
      /\ \A d \in Drivers \ ids : ~Recorded(z, d)
      /\ \A d \in ids : n.mark < z.rec[d].rev /\ z.rec[d].rev \in Nat
  <2>1. \A d \in ids : Place(ids, d) \in Nat
    BY PlaceFacts
  <2> QED
    BY <2>1, ResetNamespaceFacts DEF Valid, Namespaces
<1> HIDE DEF z
<1>2. n.mark \in Nat /\ z.mark \in Nat
  BY <1>1 DEF Valid, Namespaces
<1>3. Decoded(z)
  BY <1>1 DEF Valid, Decoded, Apart
<1>4. ASSUME NEW a \in Decisions, Covers(n, a) PROVE Covers(z, a)
  <2>1. a.driver \in Drivers /\ a.rev \in Nat /\ a.rev <= n.mark
    BY <1>2, <1>4 DEF Decisions, Covers
  <2>2. Recorded(z, a.driver) => z.rec[a.driver].rev > a.rev
    BY <1>1, <1>2, <2>1
  <2> QED
    BY <1>1, <1>2, <1>3, <2>1, <2>2 DEF Covers
<1>5. ASSUME NEW d \in Drivers PROVE Revision(n, d) \in Nat /\ Revision(n, d) <= n.mark
  <2>1. Recorded(n, d) => n.rec[d] \in Records /\ n.rec[d].rev <= n.mark
    BY NamespaceFields DEF ValidRecord
  <2>2. Recorded(n, d) => n.rec[d].rev \in Nat
    BY <2>1, RecordFields DEF StateBounds
  <2> QED
    BY <1>2, <2>1, <2>2 DEF Revision
<1>6. ASSUME NEW a \in Decisions, Covers(n, a) PROVE a.rev <= Revision(n, a.driver)
  <2>1. a.driver \in Drivers /\ a.rev \in Nat
    BY DEF Decisions
  <2>2. Recorded(n, a.driver) => n.rec[a.driver].rev \in Nat
    BY <1>5, <2>1 DEF Revision
  <2> QED
    BY <1>2, <1>6, <2>1, <2>2 DEF Covers, Revision
<1> QED
  BY <1>4, <1>5, <1>6 DEF z

\* What the tool reads is a namespace, and is what the file shows if that can
\* be decoded.
LEMMA ReadableFacts ==
    ASSUME Apart, StateBounds, NEW c \in Ctls, NEW n \in ReadableNamespaces(c)
    PROVE  n \in Valid /\ \A a \in Decisions : Covers(c, a) => c = n
<1>1. CASE Decoded(c)
  BY <1>1 DEF ReadableNamespaces, Ctls, Decoded
<1>2. CASE ~Decoded(c)
  <2>1. \A a \in Decisions : ~Covers(c, a)
    BY <1>2 DEF Covers
  <2>2. PICK mark \in BrokenCounters, recovery \in SUBSET Drivers :
           n = Namespace(mark, [d \in Drivers |-> BadRecord], recovery)
    BY <1>2 DEF ReadableNamespaces
  <2>3. n \in Namespaces /\ \A d \in Drivers : n.rec[d] = BadRecord
    BY <2>2 DEF Namespace, Namespaces, StateBounds
  <2>4. n \in Valid
    BY <2>3 DEF Valid, Recorded
  <2> QED
    BY <2>1, <2>4
<1> QED
  BY <1>1, <1>2

\* The directory after a rename, a directory sync and a power loss.
LEMMA DirectoryFacts ==
    ASSUME FileType, NEW e \in DirEntries
    PROVE  /\ Renamed(fs, e) \in Directories /\ Renamed(fs, e).shown = e
           /\ Renamed(fs, e).kept = fs.kept \cup {e}
           /\ Durable(e) \in Directories /\ Durable(e).shown = e /\ Durable(e).kept = {e}
           /\ DirSynced(fs) \in Directories /\ DirSynced(fs).shown = fs.shown
           /\ DirSynced(fs).kept = {fs.shown}
BY FileFields DEF Renamed, Durable, DirSynced, Directories

LEMMA ResetFacts ==
    ASSUME Apart, StateBounds, ManagerType, FileType, ToolResets
    PROVE  ResetShape
<1> DEFINE f == fs.shown.file
           copied == Entry(f, TRUE)
           replaced(z) == Entry([f EXCEPT !.ctl = z], TRUE)
<1> DEFINE Outcome(n, ids, seq) ==
             LET z == ResetNamespace(n, ids, seq)
             IN  \/ fs' = Renamed(fs, copied) /\ acked' = acked
                 \/ fs' = Durable(copied) /\ acked' = acked
                 \/ fs' = Renamed(Durable(copied), replaced(z)) /\ acked' = acked
                 \/ fs' = Durable(replaced(z)) /\ acked' = acked
                 \/ fs' = Durable(replaced(z)) /\ acked' = acked \cup ResetDecisions(n, z, ids)
<1>1. PICK n \in ReadableNamespaces(f.ctl), ids \in SUBSET Drivers :
        Resettable(n, ids) /\ \E seq \in CarriedSequences(n) : Outcome(n, ids, seq)
  BY Zenon DEF ToolResets
<1>2. PICK seq \in CarriedSequences(n) : Outcome(n, ids, seq)
  BY <1>1
<1>3. /\ lock = "tool" /\ lock' = "free" /\ m' = [m EXCEPT !.changes = m.changes + 1]
      /\ Parsed(f) /\ UNCHANGED <<w, storage>>
  BY DEF ToolResets
<1> DEFINE z == ResetNamespace(n, ids, seq)
<1>4. f \in Files /\ f.ctl \in Ctls
  BY <1>3, FileFields, ParsedFields
<1>5. n \in Valid /\ \A a \in Decisions : Covers(f.ctl, a) => f.ctl = n
  BY <1>4, ReadableFacts
<1>6. seq \in [Drivers -> 0 .. MaxCounter]
  BY DEF CarriedSequences
<1>7. z \in Valid
  BY <1>1, <1>5, <1>6, ResetNamespaceFacts
<1>8. \A a \in Decisions : Covers(f.ctl, a) => Covers(z, a)
  BY <1>1, <1>5, <1>6, ResetCovers
<1> DEFINE e == replaced(z)
<1>9. /\ copied \in DirEntries /\ copied.file = f
      /\ e \in DirEntries /\ Parsed(e.file) /\ e.file.ctl = z
  <2> HIDE DEF z
  <2>1. [f EXCEPT !.ctl = z] \in Files /\ [f EXCEPT !.ctl = z].ctl = z
    BY <1>4, <1>7 DEF Files, Ctls
  <2> QED
    BY <1>4, <2>1, EntryIsEntry, ParsedFields
<1>10. /\ \/ fs' = Renamed(fs, copied) \/ fs' = Durable(copied)
         \/ fs' = Renamed(Durable(copied), e) \/ fs' = Durable(e)
      /\ \/ acked' = acked
         \/ acked' = acked \cup ResetDecisions(n, z, ids) /\ fs' = Durable(e)
  BY <1>2
<1> HIDE DEF z, e, copied
<1>11. fs \in Directories /\ Durable(copied) \in Directories
  BY <1>9, DirectoryFacts DEF FileType
<1>12. FileType' /\ fs'.kept \subseteq fs.kept \cup {copied, e}
  <2>1. Durable(copied).kept = {copied} /\ Durable(copied).shown = copied
    BY DEF Durable
  <2>2. ASSUME NEW g \in Directories, g.kept \subseteq fs.kept \cup {copied}, NEW x \in {copied, e},
               fs' = Renamed(g, x) \/ fs' = Durable(x)
        PROVE  FileType' /\ fs'.kept \subseteq fs.kept \cup {copied, e}
    BY <1>9, <2>2 DEF FileType, Directories, Renamed, Durable
  <2> QED
    BY <1>10, <1>11, <2>1, <2>2
<1>13. \A x \in fs'.kept \ fs.kept :
          /\ Parsed(x.file)
          /\ \A a \in Decisions : Covers(fs.shown.file.ctl, a) => Covers(x.file.ctl, a)
  BY <1>3, <1>8, <1>9, <1>12
<1>14. ResetAnswers
  <2> SUFFICES ASSUME NEW a \in acked' \ acked PROVE
                 /\ a \in Decisions /\ a.expected < a.rev
                 /\ \A x \in fs'.kept : Parsed(x.file) /\ Covers(x.file.ctl, a)
                 /\ \A b \in Decisions : Covers(f.ctl, b) =>
                       b.rev < a.rev /\ (b.driver = a.driver => b.rev <= a.expected)
                 /\ \A b \in acked' \ acked : a.rev = b.rev \/ a.driver = b.driver => a = b
    BY DEF ResetAnswers
  <2>1. fs'.kept = {e} /\ acked' \ acked \subseteq ResetDecisions(n, z, ids)
    BY <1>10 DEF Durable
  <2> DEFINE D(d) == [driver |-> d, expected |-> Revision(n, d), rev |-> z.rec[d].rev,
                      desired |-> "STOPPED"]
  <2>2. \A b \in acked' \ acked : \E d \in ids : b = D(d)
    BY <2>1 DEF ResetDecisions
  <2>3. PICK d \in ids : a = D(d)
    BY <2>2
  <2>4. \A x \in ids : /\ Recorded(z, x) /\ z.rec[x].desired = "STOPPED"
                       /\ z.rec[x].rev = n.mark + Place(ids, x)
                       /\ n.mark < z.rec[x].rev /\ z.rec[x].rev <= z.mark
    BY <1>1, <1>5, <1>6, ResetNamespaceFacts DEF z
  <2>5. n.mark \in Nat /\ z.mark \in Nat
    BY <1>5, <1>7 DEF Valid, Namespaces
  <2>6. \A x \in ids : z.rec[x].rev \in Nat
    BY <2>4, <2>5, PlaceFacts
  <2>7. \A x \in Drivers : Revision(n, x) \in Nat /\ Revision(n, x) <= n.mark
    BY <1>1, <1>5, <1>6, ResetCovers
  <2>8. /\ a.driver = d /\ a.expected = Revision(n, d) /\ a.rev = z.rec[d].rev
        /\ a.desired = "STOPPED"
    BY <2>3
  <2>9. a \in Decisions /\ a.expected < a.rev
    <3>1. /\ d \in Drivers /\ Revision(n, d) \in Nat /\ Revision(n, d) <= n.mark
          /\ n.mark < z.rec[d].rev /\ z.rec[d].rev \in Nat
      BY <2>4, <2>6, <2>7
    <3>2. Revision(n, d) < z.rec[d].rev
      BY <2>5, <3>1
    <3>3. D(d) \in Decisions
      BY <3>1 DEF Decisions, DesiredStates
    <3> QED
      BY <2>3, <2>8, <3>2, <3>3
  <2>10. Covers(z, a)
    <3>1. Decoded(z)
      BY <1>7 DEF Valid, Decoded, Apart
    <3> QED
      BY <2>4, <2>5, <2>6, <2>8, <3>1 DEF Covers
  <2>11. ASSUME NEW b \in Decisions, Covers(f.ctl, b)
         PROVE  b.rev < a.rev /\ (b.driver = a.driver => b.rev <= a.expected)
    <3>1. Covers(n, b) /\ b.rev \in Nat
      BY <1>5, <2>11 DEF Decisions
    <3>2. b.rev <= n.mark
      BY <2>5, <3>1 DEF Covers
    <3>3. b.rev <= Revision(n, b.driver)
      BY <1>1, <1>5, <1>6, <3>1, ResetCovers
    <3> QED
      BY <2>4, <2>5, <2>6, <2>8, <3>1, <3>2, <3>3
  <2>12. ASSUME NEW b \in acked' \ acked, a.rev = b.rev \/ a.driver = b.driver PROVE a = b
    <3>1. PICK x \in ids : b = D(x)
      BY <2>2
    <3>2. b.driver = x /\ b.rev = z.rec[x].rev
      BY <3>1
    <3>3. Place(ids, x) \in Nat /\ Place(ids, d) \in Nat
      BY PlaceFacts
    <3>4. z.rec[x].rev = z.rec[d].rev => Place(ids, x) = Place(ids, d)
      BY <2>4, <2>5, <3>3
    <3>5. x = d
      BY <2>8, <2>12, <3>2, <3>4, PlaceFacts
    <3> QED
      BY <2>3, <3>1, <3>5
  <2> QED
    BY <1>9, <2>1, <2>9, <2>10, <2>11, <2>12
<1>15. /\ m' \in Managers /\ SameContent
       /\ m'.up = m.up /\ m'.ctl = m.ctl /\ m'.status = m.status /\ m'.ambiguous = m.ambiguous
       /\ m'.blocked = m.blocked /\ m'.stopped = m.stopped
  <2>1. m.changes + 1 \in Nat
    BY ManagerFields
  <2> QED
    BY <1>3, <2>1 DEF ManagerType, Managers, SameContent
<1>16. acked \subseteq acked'
  BY <1>10
<1> QED
  BY <1>3, <1>12, <1>13, <1>14, <1>15, <1>16 DEF ResetShape

\* Every step has one of the shapes.
LEMMA StepShape ==
    ASSUME Apart, StateBounds, Types, MissingIsMissing, SnapshotTaken, [Next]_vars
    PROVE  \/ LoadShape \/ StartShape \/ MutateShape \/ QuietShape \/ EndShape \/ CallShape
           \/ CommitShape \/ AmbiguousShape \/ ReadbackShape \/ CloseShape \/ DownShape
           \/ StorageShape \/ ToolShape \/ ResetShape
<1>1. ManagerType /\ WriteType /\ FileType
  BY DEF Types
<1>2. CASE Load
  BY <1>2, LoadFacts
<1>3. CASE Generic
  BY <1>1, <1>3, MutateFacts
<1>4. CASE Requests
  BY <1>1, <1>4, RequestFacts, QuietFacts DEF Requests
<1>5. CASE WriterStep
  <2>1. CASE WriteFails \/ FlushCommitted
    BY <1>1, <2>1, EndFacts
  <2>2. CASE Rename \/ DirFsync \/ DirFsyncFails
    BY <1>1, <2>2, CallFacts
  <2>3. CASE ControlCommitted
    <3>1. w.stage \in Valid
      BY <1>1, <2>3, WriteFields DEF ControlCommitted, SnapshotTaken
    <3> QED
      BY <1>1, <2>3, <3>1, CommitFacts
  <2>4. CASE ControlAmbiguous
    <3>1. w.op = "control"
      BY <1>1, <2>4, WriteFields DEF ControlAmbiguous, SnapshotTaken
    <3> QED
      BY <1>1, <2>4, <3>1, AmbiguousFacts
  <2> QED
    BY <1>5, <2>1, <2>2, <2>3, <2>4 DEF WriterStep
<1>6. CASE Resolve
  BY <1>1, <1>6, ReadbackFacts
<1>7. CASE Shutdown
  BY <1>1, <1>7, QuietFacts, RequestFacts, CloseFacts, DownFacts DEF Shutdown
<1>8. CASE Environment
  BY <1>1, <1>8, DownFacts, StorageFacts DEF Environment
<1>9. CASE Reset
  BY <1>1, <1>9, ToolFacts, ResetFacts DEF Reset
<1>10. CASE UNCHANGED vars
  BY <1>1, <1>10, QuietFacts
<1> QED
  BY <1>2, <1>3, <1>4, <1>5, <1>6, <1>7, <1>8, <1>9, <1>10 DEF Next

-----------------------------------------------------------------------------
(* The invariant is kept                                                     *)

\* What Init allows.
LEMMA InitInv ==
    ASSUME Apart, StateBounds, Init
    PROVE  IndInv
<1>1. /\ m = Down(0, 0) /\ w = Idle /\ lock = "free" /\ acked = {} /\ storage = "sound"
  BY DEF Init
<1>2. PICK f \in FirstFiles : fs = Durable(Entry(f, FALSE))
  BY DEF Init
<1>3. m \in Managers /\ m.up = FALSE /\ m.ambiguous = NoStage /\ m.ctl = NoNamespace
  BY <1>1, DownFields
<1>4. FirstNamespaces \subseteq Valid
  <2>1. ASSUME NEW mark \in 0 .. MaxCounter,
               NEW rec \in [Drivers -> Records \cup {NoRecord, BadRecord}],
               \A d \in Drivers : rec[d] \in Records => ValidRecord(rec[d], mark)
        PROVE  Namespace(mark, rec, {}) \in Valid
    <3> DEFINE z == Namespace(mark, rec, {})
    <3>1. z.mark = mark /\ z.rec = rec /\ z \in Namespaces
      BY DEF Namespace, Namespaces
    <3> HIDE DEF z
    <3>2. z \in Valid
      BY <2>1, <3>1 DEF Valid, Recorded
    <3> QED
      BY <3>2 DEF z
  <2>2. MaxCounter \in Nat /\ 2 <= MaxCounter /\ 0 \in Phases
    BY DEF StateBounds
  <2>3. Starting \in Records /\ ValidRecord(Starting, 2)
    <3> DEFINE t == [kind |-> "START", rev |-> 2, seq |-> 1, phase |-> 0]
    <3>1. t \in Transitions /\ t \in Slots /\ NoWork \in Slots /\ t.rev = 2 /\ t.seq = 1
      BY <2>2 DEF Transitions, Slots, Methods
    <3> HIDE DEF t
    <3>2. Starting = [desired |-> "RUNNING", rev |-> 2, seq |-> 1, res |-> NoWork, cur |-> t]
      BY DEF Starting, t
    <3> QED
      BY <2>2, <3>1, <3>2 DEF Records, ValidRecord
  <2>4. Namespace(1, [d \in Drivers |-> BadRecord], {}) \in Valid
    <3> DEFINE rec == [d \in Drivers |-> BadRecord]
    <3>1. rec \in [Drivers -> Records \cup {NoRecord, BadRecord}] /\ 1 \in 0 .. MaxCounter
      BY <2>2
    <3>2. \A d \in Drivers : rec[d] \notin Records
      BY DEF Apart
    <3> HIDE DEF rec
    <3>3. Namespace(1, rec, {}) \in Valid
      BY <2>1, <3>1, <3>2
    <3> QED
      BY <3>3 DEF rec
  <2>5. Namespace(MaxCounter, [d \in Drivers |-> NoRecord], {}) \in Valid
    <3> DEFINE rec == [d \in Drivers |-> NoRecord]
    <3>1. rec \in [Drivers -> Records \cup {NoRecord, BadRecord}] /\ MaxCounter \in 0 .. MaxCounter
      BY <2>2
    <3>2. \A d \in Drivers : rec[d] \notin Records
      BY DEF Apart
    <3> HIDE DEF rec
    <3>3. Namespace(MaxCounter, rec, {}) \in Valid
      BY <2>1, <3>1, <3>2
    <3> QED
      BY <3>3 DEF rec
  <2>6. ASSUME NEW d \in Drivers
        PROVE  Namespace(2, [e \in Drivers |-> IF e = d THEN Starting ELSE NoRecord], {}) \in Valid
    <3> DEFINE rec == [e \in Drivers |-> IF e = d THEN Starting ELSE NoRecord]
    <3>1. rec \in [Drivers -> Records \cup {NoRecord, BadRecord}] /\ 2 \in 0 .. MaxCounter
      BY <2>2, <2>3
    <3>2. \A e \in Drivers : rec[e] \in Records => ValidRecord(rec[e], 2)
      BY <2>3 DEF Apart
    <3> HIDE DEF rec
    <3>3. Namespace(2, rec, {}) \in Valid
      BY <2>1, <3>1, <3>2
    <3> QED
      BY <3>3 DEF rec
  <2> QED
    BY <2>4, <2>5, <2>6 DEF FirstNamespaces
<1>5. f \in Files \cup {AbsentFile, CorruptFile}
  <2>1. EmptyContent \in Contents /\ [guid |-> TRUE, members |-> Addrs] \in Contents
    BY DEF EmptyContent, Contents
  <2>2. \A c \in {NoNamespace} \cup FirstNamespaces : c \in Ctls
    BY <1>4 DEF Ctls
  <2>3. BadNamespace \in Ctls
    BY DEF Ctls
  <2> QED
    BY <1>2, <2>1, <2>2, <2>3, FileIsFile DEF FirstFiles
<1>6. Entry(f, FALSE) \in DirEntries
  BY <1>5, EntryIsEntry
<1>7. fs \in Directories /\ fs.shown \in fs.kept
  BY <1>2, <1>6 DEF Durable, Directories
<1>8. WriteType /\ ~Busy /\ ~Holding
  BY <1>1 DEF WriteType, Busy, Idle, Holding, Writes
<1>9. Types
  BY <1>1, <1>3, <1>7, <1>8 DEF Types, ManagerType, FileType, OtherTypes
<1>10. Locked /\ MissingIsMissing /\ SnapshotTaken /\ Known /\ CleanOnDisk
  BY <1>1, <1>3, <1>8 DEF Locked, MissingIsMissing, SnapshotTaken, Known, CleanOnDisk
<1>11. StagesKeepWork /\ Survives /\ Newest /\ Answered
  BY <1>1, <1>3, <1>8 DEF StagesKeepWork, Survives, Newest, Answered, Deciding, ControlHeld,
     OneDecisionPerRevision
<1> QED
  BY <1>9, <1>10, <1>11 DEF IndInv

\* The step under consideration.
Step ==
    \/ LoadShape \/ StartShape \/ MutateShape \/ QuietShape \/ EndShape \/ CallShape
    \/ CommitShape \/ AmbiguousShape \/ ReadbackShape \/ CloseShape \/ DownShape
    \/ StorageShape \/ ToolShape \/ ResetShape

LEMMA TypesNext ==
    ASSUME Apart, Types, Step
    PROVE  Types'
<1>1. /\ ManagerType /\ WriteType /\ FileType /\ OtherTypes
  BY DEF Types
<1>2. ManagerType'
  BY <1>1 DEF Step, ManagerType, LoadShape, StartShape, MutateShape, QuietShape, EndShape,
     CallShape, CommitShape, AmbiguousShape, ReadbackShape, CloseShape, DownShape,
     StorageShape, ToolShape, ResetShape
<1>3. WriteType'
  BY <1>1 DEF Step, WriteType, SameWrite, LoadShape, StartShape, MutateShape, QuietShape, EndShape,
     CallShape, CommitShape, AmbiguousShape, ReadbackShape, CloseShape, DownShape,
     StorageShape, ToolShape, ResetShape
<1>4. FileType'
  <2>1. CASE fs' = fs
    BY <1>1, <2>1 DEF FileType
  <2>2. ASSUME NEW e \in DirEntries, fs' = Renamed(fs, e) PROVE FileType'
    BY <1>1, <2>2, DirectoryFacts DEF FileType
  <2>3. ASSUME NEW e \in DirEntries, fs' = Durable(e) PROVE FileType'
    BY <1>1, <2>3, DirectoryFacts DEF FileType
  <2>4. CASE fs' = DirSynced(fs)
    BY <1>1, <2>4, FileFields, DirectoryFacts DEF FileType
  <2>5. ASSUME NEW e \in fs.kept, fs' = [fs EXCEPT !.shown = e] PROVE FileType'
    BY <1>1, <2>5, FileFields DEF FileType, Directories
  <2>6. CASE LoadShape
    BY <2>1, <2>2, <2>6, EntryIsEntry DEF LoadShape
  <2>7. CASE CallShape
    <3>1. Entry(w.snap, fs.shown.copies) \in DirEntries
      BY <1>1, <2>7, WriteFields, FileFields, EntryIsEntry DEF CallShape
    <3> QED
      BY <2>1, <2>2, <2>4, <2>7, <3>1 DEF CallShape
  <2>8. CASE ReadbackShape
    BY <2>1, <2>4, <2>8 DEF ReadbackShape
  <2>9. CASE DownShape
    BY <1>1, <2>1, <2>3, <2>9, FileFields DEF DownShape
  <2>10. CASE StorageShape
    BY <2>3, <2>5, <2>10 DEF StorageShape
  <2>11. CASE ToolShape \/ ResetShape
    BY <2>1, <2>11 DEF ToolShape, ResetShape
  <2>12. CASE StartShape \/ MutateShape \/ QuietShape \/ EndShape \/ CommitShape \/ AmbiguousShape \/ CloseShape
    BY <2>1, <2>12 DEF StartShape, MutateShape, QuietShape, EndShape, CommitShape, AmbiguousShape, CloseShape
  <2> QED
    BY <2>6, <2>7, <2>8, <2>9, <2>10, <2>11, <2>12 DEF Step
<1>5. OtherTypes'
  <2>1. CASE CommitShape
    <3>1. w.extra \in Extras
      BY <1>1, <2>1, WriteFields DEF CommitShape, ControlHeld
    <3>2. w.extra.what = "decide" => w.extra.decision \in Decisions
      BY <3>1 DEF Extras
    <3> QED
      BY <1>1, <2>1, <3>2 DEF CommitShape, OtherTypes
  <2>2. CASE LoadShape
    BY <1>1, <2>2 DEF LoadShape, OtherTypes
  <2>3. CASE CloseShape \/ DownShape
    BY <1>1, <2>3 DEF CloseShape, DownShape, OtherTypes
  <2>4. CASE StorageShape \/ ToolShape
    BY <1>1, <2>4 DEF StorageShape, ToolShape, OtherTypes
  <2>6. CASE ResetShape
    BY <1>1, <2>6 DEF ResetShape, ResetAnswers, OtherTypes
  <2>5. CASE StartShape \/ MutateShape \/ QuietShape \/ EndShape \/ CallShape \/ AmbiguousShape
             \/ ReadbackShape
    BY <1>1, <2>5 DEF StartShape, MutateShape, QuietShape, EndShape, CallShape, AmbiguousShape,
       ReadbackShape, OtherTypes
  <2> QED
    BY <2>1, <2>2, <2>3, <2>4, <2>5, <2>6 DEF Step
<1> QED
  BY <1>2, <1>3, <1>4, <1>5 DEF Types

\* The writer slot without a write in it.
LEMMA SlotFacts ==
    /\ Idle \notin Writes /\ Closing \notin Writes /\ Idle # Closing
    /\ Idle.pc = "idle" /\ Closing.pc # "idle"
    /\ \A x \in Writes : x.pc # "idle"
BY DEF Idle, Closing, Writes

LEMMA LockedNext ==
    ASSUME Types, Locked, SnapshotTaken, Step
    PROVE  Locked'
<1>1. ManagerType /\ WriteType /\ OtherTypes
  BY DEF Types
<1>2. CASE LoadShape
  <2>1. w = Idle /\ lock # "manager"
    BY <1>1, <1>2, WriteFields DEF LoadShape, Locked
  <2>2. ~Busy' /\ ~Holding'
    BY <1>2, <2>1, SlotFacts DEF LoadShape, Busy, Holding
  <2> QED
    BY <1>2, <2>1, <2>2 DEF LoadShape, Locked
<1>3. CASE StartShape
  BY <1>3 DEF StartShape, SameState, Locked
<1>4. CASE MutateShape
  BY <1>4 DEF MutateShape, SameState, Locked, Busy, Holding
<1>5. CASE QuietShape
  BY <1>5 DEF QuietShape, Locked, Busy, Holding
<1>6. CASE EndShape
  <2>1. Busy /\ ~Holding'
    BY <1>1, <1>6, WriteFields, SlotFacts DEF EndShape, Holding
  <2> QED
    BY <1>6, <2>1 DEF EndShape, SameState, Locked
<1>7. CASE CallShape
  <2>1. Busy
    BY <1>1, <1>7, WriteFields DEF CallShape
  <2> QED
    BY <1>7, <2>1 DEF CallShape, Locked
<1>8. CASE CommitShape \/ AmbiguousShape
  <2>1. Busy /\ ~Holding' /\ ~Busy'
    BY <1>1, <1>8, WriteFields, SlotFacts DEF CommitShape, AmbiguousShape, ControlHeld, Holding, Busy
  <2> QED
    BY <1>8, <2>1 DEF CommitShape, AmbiguousShape, Locked
<1>9. CASE ReadbackShape
  <2>1. ~Busy' /\ ~Holding'
    BY <1>1, <1>9, WriteFields DEF ReadbackShape, Busy, Holding
  <2> QED
    BY <1>9, <2>1 DEF ReadbackShape, Locked
<1>10. CASE CloseShape \/ DownShape
  <2>1. ~Busy' /\ ~Holding'
    BY <1>10, SlotFacts DEF CloseShape, DownShape, Busy, Holding
  <2> QED
    BY <1>10, <2>1 DEF CloseShape, DownShape, Locked
<1>11. CASE StorageShape
  BY <1>11 DEF StorageShape, Locked, Busy, Holding
<1>12. CASE ToolShape \/ ResetShape
  BY <1>12 DEF ToolShape, ResetShape, Locked, Busy, Holding
<1> QED
  BY <1>2, <1>3, <1>4, <1>5, <1>6, <1>7, <1>8, <1>9, <1>10, <1>11, <1>12 DEF Step

LEMMA MissingNext ==
    ASSUME Types, MissingIsMissing, Step
    PROVE  MissingIsMissing'
<1>1. CASE LoadShape \/ StartShape \/ MutateShape \/ QuietShape \/ EndShape \/ CallShape
  BY <1>1 DEF LoadShape, StartShape, MutateShape, QuietShape, EndShape, CallShape, SameState,
     MissingIsMissing
<1>2. CASE CommitShape \/ AmbiguousShape \/ ReadbackShape \/ CloseShape
  BY <1>2 DEF CommitShape, AmbiguousShape, ReadbackShape, CloseShape, MissingIsMissing
<1>3. CASE DownShape \/ StorageShape \/ ToolShape \/ ResetShape
  BY <1>3 DEF DownShape, StorageShape, ToolShape, ResetShape, MissingIsMissing
<1> QED
  BY <1>1, <1>2, <1>3 DEF Step

\* The outcome of the rename is on the directory until the write has ended.
LEMMA SnapshotNext ==
    ASSUME Types, Locked, SnapshotTaken, Step
    PROVE  SnapshotTaken'
<1>1. ManagerType /\ WriteType /\ FileType
  BY DEF Types
<1>2. CASE w' = w /\ fs' = fs /\ m'.ctl = m.ctl /\ m'.content = m.content /\ m'.gen = m.gen
           /\ m'.dirty = m.dirty
  BY <1>2 DEF SnapshotTaken, Holding
<1>3. CASE w' \in {Idle, Closing}
  BY <1>3, SlotFacts DEF SnapshotTaken, Holding
<1>4. CASE LoadShape \/ ReadbackShape \/ StorageShape
  <2>1. w' = Idle
    BY <1>1, <1>4, WriteFields DEF LoadShape, ReadbackShape, StorageShape, Locked
  <2> QED
    BY <1>3, <2>1
<1>5. CASE StartShape
  <2>1. m.gen \in Nat
    BY <1>1, ManagerFields
  <2> QED
    BY <1>5, <2>1 DEF StartShape, SameState, SameContent, SnapshotTaken
<1>6. CASE MutateShape
  <2>1. m.gen \in Nat /\ (Holding => w.gen \in Nat)
    BY <1>1, ManagerFields, WriteFields
  <2> QED
    BY <1>6, <2>1 DEF MutateShape, SameState, SnapshotTaken, Holding
<1>7. CASE QuietShape
  BY <1>2, <1>7 DEF QuietShape, SameContent
<1>8. CASE EndShape \/ CommitShape \/ AmbiguousShape \/ CloseShape \/ DownShape
  BY <1>3, <1>8 DEF EndShape, CommitShape, AmbiguousShape, CloseShape, DownShape
<1>9. CASE CallShape
  <2>1. CASE w.pc = "rename"
    <3> DEFINE e == Entry(w.snap, fs.shown.copies)
    <3>1. e \in DirEntries /\ e.file = w.snap
      BY <1>1, <1>9, WriteFields, FileFields, EntryIsEntry DEF CallShape
    <3>2. fs' = Renamed(fs, e) /\ w'.pc = "dir"
      BY <1>9, <2>1 DEF CallShape
    <3> HIDE DEF e
    <3>3. fs'.shown.file = w.snap
      BY <1>1, <3>1, <3>2, DirectoryFacts
    <3> QED
      BY <1>9, <2>1, <3>2, <3>3 DEF CallShape, SameWrite, SnapshotTaken
  <2>2. CASE w.pc = "dir" /\ fs' = DirSynced(fs)
    <3>1. fs'.shown = fs.shown /\ fs'.kept = {fs'.shown}
      BY <1>1, <2>2, FileFields, DirectoryFacts
    <3> QED
      BY <1>9, <2>2, <3>1 DEF CallShape, SameWrite, SnapshotTaken
  <2>3. CASE w.pc = "dir" /\ fs' = fs /\ w'.pc = IF w.op = "control" THEN "ambiguous" ELSE "commit"
    BY <1>9, <2>3 DEF CallShape, SameWrite, SnapshotTaken
  <2> QED
    BY <1>9, <2>1, <2>2, <2>3 DEF CallShape
<1>10. CASE ToolShape
  BY <1>2, <1>10 DEF ToolShape
<1>11. CASE ResetShape
  <2>1. w' = w /\ ~Busy
    BY <1>11 DEF ResetShape, Locked
  <2> QED
    BY <1>1, <1>3, <2>1, WriteFields
<1> QED
  BY <1>4, <1>5, <1>6, <1>7, <1>8, <1>9, <1>10, <1>11 DEF Step

\* Nobody but the manager changes the control bytes that it may write over.
LEMMA KnownNext ==
    ASSUME Apart, Types, Locked, SnapshotTaken, Known, Step
    PROVE  Known'
<1>1. ManagerType /\ WriteType /\ FileType
  BY DEF Types
<1>2. CASE m'.up = FALSE \/ m'.blocked \/ m'.ambiguous # NoStage
  BY <1>2 DEF Known
<1>3. CASE LoadShape
  BY <1>3 DEF LoadShape, Known, Locked, Busy
<1>4. CASE StartShape
  <2>1. ~ControlHeld
    BY <1>4, SlotFacts DEF StartShape, ControlHeld, Holding
  <2>2. Matches(fs.shown.file, m.ctl)
    BY <1>4, <2>1 DEF StartShape, Known
  <2> QED
    BY <1>4, <2>2 DEF StartShape, SameState, Known
<1>5. CASE MutateShape \/ QuietShape
  BY <1>5 DEF MutateShape, QuietShape, SameState, Known, ControlHeld, Holding
<1>6. CASE EndShape
  BY <1>6 DEF EndShape, SameState, Known, ControlHeld
<1>7. CASE CallShape
  <2>1. CASE w.op = "control"
    <3>1. ControlHeld' /\ w'.pc # "rename"
      BY <1>7, <2>1 DEF CallShape, SameWrite, ControlHeld, Holding
    <3> QED
      BY <3>1 DEF Known
  <2>2. CASE w.op # "control"
    <3>1. w.snap.ctl = m.ctl /\ w.snap \in Files
      BY <1>1, <1>7, <2>2, WriteFields DEF CallShape, SnapshotTaken
    <3>2. CASE fs'.shown.file = w.snap
      <4>1. Matches(fs'.shown.file, m.ctl)
        BY <3>1, <3>2, ParsedFields DEF Matches
      <4> QED
        BY <1>7, <4>1 DEF CallShape, Known
    <3>3. CASE w.pc = "rename"
      <4> DEFINE e == Entry(w.snap, fs.shown.copies)
      <4>1. e \in DirEntries /\ e.file = w.snap
        BY <1>1, <3>1, FileFields, EntryIsEntry
      <4>2. fs' = Renamed(fs, e)
        BY <1>7, <3>3 DEF CallShape
      <4> HIDE DEF e
      <4> QED
        BY <1>1, <3>2, <4>1, <4>2, DirectoryFacts
    <3>4. CASE w.pc # "rename"
      <4>1. fs'.shown = fs.shown
        BY <1>1, <1>7, <3>4, FileFields, DirectoryFacts DEF CallShape
      <4> QED
        BY <1>7, <3>2, <3>4, <4>1 DEF CallShape, SnapshotTaken
    <3> QED
      BY <3>3, <3>4
  <2> QED
    BY <2>1, <2>2
<1>8. CASE CommitShape
  <2>1. fs.shown.file = w.snap /\ w.snap.ctl = w.stage /\ w.snap \in Files
    BY <1>1, <1>8, WriteFields DEF CommitShape, ControlHeld, SnapshotTaken
  <2>2. Matches(fs.shown.file, w.stage)
    BY <2>1, ParsedFields DEF Matches
  <2> QED
    BY <1>8, <2>2 DEF CommitShape, Known
<1>9. CASE AmbiguousShape
  <2>1. w.stage # NoStage
    BY <1>9 DEF AmbiguousShape, ControlHeld, SnapshotTaken, Valid, Apart
  <2> QED
    BY <1>2, <1>9, <2>1 DEF AmbiguousShape
<1>10. CASE ReadbackShape
  <2>1. fs'.shown = fs.shown
    BY <1>1, <1>10, FileFields, DirectoryFacts DEF ReadbackShape
  <2> QED
    BY <1>2, <1>10, <2>1 DEF ReadbackShape, Known, Matches
<1>11. CASE CloseShape \/ DownShape
  BY <1>2, <1>11 DEF CloseShape, DownShape
<1>12. CASE StorageShape
  BY <1>2, <1>12 DEF StorageShape
<1>13. CASE ToolShape
  BY <1>13 DEF ToolShape, Known, ControlHeld, Holding
<1>14. CASE ResetShape
  <2>1. (~m.up \/ m.blocked) /\ m'.up = m.up /\ m'.blocked = m.blocked
    BY <1>14 DEF ResetShape, Locked
  <2> QED
    BY <1>1, <1>2, <2>1, ManagerFields
<1> QED
  BY <1>3, <1>4, <1>5, <1>6, <1>7, <1>8, <1>9, <1>10, <1>11, <1>12, <1>13, <1>14 DEF Step

\* What a call leaves on the directory.
LEMMA CallShows ==
    ASSUME Types, SnapshotTaken, CallShape
    PROVE  /\ fs'.shown.file = w.snap
           /\ \A e \in fs'.kept : e \in fs.kept \/ e.file = w.snap
<1>1. WriteType /\ FileType
  BY DEF Types
<1>2. CASE w.pc = "rename"
  <2> DEFINE e == Entry(w.snap, fs.shown.copies)
  <2>1. e \in DirEntries /\ e.file = w.snap
    BY <1>1, WriteFields, FileFields, EntryIsEntry DEF CallShape
  <2>2. fs' = Renamed(fs, e)
    BY <1>2 DEF CallShape
  <2> HIDE DEF e
  <2> QED
    BY <1>1, <2>1, <2>2, DirectoryFacts
<1>3. CASE w.pc # "rename"
  <2>1. fs.shown.file = w.snap
    BY <1>3 DEF CallShape, SnapshotTaken
  <2>2. fs' = DirSynced(fs) \/ fs' = fs
    BY <1>3 DEF CallShape
  <2>3. DirSynced(fs).shown = fs.shown /\ DirSynced(fs).kept = {fs.shown}
    BY <1>1, FileFields, DirectoryFacts
  <2> QED
    BY <1>1, <2>1, <2>2, <2>3, FileFields
<1> QED
  BY <1>2, <1>3

\* A readback shows the same file.
LEMMA ReadbackShows ==
    ASSUME Types, ReadbackShape
    PROVE  fs'.shown = fs.shown /\ fs'.kept \subseteq fs.kept
<1>1. DirSynced(fs).shown = fs.shown /\ DirSynced(fs).kept = {fs.shown} /\ fs.shown \in fs.kept
  BY FileFields, DirectoryFacts DEF Types
<1> QED
  BY <1>1 DEF ReadbackShape

LEMMA CleanNext ==
    ASSUME Apart, Types, Locked, SnapshotTaken, CleanOnDisk, Step
    PROVE  CleanOnDisk'
<1>1. ManagerType /\ WriteType /\ FileType
  BY DEF Types
<1>2. CASE fs'.shown = fs.shown /\ m'.up = m.up /\ lock' = lock /\ storage' = storage
           /\ m'.dirty = m.dirty /\ m'.content = m.content
  BY <1>2 DEF CleanOnDisk
<1>3. CASE LoadShape
  BY <1>3 DEF LoadShape, Locked, CleanOnDisk
<1>4. CASE StartShape \/ QuietShape \/ AmbiguousShape
  BY <1>2, <1>4 DEF StartShape, QuietShape, AmbiguousShape, SameState, SameContent
<1>5. CASE MutateShape
  BY <1>5 DEF MutateShape, CleanOnDisk
<1>6. CASE (EndShape /\ w.pc = "commit") \/ CommitShape
  <2>1. /\ Holding /\ fs' = fs /\ m'.up = m.up /\ lock' = lock /\ storage' = storage
        /\ m'.content = m.content /\ m'.dirty = IF m.gen = w.gen THEN FALSE ELSE m.dirty
        /\ w.pc # "rename"
    BY <1>6 DEF EndShape, SameState, CommitShape, ControlHeld
  <2>2. w.gen = m.gen => fs.shown.file = w.snap /\ w.snap.content = m.content /\ w.snap \in Files
    BY <1>1, <2>1, WriteFields DEF SnapshotTaken
  <2>3. w.gen = m.gen => Parsed(fs.shown.file) /\ fs.shown.file.content = m.content
    BY <2>2, ParsedFields
  <2> QED
    BY <2>1, <2>3 DEF CleanOnDisk
<1>7. CASE EndShape /\ w.pc = "rename"
  BY <1>2, <1>7 DEF EndShape, SameState
<1>8. CASE CallShape
  <2>1. fs'.shown.file = w.snap /\ w.snap \in Files
    BY <1>1, <1>8, CallShows, WriteFields DEF CallShape
  <2>2. Parsed(w.snap)
    BY <2>1, ParsedFields
  <2>3. ~m.dirty => w.snap.content = m.content
    BY <1>8 DEF CallShape, SnapshotTaken
  <2> QED
    BY <1>8, <2>1, <2>2, <2>3 DEF CallShape, CleanOnDisk
<1>9. CASE ReadbackShape
  BY <1>2, <1>9, ReadbackShows DEF ReadbackShape, SameContent
<1>10. CASE CloseShape \/ DownShape
  BY <1>10 DEF CloseShape, DownShape, CleanOnDisk
<1>11. CASE StorageShape \/ ToolShape \/ ResetShape
  BY <1>11 DEF StorageShape, ToolShape, ResetShape, CleanOnDisk
<1> QED
  BY <1>3, <1>4, <1>5, <1>6, <1>7, <1>8, <1>9, <1>10, <1>11 DEF Step, EndShape

\* Nothing decoded, nothing to keep.
LEMMA NothingToKeep ==
    ASSUME NEW z
    PROVE  WorkKept(NoNamespace, z)
BY DEF WorkKept, Decoded

LEMMA StagesNext ==
    ASSUME Apart, Types, Locked, SnapshotTaken, StagesKeepWork, Step
    PROVE  StagesKeepWork'
<1>1. ManagerType /\ WriteType /\ FileType
  BY DEF Types
<1>2. ControlHeld' => WorkKept(m'.ctl, w'.stage)
  <2>1. CASE w' \in {Idle, Closing}
    BY <2>1, SlotFacts DEF ControlHeld, Holding
  <2>2. CASE StartShape
    BY <2>2, NothingToKeep DEF StartShape, SameState, Follows, ControlHeld
  <2>3. CASE CallShape
    BY <2>3 DEF CallShape, SameWrite, StagesKeepWork, ControlHeld
  <2>4. CASE MutateShape \/ QuietShape \/ ToolShape \/ ResetShape
    BY <2>4 DEF MutateShape, QuietShape, ToolShape, ResetShape, SameState, StagesKeepWork,
       ControlHeld, Holding
  <2>5. CASE LoadShape \/ ReadbackShape \/ StorageShape
    <3>1. w' = Idle
      BY <1>1, <2>5, WriteFields DEF LoadShape, ReadbackShape, StorageShape, Locked
    <3> QED
      BY <2>1, <3>1
  <2>6. CASE EndShape \/ CommitShape \/ AmbiguousShape \/ CloseShape \/ DownShape
    BY <2>1, <2>6 DEF EndShape, CommitShape, AmbiguousShape, CloseShape, DownShape
  <2> QED
    BY <2>2, <2>3, <2>4, <2>5, <2>6 DEF Step
<1> DEFINE Open == /\ WorkKept(m.ctl, m.ambiguous)
                   /\ storage = "sound" /\ ~m.stopped =>
                         Parsed(fs.shown.file) /\ fs.shown.file.ctl = m.ambiguous
<1>3. ASSUME m'.ambiguous # NoStage PROVE Open'
  <2>1. CASE AmbiguousShape
    <3>1. /\ WorkKept(m.ctl, w.stage) /\ fs.shown.file = w.snap /\ w.snap.ctl = w.stage
          /\ w.snap \in Files
      BY <1>1, <2>1, WriteFields DEF AmbiguousShape, ControlHeld, StagesKeepWork, SnapshotTaken
    <3>2. Parsed(w.snap)
      BY <3>1, ParsedFields
    <3> QED
      BY <2>1, <3>1, <3>2 DEF AmbiguousShape
  <2>2. CASE LoadShape \/ StartShape \/ ReadbackShape \/ DownShape
    BY <1>3, <2>2 DEF LoadShape, StartShape, SameState, ReadbackShape, DownShape
  <2>3. CASE EndShape \/ CallShape \/ CommitShape
    <3>1. Busy /\ m'.ambiguous = m.ambiguous
      BY <1>1, <2>3, WriteFields DEF EndShape, SameState, CallShape, CommitShape, ControlHeld
    <3> QED
      BY <1>3, <3>1 DEF Locked
  <2>4. CASE MutateShape \/ QuietShape \/ CloseShape
    <3>1. /\ m'.ambiguous = m.ambiguous /\ m'.ctl = m.ctl /\ fs' = fs /\ storage' = storage
          /\ m.stopped => m'.stopped
      BY <2>4 DEF MutateShape, QuietShape, CloseShape, SameState
    <3> QED
      BY <1>3, <3>1 DEF StagesKeepWork
  <2>5. CASE StorageShape
    BY <1>3, <2>5 DEF StorageShape, StagesKeepWork
  <2>6. CASE ToolShape
    BY <1>3, <2>6 DEF ToolShape, StagesKeepWork
  <2>7. CASE ResetShape
    <3>1. /\ m'.ambiguous = m.ambiguous /\ m'.ctl = m.ctl /\ m'.stopped = m.stopped
          /\ lock = "tool"
      BY <2>7 DEF ResetShape
    <3>2. m.stopped
      BY <1>3, <3>1 DEF Locked
    <3> QED
      BY <1>3, <3>1, <3>2 DEF StagesKeepWork
  <2> QED
    BY <2>1, <2>2, <2>3, <2>4, <2>5, <2>6, <2>7 DEF Step
<1> QED
  BY <1>2, <1>3 DEF StagesKeepWork

\* What a manager that may write holds in memory holds every decision.
LEMMA MemoryCovers ==
    ASSUME Apart, Types, Known, Survives, storage # "spoiled", m.up, ~m.blocked,
           m.ambiguous = NoStage, w = Idle, NEW a \in acked
    PROVE  Covers(m.ctl, a)
<1>1. Matches(fs.shown.file, m.ctl)
  BY SlotFacts DEF Known, ControlHeld, Holding
<1>2. Parsed(fs.shown.file) /\ Covers(fs.shown.file.ctl, a)
  BY FileFields DEF Types, Survives
<1> QED
  BY <1>1, <1>2 DEF Matches

LEMMA SurvivesNext ==
    ASSUME Apart, Types, Locked, SnapshotTaken, Known, Survives, Newest, Step
    PROVE  Survives'
<1>1. ManagerType /\ WriteType /\ FileType /\ acked \in SUBSET Decisions
  BY DEF Types, OtherTypes
<1>2. CASE storage' = storage /\ acked' \subseteq acked /\ fs'.kept \subseteq fs.kept
           /\ w' \in {Idle, Closing}
  BY <1>2, SlotFacts DEF Survives, Holding
<1>3. CASE storage' = storage /\ acked' \subseteq acked /\ fs' = fs /\ w' = w
  BY <1>3 DEF Survives, Holding
<1>4. CASE LoadShape
  <2>1. w' = Idle
    BY <1>1, <1>4, WriteFields DEF LoadShape, Locked
  <2>2. CASE fs' = fs
    BY <1>2, <1>4, <2>1, <2>2 DEF LoadShape
  <2>3. CASE fs.shown.file = CorruptFile
    <3>1. storage = "spoiled" \/ acked = {}
      BY <1>1, <2>3, FileFields DEF Survives, Parsed
    <3> QED
      BY <1>4, <3>1 DEF LoadShape, Survives
  <2> QED
    BY <1>4, <2>2, <2>3 DEF LoadShape
<1>5. CASE StartShape
  <2> SUFFICES ASSUME storage # "spoiled", NEW a \in acked PROVE Covers(w'.snap.ctl, a)
    BY <1>5 DEF StartShape, Survives
  <2>1. Covers(m.ctl, a) /\ a \in Decisions
    BY <1>1, <1>5, MemoryCovers DEF StartShape
  <2>2. m.ctl # NoNamespace
    BY <2>1 DEF Covers, Decoded
  <2> QED
    BY <1>5, <2>1, <2>2 DEF StartShape, Follows
<1>6. CASE MutateShape \/ QuietShape
  BY <1>3, <1>6 DEF MutateShape, QuietShape
<1>7. CASE EndShape \/ AmbiguousShape \/ CloseShape
  BY <1>2, <1>7 DEF EndShape, AmbiguousShape, CloseShape
<1>8. CASE CallShape
  <2> SUFFICES ASSUME storage # "spoiled", NEW a \in acked
               PROVE  /\ \A e \in fs'.kept : Parsed(e.file) /\ Covers(e.file.ctl, a)
                      /\ Covers(w.snap.ctl, a)
    BY <1>8 DEF CallShape, SameWrite, Survives
  <2>1. Covers(w.snap.ctl, a) /\ w.snap \in Files
    BY <1>1, <1>8, WriteFields DEF CallShape, Survives
  <2>2. Parsed(w.snap)
    BY <2>1, ParsedFields
  <2> QED
    BY <1>8, <2>1, <2>2, CallShows DEF Survives
<1>9. CASE CommitShape
  <2>1. /\ fs.kept = {fs.shown} /\ fs.shown.file = w.snap /\ w.snap.ctl = w.stage
        /\ w.snap \in Files
    BY <1>1, <1>9, WriteFields DEF CommitShape, ControlHeld, SnapshotTaken
  <2>2. Parsed(w.snap)
    BY <2>1, ParsedFields
  <2>3. w.extra.what = "decide" => Covers(w.stage, w.extra.decision)
    BY <1>9 DEF CommitShape, Newest, Deciding
  <2>4. storage # "spoiled" => \A a \in acked' : Covers(w.stage, a)
    BY <1>9, <2>1, <2>3 DEF CommitShape, ControlHeld, Survives
  <2> QED
    BY <1>9, <2>1, <2>2, <2>4, SlotFacts DEF CommitShape, Survives, Holding
<1>10. CASE ReadbackShape
  <2>1. w' = Idle
    BY <1>1, <1>10, WriteFields DEF ReadbackShape
  <2> QED
    BY <1>2, <1>10, <2>1, ReadbackShows DEF ReadbackShape
<1>11. CASE DownShape
  <2>1. fs'.kept \subseteq fs.kept
    BY <1>11 DEF DownShape, Durable
  <2> QED
    BY <1>2, <1>11, <2>1 DEF DownShape
<1>12. CASE StorageShape
  <2>1. CASE storage' = "spoiled"
    BY <2>1 DEF Survives
  <2>2. CASE \E e \in fs.kept : fs' = [fs EXCEPT !.shown = e]
    <3>1. fs'.kept = fs.kept
      BY <1>1, <2>2 DEF FileType, Directories
    <3> QED
      BY <1>12, <3>1 DEF StorageShape, Survives, Holding
  <2> QED
    BY <1>12, <2>1, <2>2 DEF StorageShape
<1>13. CASE ToolShape
  BY <1>3, <1>13 DEF ToolShape
<1>14. CASE ResetShape
  <2>1. w' = w /\ ~Busy /\ storage' = storage
    BY <1>14 DEF ResetShape, Locked
  <2>2. w' \in {Idle, Closing}
    BY <1>1, <2>1, WriteFields
  <2>3. ~Holding'
    BY <2>2, SlotFacts DEF Holding
  <2> SUFFICES ASSUME storage # "spoiled", NEW a \in acked', NEW e \in fs'.kept
               PROVE  Parsed(e.file) /\ Covers(e.file.ctl, a)
    BY <2>1, <2>3 DEF Survives
  <2>4. CASE a \in acked
    <3>1. a \in Decisions /\ Covers(fs.shown.file.ctl, a)
      BY <1>1, <2>4, FileFields DEF Survives
    <3> QED
      BY <1>14, <2>4, <3>1 DEF ResetShape, Survives
  <2>5. CASE a \notin acked
    BY <1>14, <2>5 DEF ResetShape, ResetAnswers
  <2> QED
    BY <2>4, <2>5
<1> QED
  BY <1>4, <1>5, <1>6, <1>7, <1>8, <1>9, <1>10, <1>11, <1>12, <1>13, <1>14 DEF Step

LEMMA NewestNext ==
    ASSUME Apart, Types, Locked, Known, Survives, Newest, Step
    PROVE  Newest'
<1>1. ManagerType /\ WriteType /\ acked \in SUBSET Decisions
  BY DEF Types, OtherTypes
<1>2. CASE w' \in {Idle, Closing}
  BY <1>2, SlotFacts DEF Newest, Deciding, ControlHeld, Holding
<1>3. CASE acked' \subseteq acked /\ storage' = storage /\ (w' = w \/ (Holding /\ SameWrite))
  <2>1. CASE w' = w
    BY <1>3, <2>1 DEF Newest, Deciding, ControlHeld, Holding
  <2>2. CASE Holding /\ SameWrite
    BY <1>3, <2>2 DEF Newest, Deciding, ControlHeld, SameWrite
  <2> QED
    BY <1>3, <2>1, <2>2
<1>4. CASE StartShape
  <2> SUFFICES ASSUME Deciding' PROVE Newest'
    BY DEF Newest
  <2>1. NewDecision(m.ctl, w'.stage, w'.extra.decision)
    BY <1>4 DEF StartShape, Deciding, ControlHeld
  <2>2. storage # "spoiled" => \A b \in acked : Covers(m.ctl, b) /\ b \in Decisions
    BY <1>1, <1>4, MemoryCovers DEF StartShape
  <2> QED
    BY <1>4, <2>1, <2>2 DEF StartShape, NewDecision, Newest
<1>5. CASE MutateShape \/ QuietShape \/ CallShape
  BY <1>3, <1>5 DEF MutateShape, QuietShape, CallShape
<1>6. CASE ToolShape
  BY <1>3, <1>6 DEF ToolShape
<1>7. CASE LoadShape \/ ReadbackShape \/ StorageShape \/ ResetShape
  <2>1. w' \in {Idle, Closing}
    BY <1>1, <1>7, WriteFields DEF LoadShape, ReadbackShape, StorageShape, ResetShape, Locked
  <2> QED
    BY <1>2, <2>1
<1>8. CASE EndShape \/ CommitShape \/ AmbiguousShape \/ CloseShape \/ DownShape
  BY <1>2, <1>8 DEF EndShape, CommitShape, AmbiguousShape, CloseShape, DownShape
<1> QED
  BY <1>4, <1>5, <1>6, <1>7, <1>8 DEF Step

LEMMA AnsweredNext ==
    ASSUME Types, Survives, Newest, Answered, Step
    PROVE  Answered'
<1>1. CASE acked' \subseteq acked /\ (storage' # "spoiled" => storage # "spoiled")
  BY <1>1 DEF Answered, OneDecisionPerRevision
<1>2. CASE CommitShape /\ w.extra.what = "decide"
  <2> DEFINE a == w.extra.decision
  <2>1. /\ a.expected < a.rev
        /\ storage # "spoiled" =>
              \A b \in acked : b.rev < a.rev /\ (b.driver = a.driver => b.rev <= a.expected)
    BY <1>2 DEF CommitShape, Newest, Deciding
  <2>2. a.expected \in Nat /\ a.rev \in Nat
    BY <1>2, WriteFields DEF Types, CommitShape, ControlHeld, Extras, Decisions
  <2> HIDE DEF a
  <2>3. acked' = acked \cup {a} /\ storage' = storage
    BY <1>2 DEF CommitShape, a
  <2>4. \A b \in acked : b.expected \in Nat /\ b.rev \in Nat /\ b.expected < b.rev
    BY DEF Types, OtherTypes, Decisions, Answered
  <2>5. \A b \in acked' : b.expected < b.rev
    BY <2>1, <2>3, <2>4
  <2>6. OneDecisionPerRevision'
    <3> SUFFICES ASSUME storage # "spoiled", NEW b \in acked', NEW c \in acked',
                        b.rev = c.rev \/ (b.driver = c.driver /\ b.expected = c.expected)
                 PROVE  b = c
      BY <2>3 DEF OneDecisionPerRevision
    <3>1. CASE b \in acked /\ c \in acked
      BY <3>1 DEF Answered, OneDecisionPerRevision
    <3>2. CASE b = a /\ c \in acked
      BY <2>1, <2>2, <2>4, <3>2
    <3>3. CASE b \in acked /\ c = a
      BY <2>1, <2>2, <2>4, <3>3
    <3> QED
      BY <2>3, <3>1, <3>2, <3>3
  <2> QED
    BY <2>5, <2>6 DEF Answered
<1>3. CASE CommitShape /\ w.extra.what # "decide"
  BY <1>1, <1>3 DEF CommitShape
<1>4. CASE LoadShape \/ StartShape \/ MutateShape \/ QuietShape \/ EndShape \/ CallShape
  BY <1>1, <1>4 DEF LoadShape, StartShape, MutateShape, QuietShape, EndShape, CallShape
<1>5. CASE AmbiguousShape \/ ReadbackShape \/ CloseShape \/ DownShape
  BY <1>1, <1>5 DEF AmbiguousShape, ReadbackShape, CloseShape, DownShape
<1>6. CASE StorageShape \/ ToolShape
  BY <1>1, <1>6 DEF StorageShape, ToolShape
<1>7. CASE ResetShape
  <2>1. \A b \in acked : b \in Decisions /\ b.expected < b.rev
    BY DEF Types, OtherTypes, Answered
  <2>2. \A b \in acked' \ acked : b \in Decisions /\ b.expected < b.rev
    BY <1>7 DEF ResetShape, ResetAnswers
  <2>3. \A b \in acked' : b.expected \in Nat /\ b.rev \in Nat /\ b.expected < b.rev
    BY <2>1, <2>2 DEF Decisions
  <2>4. OneDecisionPerRevision'
    <3> SUFFICES ASSUME storage # "spoiled", NEW b \in acked', NEW c \in acked',
                        b.rev = c.rev \/ (b.driver = c.driver /\ b.expected = c.expected)
                 PROVE  b = c
      BY <1>7 DEF ResetShape, OneDecisionPerRevision
    <3>1. CASE b \in acked /\ c \in acked
      BY <3>1 DEF Answered, OneDecisionPerRevision
    <3>2. \A a \in acked : Covers(fs.shown.file.ctl, a)
      BY FileFields DEF Types, Survives
    <3>3. \A x \in acked, y \in acked' \ acked :
             x.rev < y.rev /\ (x.driver = y.driver => x.rev <= y.expected)
      BY <1>7, <2>1, <3>2 DEF ResetShape, ResetAnswers
    <3>4. CASE b \in acked /\ c \notin acked
      BY <2>3, <3>3, <3>4
    <3>5. CASE b \notin acked /\ c \in acked
      BY <2>3, <3>3, <3>5
    <3>6. CASE b \notin acked /\ c \notin acked
      BY <1>7, <3>6 DEF ResetShape, ResetAnswers
    <3> QED
      BY <3>1, <3>4, <3>5, <3>6
  <2> QED
    BY <2>3, <2>4 DEF Answered
<1> QED
  BY <1>2, <1>3, <1>4, <1>5, <1>6, <1>7 DEF Step

LEMMA IndNext ==
    ASSUME IndInv, [Next]_vars
    PROVE  IndInv'
<1>1. Types /\ Locked /\ MissingIsMissing /\ SnapshotTaken /\ Known /\ CleanOnDisk
  BY DEF IndInv
<1>2. StagesKeepWork /\ Survives /\ Newest /\ Answered
  BY DEF IndInv
<1>3. Apart /\ StateBounds
  BY Apart, StateBounds
<1>4. Step
  BY <1>1, <1>3, StepShape DEF Step
<1>5. Types' /\ Locked' /\ MissingIsMissing' /\ SnapshotTaken' /\ Known' /\ CleanOnDisk'
  BY <1>1, <1>3, <1>4, TypesNext, LockedNext, MissingNext, SnapshotNext, KnownNext, CleanNext
<1>6. StagesKeepWork' /\ Survives' /\ Newest' /\ Answered'
  BY <1>1, <1>2, <1>3, <1>4, StagesNext, SurvivesNext, NewestNext, AnsweredNext
<1> QED
  BY <1>5, <1>6 DEF IndInv

-----------------------------------------------------------------------------
(* Theorems                                                                  *)

\* The invariant holds through every failing call, crash, restart and reset.
THEOREM StateInvariant == Spec => []IndInv
<1>1. Init => IndInv
  BY Apart, StateBounds, InitInv
<1>2. IndInv /\ [Next]_vars => IndInv'
  BY IndNext
<1> QED
  BY <1>1, <1>2, PTL DEF Spec

\* A decision answered with success, by the store or by the offline reset, is in
\* whatever a power loss leaves of the file, itself or a later one of its driver,
\* and the revisions go on behind it.
THEOREM StateAckedSurvives == Spec => []AckedSurvives
<1>1. ASSUME IndInv PROVE AckedSurvives
  BY <1>1 DEF IndInv, Survives, Covers, AckedSurvives
<1> QED
  BY <1>1, StateInvariant, PTL

\* No revision is answered for two decisions, and no revision a client read
\* authorises two, not even one that was held over an offline reset.
THEOREM StateOneDecision == Spec => []OneDecisionPerRevision
<1>1. ASSUME IndInv PROVE OneDecisionPerRevision
  BY <1>1 DEF IndInv, Answered
<1> QED
  BY <1>1, StateInvariant, PTL

\* A record that validateRecordSlots accepts, in the words of the model.
LEMMA TypesImplyTypeOK ==
    ASSUME Apart, StateBounds, Types
    PROVE  TypeOK
<1>1. ManagerType /\ FileType /\ OtherTypes
  BY DEF Types
<1>2. Valid \subseteq Namespaces
  BY DEF Valid
<1>3. /\ m.ctl \in Namespaces \cup {NoNamespace, BadNamespace}
      /\ m.ambiguous \in Namespaces \cup {NoStage}
      /\ m.status \in Statuses
      /\ m.configs \in [Drivers -> Dispositions]
  BY <1>1, <1>2, ManagerFields DEF Ctls
<1>4. ASSUME Decoded(m.ctl), NEW d \in Drivers, Recorded(m.ctl, d)
      PROVE  /\ m.ctl.rec[d].rev <= m.ctl.mark
             /\ m.ctl.rec[d].res # NoWork =>
                  m.ctl.rec[d].cur # NoWork /\ m.ctl.rec[d].cur.seq < m.ctl.rec[d].res.seq
             /\ \A t \in {m.ctl.rec[d].cur, m.ctl.rec[d].res} \ {NoWork} :
                  t.rev <= m.ctl.rec[d].rev /\ t.seq <= m.ctl.rec[d].seq
  <2>1. m.ctl \in Valid
    BY <1>1, <1>4, ManagerFields DEF Ctls, Decoded
  <2>2. ValidRecord(m.ctl.rec[d], m.ctl.mark)
    BY <1>4, <2>1 DEF Valid
  <2> QED
    BY <2>2 DEF ValidRecord
<1> QED
  BY <1>1, <1>3, <1>4, FileFields DEF TypeOK, OtherTypes, Statuses

\* A clean state is the one on disk.
THEOREM StateCleanIsPersisted == Spec => []CleanIsPersisted
<1>1. ASSUME IndInv PROVE CleanIsPersisted
  <2>1. TypeOK
    BY <1>1, Apart, StateBounds, TypesImplyTypeOK DEF IndInv
  <2> QED
    BY <1>1, <2>1 DEF IndInv, CleanOnDisk, CleanIsPersisted
<1> QED
  BY <1>1, StateInvariant, PTL

\* Only the holder of the store lock renames, and never over control bytes that
\* it does not hold itself.
THEOREM StateOverwritesOnlyKnown == Spec => []OverwritesOnlyKnown
<1>1. ASSUME IndInv PROVE OverwritesOnlyKnown
  <2>1. WriteType /\ Locked /\ Known
    BY <1>1 DEF IndInv, Types
  <2>2. w.pc \in {"rename", "dir"} => Holding /\ Busy
    BY <2>1, WriteFields
  <2>3. w.pc \in {"rename", "dir"} => lock = "manager" /\ m.up /\ m.ambiguous = NoStage /\ ~m.blocked
    BY <2>1, <2>2 DEF Locked
  <2>4. w.pc = "rename" => Matches(fs.shown.file, m.ctl)
    BY <2>1, <2>3 DEF Known
  <2> QED
    BY <2>3, <2>4 DEF Matches, OverwritesOnlyKnown
<1> QED
  BY <1>1, StateInvariant, PTL

\* A step of a running process keeps the work in flight.
LEMMA StepKeepsWork ==
    ASSUME Apart, StateBounds, IndInv, Step, NEW d \in Drivers,
           m.up, m'.up, Decoded(m.ctl), Decoded(m'.ctl), storage = "sound"
    PROVE  RecordKept(m.ctl, m'.ctl, d)
<1>1. ManagerType /\ Locked /\ StagesKeepWork
  BY DEF IndInv, Types
<1>2. m.ctl \in Valid
  BY <1>1, ManagerFields DEF Ctls, Decoded
<1>3. CASE m'.ctl = m.ctl
  BY <1>2, <1>3, SameRecordKept
<1>4. CASE CommitShape
  <2>1. WorkKept(m.ctl, m'.ctl)
    BY <1>1, <1>4 DEF CommitShape, StagesKeepWork
  <2> QED
    BY <2>1 DEF WorkKept
<1>5. CASE ReadbackShape
  <2>1. WorkKept(m.ctl, m.ambiguous) /\ fs.shown.file.ctl = m.ambiguous
    BY <1>1, <1>5 DEF ReadbackShape, StagesKeepWork
  <2>2. m'.ctl \in {m.ctl, m.ambiguous}
    BY <1>5, <2>1 DEF ReadbackShape
  <2>3. CASE m'.ctl = m.ambiguous
    BY <2>1, <2>3 DEF WorkKept
  <2> QED
    BY <1>3, <2>2, <2>3
<1>6. CASE LoadShape \/ DownShape
  BY <1>6 DEF LoadShape, DownShape
<1>7. CASE StartShape \/ MutateShape \/ QuietShape \/ EndShape \/ CallShape \/ AmbiguousShape
           \/ CloseShape \/ StorageShape \/ ToolShape \/ ResetShape
  BY <1>3, <1>7 DEF StartShape, MutateShape, QuietShape, EndShape, CallShape, AmbiguousShape,
     CloseShape, StorageShape, ToolShape, ResetShape, SameState
<1> QED
  BY <1>4, <1>5, <1>6, <1>7 DEF Step

\* Accepted work is finished or kept, over every step of a running process.
THEOREM StateWorkIsKept == Spec => WorkIsKept
<1> DEFINE Kept == \A d \in Drivers :
                     /\ m.up /\ m'.up /\ Decoded(m.ctl) /\ Decoded(m'.ctl) /\ Recorded(m.ctl, d)
                     /\ storage = "sound"
                     => LET r == m.ctl.rec[d]
                            next == m'.ctl.rec[d]
                        IN  /\ r.cur # NoWork => Recorded(m'.ctl, d)
                            /\ r.res # NoWork => SameIdentity(next.res, r.res) \/ SameIdentity(next.cur, r.res)
                            /\ Recorded(m'.ctl, d) /\ SameIdentity(next.cur, r.cur)
                                 => next.cur.phase >= r.cur.phase
<1>1. ASSUME IndInv, [Next]_vars PROVE Kept
  <2>1. Step
    BY <1>1, Apart, StateBounds, StepShape DEF IndInv, Step
  <2>2. ASSUME NEW d \in Drivers, m.up, m'.up, Decoded(m.ctl), Decoded(m'.ctl), storage = "sound"
        PROVE  RecordKept(m.ctl, m'.ctl, d)
    BY <1>1, <2>1, <2>2, Apart, StateBounds, StepKeepsWork
  <2> QED
    BY <2>2 DEF RecordKept
<1>2. IndInv /\ [Next]_vars => [Kept]_vars
  BY <1>1
<1> QED
  BY <1>2, StateInvariant, PTL DEF Spec, WorkIsKept
=============================================================================
