--------------------------- MODULE RecordSyncProofs ---------------------------
(* Theorems about RecordSync for every value of its constants.                *)
(*                                                                            *)
(* First the types, with the inductive invariant IInv: TypeOK, every reply    *)
(* under way is a finite page (so that a device finds the newest change of a  *)
(* row on it) for a token that was issued, and the registration's initial     *)
(* state is the start of a snapshot.  From it, that an acknowledgement never  *)
(* moves the checkpoint's ordinary position back.                             *)
(*                                                                            *)
(* Then what a device holds, with the inductive invariant SyncInv, which adds *)
(* to IInv what relates the log, the states that were handed out, the pages   *)
(* under way and the copies.  From it, that labels are sound, that cursors    *)
(* and certificates miss no row, and that removals reach the device.          *)
EXTENDS RecordSync, TLAPS, FiniteSetTheorems, SequenceTheorems

RepliesAreIssued == \A m \in replies : IsFiniteSet(m.page) /\ m.token \in 1..Len(issued)

StartsWithSnapshot == reg.initial.mode = "snapshot" /\ reg.initial.id = 0

IInv == TypeOK /\ RepliesAreIssued /\ StartsWithSnapshot

------------------------------------------------------------------------------
(* Maxima of finite sets, by minimality of a counterexample.                  *)

\* A finite non-empty set has an element that is largest in f.
LEMMA LargestExists ==
    ASSUME NEW S, NEW f \in [S -> Nat], NEW T \in SUBSET S, IsFiniteSet(T), T # {}
    PROVE  \E x \in T : \A y \in T : f[y] <= f[x]
<1> DEFINE Bad == {U \in FiniteSubsetsOf(S) : U # {} /\ ~\E x \in U : \A y \in U : f[y] <= f[x]}
<1>1. SUFFICES ASSUME Bad # {} PROVE FALSE
  BY DEF FiniteSubsetsOf
<1>2. PICK U \in Bad : \A V \in Bad : ~(<<V, U>> \in StrictSubsetOrdering(S))
  <2>1. IsWellFoundedOn(StrictSubsetOrdering(S), FiniteSubsetsOf(S))
    BY FS_StrictSubsetOrderingWellFounded
  <2>2. Bad \subseteq FiniteSubsetsOf(S)
    OBVIOUS
  <2> QED
    BY <1>1, <2>1, <2>2, WFMin
<1>3. PICK x \in U : TRUE
  OBVIOUS
<1>4. U \in SUBSET S /\ IsFiniteSet(U)
  BY DEF FiniteSubsetsOf
<1> DEFINE V == U \ {x}
<1>5. V \in FiniteSubsetsOf(S) /\ <<V, U>> \in StrictSubsetOrdering(S)
  BY <1>3, <1>4, FS_RemoveElement DEF FiniteSubsetsOf, StrictSubsetOrdering
<1>6. V \notin Bad
  BY <1>2, <1>5
<1>7. CASE V = {}
  BY <1>3, <1>4, <1>7
<1>8. CASE V # {}
  <2>1. PICK m \in V : \A y \in V : f[y] <= f[m]
    BY <1>5, <1>6, <1>8
  <2>2. \A y \in U : f[y] \in Nat
    BY <1>4
  <2>3. CASE f[x] <= f[m]
    BY <2>1, <2>3
  <2>4. CASE ~(f[x] <= f[m])
    BY <2>1, <2>2, <2>4, <1>3
  <2> QED
    BY <2>3, <2>4
<1> QED
  BY <1>7, <1>8

\* MaxOf is the largest element, or the default of an empty set.
LEMMA MaxOfFinite ==
    ASSUME NEW S \in SUBSET Nat, IsFiniteSet(S), NEW d \in Nat
    PROVE  /\ MaxOf(S, d) \in Nat
           /\ S # {} => MaxOf(S, d) \in S /\ \A y \in S : y <= MaxOf(S, d)
<1>1. CASE S = {}
  BY <1>1 DEF MaxOf
<1>2. CASE S # {}
  <2> DEFINE f == [x \in Nat |-> x]
  <2>1. \E x \in S : \A y \in S : f[y] <= f[x]
    <3>1. f \in [Nat -> Nat]
      OBVIOUS
    <3> QED
      BY <1>2, <3>1, LargestExists
  <2>2. \E x \in S : \A y \in S : y <= x
    BY <2>1
  <2> QED
    BY <1>2, <2>2 DEF MaxOf
<1> QED
  BY <1>1, <1>2

------------------------------------------------------------------------------
(* The page reader keeps states in States and puts finite sets of changes on  *)
(* pages.                                                                     *)

LEMMA LogTypes ==
    ASSUME LogTypeOK
    PROVE  /\ position \in Nat
           /\ \A p \in 1..position : journal[p] \in Entries
           /\ \A r \in Rows : head[r] \in Heads /\ head[r].pos \in Nat /\ head[r].part \in Parts
           /\ readable \in SUBSET Parts /\ accessRev \in Nat /\ floor \in Nat
<1>1. position \in Nat /\ \A p \in 1..position : journal[p] \in Entries
  BY LenProperties, ElementOfSeq DEF LogTypeOK, position
<1>2. \A r \in Rows : head[r] \in Heads /\ head[r].pos \in Nat /\ head[r].part \in Parts
  BY DEF LogTypeOK, Heads
<1> QED
  BY <1>1, <1>2 DEF LogTypeOK

LEMMA InitialStateType ==
    ASSUME LogTypeOK
    PROVE  InitialState \in States
BY LogTypes DEF InitialState, States, NoTarget

LEMMA ConsumedType ==
    ASSUME NEW st \in States
    PROVE  Consumed(st) \in Nat
BY DEF Consumed, States

\* Observing the authority queues catchups and notifications of known partitions.
LEMMA ObserveAccessType ==
    ASSUME LogTypeOK, NEW st \in States
    PROVE  /\ ObserveAccess(st) \in States
           /\ ObserveAccess(st).mode = st.mode
           /\ ObserveAccess(st).target = st.target
<1>1. NewCatchups(st) \in SUBSET Catchups
  BY LogTypes, ConsumedType DEF NewCatchups, Gains, Catchups
<1>2. {c \in st.catchups : c.key \in readable} \in SUBSET Catchups
  BY DEF States
<1>3. Gains(st) \in SUBSET Parts /\ (st.access \ readable) \in SUBSET Parts
  BY LogTypes DEF Gains, States
<1> QED
  BY <1>1, <1>2, <1>3, LogTypes DEF ObserveAccess, States

\* A bounded delta has a position for its target.
LEMMA OpenedType ==
    ASSUME LogTypeOK, NEW st \in States, NEW bounded \in BOOLEAN
    PROVE  /\ Opened(st, bounded) \in States
           /\ Opened(st, bounded).mode = st.mode
           /\ bounded /\ st.mode = "delta" => Opened(st, bounded).target \in Nat
<1> DEFINE next == ObserveAccess(st)
<1>1. next \in States /\ next.mode = st.mode
  BY ObserveAccessType
<1> HIDE DEF next
<1>2. position \in Nat
  BY LogTypes
<1>3. PinTarget(st, next) \in States /\ PinTarget(st, next).mode = st.mode
      /\ (st.mode = "delta" => PinTarget(st, next).target \in Nat)
  BY <1>1, <1>2 DEF PinTarget, States, NoTarget
<1>4. Opened(st, bounded) = IF bounded THEN [PinTarget(st, next) EXCEPT !.bounded = TRUE] ELSE next
  BY DEF Opened, next
<1> DEFINE pinned == PinTarget(st, next)
<1>5. pinned \in States => /\ [pinned EXCEPT !.bounded = TRUE] \in States
                           /\ [pinned EXCEPT !.bounded = TRUE].mode = pinned.mode
                           /\ [pinned EXCEPT !.bounded = TRUE].target = pinned.target
  <2> HIDE DEF pinned
  <2> QED BY DEF States
<1> QED
  BY <1>1, <1>3, <1>4, <1>5

LEMMA ClosedType ==
    ASSUME NEW st \in States, NEW next \in States, NEW bounded \in BOOLEAN, NEW more \in BOOLEAN
    PROVE  Closed(st, next, bounded, more) \in States
<1>1. Certified(st, next, more) \in BOOLEAN
  BY DEF Certified
<1>2. next.targetComplete \in BOOLEAN
  BY DEF States
<1>3. (IF bounded THEN Certified(st, next, more) ELSE next.targetComplete) \in BOOLEAN
  BY <1>1, <1>2
<1>4. st.progress + 1 \in Nat
  BY DEF States
<1> QED
  BY <1>3, <1>4 DEF Closed, States

\* Scans are finite sets of rows or of positions.
LEMMA ScanTypes ==
    ASSUME LogTypeOK, NEW st \in States, NEW bounded \in BOOLEAN, NEW target, NEW c
    PROVE  /\ CatchupScan(c) \in SUBSET Rows /\ IsFiniteSet(CatchupScan(c))
           /\ SnapshotScan(st, bounded) \in SUBSET Rows /\ IsFiniteSet(SnapshotScan(st, bounded))
           /\ DeltaScan(st, bounded, target) \in SUBSET (1..position)
           /\ IsFiniteSet(DeltaScan(st, bounded, target))
<1>1. IsFiniteSet(Rows)
  BY RowsAssumption
<1>2. CatchupScan(c) \in SUBSET Rows /\ SnapshotScan(st, bounded) \in SUBSET Rows
  BY DEF CatchupScan, SnapshotScan
<1>3. position \in Nat /\ floor \in Nat
  BY LogTypes
<1>4. DeltaScan(st, bounded, target) \in SUBSET (1..position)
  BY <1>3 DEF DeltaScan
<1>5. IsFiniteSet(1..position)
  BY <1>3, FS_Interval
<1> QED
  BY <1>1, <1>2, <1>4, <1>5, FS_Subset

LEMMA StopTypes ==
    ASSUME NEW st \in States, NEW scan, IsFiniteSet(scan), NEW visible,
           NEW stop \in Stops(st, scan, visible)
    PROVE  /\ [st EXCEPT !.changes = @ \ stop.drained] \in States
           /\ stop.scanned \in SUBSET scan /\ IsFiniteSet(stop.scanned)
<1>1. stop.scanned \in SUBSET scan
  BY DEF Stops, StopsAt
<1> QED
  BY <1>1, FS_Subset DEF States

\* Serving a catchup from its keyset position leaves a catchup of the same key.
LEMMA AfterCatchupType ==
    ASSUME NEW next \in States, NEW c \in next.catchups,
           NEW S \in SUBSET Rows, IsFiniteSet(S), NEW scan
    PROVE  AfterCatchup(next, c, S, scan) \in States
<1>1. c \in Catchups
  BY DEF States
<1>2. MaxOf(S, c.id) \in Nat
  BY <1>1, RowsAssumption, MaxOfFinite DEF Catchups
<1>3. [c EXCEPT !.id = MaxOf(S, c.id)] \in Catchups
  BY <1>1, <1>2 DEF Catchups
<1> QED
  BY <1>1, <1>3 DEF AfterCatchup, States

LEMMA AfterSnapshotType ==
    ASSUME LogTypeOK, NEW st \in States, NEW next \in States, NEW bounded \in BOOLEAN,
           NEW S \in SUBSET Rows, IsFiniteSet(S), NEW scan
    PROVE  AfterSnapshot(st, next, bounded, S, scan) \in States
<1>1. MaxOf(S, st.id) \in Nat
  BY RowsAssumption, MaxOfFinite DEF States
<1>2. st.boundary \in Nat /\ position \in Nat
  BY LogTypes DEF States
<1> QED
  BY <1>1, <1>2 DEF AfterSnapshot, States

LEMMA AfterDeltaType ==
    ASSUME NEW st \in States, NEW next \in States, NEW bounded \in BOOLEAN,
           bounded => next.target \in Nat,
           NEW S \in SUBSET Nat, IsFiniteSet(S), NEW scan
    PROVE  AfterDelta(st, next, bounded, S, scan) \in States
<1>1. MaxOf(S, st.after) \in Nat
  BY MaxOfFinite DEF States
<1> QED
  BY <1>1 DEF AfterDelta, States

\* The changes of a finite set of rows, and of a finite set of journal entries.
LEMMA ChangeTypes ==
    ASSUME LogTypeOK
    PROVE  /\ \A S \in SUBSET Rows, v \in Nat : IsFiniteSet(S) =>
                 /\ {RowChange(r, v) : r \in S} \in SUBSET Changes
                 /\ IsFiniteSet({RowChange(r, v) : r \in S})
           /\ \A S \in SUBSET Rows : IsFiniteSet(S) =>
                 /\ {RowChange(r, head[r].pos) : r \in S} \in SUBSET Changes
                 /\ IsFiniteSet({RowChange(r, head[r].pos) : r \in S})
           /\ \A S \in SUBSET (1..position) : IsFiniteSet(S) =>
                 /\ {JournalChange(p) : p \in S} \in SUBSET Changes
                 /\ IsFiniteSet({JournalChange(p) : p \in S})
<1>1. ASSUME NEW S \in SUBSET Rows, NEW v \in [Rows -> Nat], IsFiniteSet(S)
      PROVE  /\ {RowChange(r, v[r]) : r \in S} \in SUBSET Changes
             /\ IsFiniteSet({RowChange(r, v[r]) : r \in S})
  <2>1. \A r \in S : RowChange(r, v[r]) \in Changes
    BY <1>1, LogTypes DEF RowChange, Changes, Ops
  <2> DEFINE f == [r \in S |-> RowChange(r, v[r])]
             T == {RowChange(r, v[r]) : r \in S}
  <2>2. f \in Surjection(S, T)
    BY DEF Surjection
  <2>3. IsFiniteSet(T)
    BY <1>1, <2>2, FS_Surjection
  <2> QED
    BY <2>1, <2>3
<1>2. ASSUME NEW S \in SUBSET Rows, NEW v \in Nat, IsFiniteSet(S)
      PROVE  /\ {RowChange(r, v) : r \in S} \in SUBSET Changes
             /\ IsFiniteSet({RowChange(r, v) : r \in S})
  <2> DEFINE w == [r \in Rows |-> v]
  <2>1. w \in [Rows -> Nat]
    OBVIOUS
  <2>2. {RowChange(r, w[r]) : r \in S} = {RowChange(r, v) : r \in S}
    OBVIOUS
  <2> QED
    BY <1>1, <1>2, <2>1, <2>2
<1>3. ASSUME NEW S \in SUBSET Rows, IsFiniteSet(S)
      PROVE  /\ {RowChange(r, head[r].pos) : r \in S} \in SUBSET Changes
             /\ IsFiniteSet({RowChange(r, head[r].pos) : r \in S})
  <2> DEFINE w == [r \in Rows |-> head[r].pos]
  <2>1. w \in [Rows -> Nat]
    BY LogTypes
  <2>2. {RowChange(r, w[r]) : r \in S} = {RowChange(r, head[r].pos) : r \in S}
    OBVIOUS
  <2> QED
    BY <1>1, <1>3, <2>1, <2>2
<1>4. ASSUME NEW S \in SUBSET (1..position), IsFiniteSet(S)
      PROVE  /\ {JournalChange(p) : p \in S} \in SUBSET Changes
             /\ IsFiniteSet({JournalChange(p) : p \in S})
  <2>1. \A p \in S : JournalChange(p) \in Changes
    BY <1>4, LogTypes DEF JournalChange, Changes, Entries
  <2> DEFINE f == [p \in S |-> JournalChange(p)]
             T == {JournalChange(p) : p \in S}
  <2>2. f \in Surjection(S, T)
    BY DEF Surjection
  <2>3. IsFiniteSet(T)
    BY <1>4, <2>2, FS_Surjection
  <2> QED
    BY <2>1, <2>3
<1> QED
  BY <1>2, <1>3, <1>4

LEMMA VisibleTypes ==
    ASSUME NEW S, IsFiniteSet(S)
    PROVE  /\ VisibleRows(S) \in SUBSET S /\ IsFiniteSet(VisibleRows(S))
           /\ VisibleEntries(S) \in SUBSET S /\ IsFiniteSet(VisibleEntries(S))
<1>1. VisibleRows(S) \in SUBSET S /\ VisibleEntries(S) \in SUBSET S
  BY DEF VisibleRows, VisibleEntries
<1> QED
  BY <1>1, FS_Subset

\* What a page read yields: a state of the right type and finitely many changes.
LEMMA PageTypes ==
    ASSUME LogTypeOK, NEW st \in States, NEW bounded \in BOOLEAN, NEW out \in Pages(st, bounded)
    PROVE  out.state \in States /\ out.page \in SUBSET Changes /\ IsFiniteSet(out.page)
<1> DEFINE opened == Opened(st, bounded)
           drained(stop) == [opened EXCEPT !.changes = @ \ stop.drained]
<1>1. opened \in States /\ (bounded /\ st.mode = "delta" => opened.target \in Nat)
  BY OpenedType
<1> HIDE DEF opened
<1>2. CASE out \in CatchupPages(st, bounded)
  <2>1. PICK c \in opened.catchups :
          \E stop \in Stops(opened, CatchupScan(c), VisibleRows(CatchupScan(c))) :
           out = [state |-> Closed(st, AfterCatchup(drained(stop), c, stop.scanned, CatchupScan(c)),
                                   bounded, TRUE),
                  page |-> {RowChange(r, head[r].pos) : r \in VisibleRows(stop.scanned)}]
    BY <1>2 DEF CatchupPages, opened
  <2> PICK stop \in Stops(opened, CatchupScan(c), VisibleRows(CatchupScan(c))) :
           out = [state |-> Closed(st, AfterCatchup(drained(stop), c, stop.scanned, CatchupScan(c)),
                                   bounded, TRUE),
                  page |-> {RowChange(r, head[r].pos) : r \in VisibleRows(stop.scanned)}]
    BY <2>1
  <2>2. CatchupScan(c) \in SUBSET Rows /\ IsFiniteSet(CatchupScan(c))
    BY ScanTypes
  <2>3. drained(stop) \in States /\ stop.scanned \in SUBSET Rows /\ IsFiniteSet(stop.scanned)
    BY <1>1, <2>2, StopTypes
  <2>4. drained(stop).catchups = opened.catchups
    BY <1>1 DEF States
  <2>5. AfterCatchup(drained(stop), c, stop.scanned, CatchupScan(c)) \in States
    BY <2>1, <2>3, <2>4, AfterCatchupType
  <2>6. Closed(st, AfterCatchup(drained(stop), c, stop.scanned, CatchupScan(c)), bounded, TRUE) \in States
    BY <2>5, ClosedType
  <2>7. VisibleRows(stop.scanned) \in SUBSET Rows /\ IsFiniteSet(VisibleRows(stop.scanned))
    BY <2>3, VisibleTypes
  <2> QED
    BY <2>6, <2>7, ChangeTypes
<1>3. CASE out \in SnapshotPages(st, bounded)
  <2> DEFINE scan == SnapshotScan(st, bounded)
  <2>1. PICK stop \in Stops(opened, scan, VisibleRows(scan)) :
           out = [state |-> Closed(st, AfterSnapshot(st, drained(stop), bounded, stop.scanned, scan),
                                   bounded, TRUE),
                  page |-> {RowChange(r, st.boundary) : r \in VisibleRows(stop.scanned)}]
    BY <1>3 DEF SnapshotPages, opened
  <2>2. scan \in SUBSET Rows /\ IsFiniteSet(scan)
    BY ScanTypes
  <2> HIDE DEF scan
  <2>3. drained(stop) \in States /\ stop.scanned \in SUBSET Rows /\ IsFiniteSet(stop.scanned)
    BY <1>1, <2>2, StopTypes
  <2>4. AfterSnapshot(st, drained(stop), bounded, stop.scanned, scan) \in States
    BY <2>3, AfterSnapshotType
  <2>5. Closed(st, AfterSnapshot(st, drained(stop), bounded, stop.scanned, scan), bounded, TRUE) \in States
    BY <2>4, ClosedType
  <2>6. VisibleRows(stop.scanned) \in SUBSET Rows /\ IsFiniteSet(VisibleRows(stop.scanned))
    BY <2>3, VisibleTypes
  <2>7. st.boundary \in Nat
    BY DEF States
  <2> QED
    BY <2>1, <2>5, <2>6, <2>7, ChangeTypes
<1>4. CASE out \in DeltaPages(st, bounded)
  <2> DEFINE scan == DeltaScan(st, bounded, opened.target)
  <2>1. PICK stop \in Stops(opened, scan, VisibleEntries(scan)) :
           out = [state |-> Closed(st, AfterDelta(st, drained(stop), bounded, stop.scanned, scan),
                                   bounded, stop.scanned # scan),
                  page |-> {JournalChange(p) : p \in VisibleEntries(stop.scanned)}]
    BY <1>4 DEF DeltaPages, opened
  <2>2. scan \in SUBSET (1..position) /\ IsFiniteSet(scan)
    BY ScanTypes
  <2>3. st.mode = "delta"
    BY <1>4 DEF DeltaPages
  <2> HIDE DEF scan
  <2>4. drained(stop) \in States /\ stop.scanned \in SUBSET (1..position) /\ IsFiniteSet(stop.scanned)
    BY <1>1, <2>2, StopTypes
  <2>5. bounded => drained(stop).target \in Nat
    BY <1>1, <2>3 DEF States
  <2>6. stop.scanned \in SUBSET Nat
    BY <2>4, LogTypes
  <2>7. AfterDelta(st, drained(stop), bounded, stop.scanned, scan) \in States
    BY <2>4, <2>5, <2>6, AfterDeltaType
  <2>8. Closed(st, AfterDelta(st, drained(stop), bounded, stop.scanned, scan), bounded, stop.scanned # scan) \in States
    BY <2>7, ClosedType
  <2>9. VisibleEntries(stop.scanned) \in SUBSET (1..position) /\ IsFiniteSet(VisibleEntries(stop.scanned))
    BY <2>4, VisibleTypes
  <2> QED
    BY <2>1, <2>8, <2>9, ChangeTypes
<1> QED
  BY <1>2, <1>3, <1>4 DEF Pages

------------------------------------------------------------------------------
(* The invariant.                                                             *)

LEMMA InitIInv == Init => IInv
<1> SUFFICES ASSUME Init PROVE IInv
  OBVIOUS
<1>1. (CHOOSE q \in Parts : TRUE) \in Parts
  BY PartsAssumption
<1>2. LogTypeOK
  BY <1>1, EmptySeq DEF Init, LogInit, LogTypeOK, Heads, position
<1>3. InitialState \in States /\ InitialState.mode = "snapshot" /\ InitialState.id = 0
  BY <1>2, InitialStateType DEF InitialState
<1>4. reg \in Registrations /\ reg.ck = 0 /\ StartsWithSnapshot
  BY <1>3 DEF Init, Registrations, StartsWithSnapshot
<1>5. issued \in Seq(Tokens) /\ Len(issued) = 0
  BY EmptySeq DEF Init
<1>6. cache \in [Devices -> [Rows -> Copies]]
  BY <1>1 DEF Init, EmptyCache, Copies
<1> QED
  BY <1>2, <1>4, <1>5, <1>6 DEF Init, IInv, TypeOK, RepliesAreIssued

\* A transaction of the log keeps the log's types.
LEMMA LogStepType == LogTypeOK /\ LogNext => LogTypeOK'
<1> SUFFICES ASSUME LogTypeOK, LogNext PROVE LogTypeOK'
  OBVIOUS
<1> USE DEF LogTypeOK
<1>0. position \in Nat /\ journal \in Seq(Entries)
  BY LogTypes
<1>1. ASSUME NEW e \in Entries, journal' = Append(journal, e)
      PROVE  journal' \in Seq(Entries) /\ position' = position + 1
  BY <1>0, <1>1, AppendProperties DEF position
<1>2. ASSUME NEW r \in Rows, NEW o \in Ops, NEW q \in Parts, Emit(r, o, q)
      PROVE  /\ journal' \in Seq(Entries) /\ position' = position + 1
             /\ head' \in [Rows -> Heads]
  <2>1. Entry(r, o, q) \in Entries
    BY <1>2 DEF Entry, Entries
  <2> QED
    BY <1>0, <1>1, <1>2, <2>1 DEF Emit, Heads
<1>3. ASSUME NEW r \in Rows, NEW q \in Parts, EmitMove(r, q)
      PROVE  /\ journal' \in Seq(Entries) /\ position' = position + 2
             /\ head' \in [Rows -> Heads]
  <2> DEFINE two == <<Entry(r, "delete", head[r].part), Entry(r, "upsert", q)>>
  <2>1. two \in Seq(Entries) /\ Len(two) = 2
    BY <1>3, LogTypes DEF Entry, Entries, Ops
  <2>2. journal' = journal \o two
    BY <1>3 DEF EmitMove
  <2> HIDE DEF two
  <2>3. journal' \in Seq(Entries) /\ position' = position + 2
    <3>1. /\ journal \o two \in Seq(Entries)
          /\ Len(journal \o two) = Len(journal) + Len(two)
      BY <1>0, <2>1, ConcatProperties
    <3> QED
      BY <2>1, <2>2, <3>1 DEF position
  <2> DEFINE moved == [op |-> "upsert", pos |-> position + 2, part |-> q]
  <2>4. moved \in Heads
    BY <1>0 DEF Heads, Ops
  <2>5. head' = [head EXCEPT ![r] = moved]
    BY <1>3 DEF EmitMove
  <2> HIDE DEF moved
  <2>6. head' \in [Rows -> Heads]
    BY <2>4, <2>5
  <2> QED
    BY <2>3, <2>6
<1>4. ASSUME NEW r \in Rows, NEW q \in Parts, WriteRow(r, q) PROVE LogTypeOK'
  BY <1>0, <1>2, <1>3, <1>4 DEF WriteRow, Ops
<1>5. ASSUME NEW r \in Rows, DeleteRow(r) PROVE LogTypeOK'
  <2>1. head[r].part \in Parts
    BY LogTypes
  <2> QED
    BY <1>0, <1>2, <1>5, <2>1 DEF DeleteRow, Ops
<1>6. ASSUME NEW A \in SUBSET Parts, ChangeAuthority(A) PROVE LogTypeOK'
  BY <1>6 DEF ChangeAuthority, position
<1>7. ASSUME NEW A \in SUBSET Parts, LeaveWorkspace \/ JoinWorkspace(A) PROVE LogTypeOK'
  <2>1. /\ journal' = journal /\ head' = head /\ floor' = floor /\ epoch' = epoch
        /\ accessRev' = accessRev + 1 /\ position' = position
        /\ readable' \in SUBSET Parts
    BY <1>7 DEF LeaveWorkspace, JoinWorkspace, position
  <2>2. member' \in BOOLEAN
    BY <1>7 DEF LeaveWorkspace, JoinWorkspace
  <2> QED
    BY <2>1, <2>2
<1>8. ASSUME RebindIdentity PROVE LogTypeOK'
  BY <1>8 DEF RebindIdentity, position
<1>9. ASSUME NEW p \in 1..position, PruneJournal(p) PROVE LogTypeOK'
  <2>1. journal' = journal /\ position' = position
    BY <1>9 DEF PruneJournal, position
  <2>2. floor' \in 0..position'
    BY <1>0, <1>9, <2>1 DEF PruneJournal
  <2> QED
    BY <1>9, <2>1, <2>2 DEF PruneJournal
<1> QED
  BY <1>4, <1>5, <1>6, <1>7, <1>8, <1>9 DEF LogNext

LEMMA LogIInv == IInv /\ LogNext /\ DeviceUnaware => IInv'
<1> SUFFICES ASSUME IInv, LogNext, DeviceUnaware PROVE IInv'
  OBVIOUS
<1>1. LogTypeOK'
  BY LogStepType DEF IInv, TypeOK
<1>2. lapsed' \in SUBSET Parts
  BY <1>1 DEF IInv, TypeOK, LogTypeOK, DeviceUnaware
<1> QED
  BY <1>1, <1>2 DEF IInv, TypeOK, DeviceUnaware, RepliesAreIssued, StartsWithSnapshot

LEMMA StateOfType ==
    ASSUME TypeOK
    PROVE  /\ Len(issued) \in Nat
           /\ \A t \in 0..Len(issued) : StateOf(t) \in States
<1>1. Len(issued) \in Nat /\ \A t \in 1..Len(issued) : issued[t] \in Tokens
  BY LenProperties, ElementOfSeq DEF TypeOK
<1>2. reg.initial \in States
  BY DEF TypeOK, Registrations
<1> QED
  BY <1>1, <1>2 DEF StateOf, Tokens

LEMMA OpeningType ==
    ASSUME TypeOK
    PROVE  /\ Opening \in Registrations /\ Opening.ck = 0
           /\ Opening.initial.mode = "snapshot" /\ Opening.initial.id = 0
<1>1. InitialState \in States /\ InitialState.mode = "snapshot" /\ InitialState.id = 0
  BY InitialStateType DEF TypeOK, InitialState
<1>2. epoch \in Nat
  BY DEF TypeOK, LogTypeOK
<1> QED
  BY <1>1, <1>2 DEF Opening, Registrations

LEMMA RegisterIInv == IInv /\ Register => IInv'
<1> SUFFICES ASSUME IInv, Register PROVE IInv'
  OBVIOUS
<1>1. LogTypeOK'
  BY DEF IInv, TypeOK, Register, LogTypeOK, logVars, position
<1>2. reg' = Opening /\ issued' = issued /\ Len(issued) \in Nat
  BY StateOfType DEF Register, IInv
<1>3. reg' \in Registrations /\ reg'.ck = 0 /\ StartsWithSnapshot'
  BY <1>2, OpeningType DEF IInv, StartsWithSnapshot
<1>4. held' \in [Devices -> SUBSET (0..Len(issued'))]
  BY <1>2 DEF Register
<1> QED
  BY <1>1, <1>2, <1>3, <1>4 DEF IInv, TypeOK, Register, RepliesAreIssued

LEMMA RestartIInv == IInv /\ Restart => IInv'
<1> SUFFICES ASSUME IInv, Restart PROVE IInv'
  OBVIOUS
<1>1. LogTypeOK'
  BY DEF IInv, TypeOK, Restart, LogTypeOK, logVars, position
<1>2. issued' \in Seq(Tokens) /\ Len(issued') = 0
  BY EmptySeq DEF Restart
<1>3. reg' \in Registrations /\ reg'.ck = 0 /\ StartsWithSnapshot'
  BY OpeningType DEF IInv, StartsWithSnapshot, Restart
<1>4. held' \in [Devices -> SUBSET (0..Len(issued'))]
  BY <1>2 DEF Restart
<1> QED
  BY <1>1, <1>2, <1>3, <1>4 DEF IInv, TypeOK, Restart, RepliesAreIssued

\* A registration that is closed keeps its types; no cursor is left.
LEMMA ClosingType ==
    ASSUME IInv, reg' = [reg EXCEPT !.open = FALSE, !.ck = 0, !.rev = 0, !.idle = FALSE],
           issued' = <<>>, live' = {}, replies' = {}, held' = [d \in Devices |-> {}],
           UNCHANGED logVars,
           cache' \in [Devices -> [Rows -> Copies]], lapsed' \in SUBSET Parts
    PROVE  IInv'
<1>1. LogTypeOK'
  BY DEF IInv, TypeOK, LogTypeOK, logVars, position
<1>2. issued' \in Seq(Tokens) /\ Len(issued') = 0
  BY EmptySeq
<1>3. reg' \in Registrations /\ reg'.ck = 0 /\ StartsWithSnapshot'
  BY DEF IInv, TypeOK, Registrations, StartsWithSnapshot
<1> QED
  BY <1>1, <1>2, <1>3 DEF IInv, TypeOK, RepliesAreIssued

LEMMA RetireIInv == IInv /\ Retire => IInv'
<1> SUFFICES ASSUME IInv, Retire PROVE IInv'
  OBVIOUS
<1>1. cache' \in [Devices -> [Rows -> Copies]]
  BY PartsAssumption DEF Retire, EmptyCache, Copies
<1> QED
  BY <1>1, ClosingType DEF Retire

LEMMA ReclaimIdleIInv == IInv /\ ReclaimIdle => IInv'
<1> SUFFICES ASSUME IInv, ReclaimIdle PROVE IInv'
  OBVIOUS
<1>1. cache' \in [Devices -> [Rows -> Copies]] /\ lapsed' \in SUBSET Parts
  BY DEF ReclaimIdle, IInv, TypeOK
<1> QED
  BY <1>1, ClosingType DEF ReclaimIdle

LEMMA ClientIdlesIInv == IInv /\ ClientIdles => IInv'
<1> SUFFICES ASSUME IInv, ClientIdles PROVE IInv'
  OBVIOUS
<1>1. LogTypeOK'
  BY DEF IInv, TypeOK, ClientIdles, LogTypeOK, logVars, position
<1>2. reg' \in Registrations /\ reg'.ck = reg.ck /\ reg'.initial = reg.initial
  BY DEF IInv, TypeOK, ClientIdles, Registrations
<1> QED
  BY <1>1, <1>2 DEF IInv, TypeOK, ClientIdles, RepliesAreIssued, StartsWithSnapshot

LEMMA TokenExpiresIInv == ASSUME NEW t \in live, IInv, TokenExpires(t) PROVE IInv'
<1>1. LogTypeOK'
  BY DEF IInv, TypeOK, TokenExpires, LogTypeOK, logVars, position
<1> QED
  BY <1>1 DEF IInv, TypeOK, TokenExpires, RepliesAreIssued, StartsWithSnapshot

LEMMA ReadPageIInv ==
    ASSUME NEW t \in 0..Len(issued), NEW bounded \in Extensions, IInv, ReadPage(t, bounded)
    PROVE  IInv'
<1>1. LogTypeOK'
  BY DEF IInv, TypeOK, ReadPage, LogTypeOK, logVars, position
<1>2. bounded \in BOOLEAN /\ StateOf(t) \in States /\ Len(issued) \in Nat
  BY ExtensionsAssumption, StateOfType DEF IInv
<1>3. PICK out \in Pages(StateOf(t), bounded) :
        /\ issued' = Append(issued, [state |-> out.state, base |-> reg.rev,
                                    epoch |-> epoch, seen |-> reg.rev])
        /\ replies' = replies \cup {[from |-> t, token |-> Len(issued) + 1, page |-> out.page]}
        /\ live' = Retained(live \cup {Len(issued) + 1})
  BY DEF ReadPage
<1>4. out.state \in States /\ out.page \in SUBSET Changes /\ IsFiniteSet(out.page)
  BY <1>2, PageTypes DEF IInv, TypeOK
<1> DEFINE token == [state |-> out.state, base |-> reg.rev, epoch |-> epoch, seen |-> reg.rev]
<1>5. token \in Tokens
  BY <1>4 DEF Tokens, IInv, TypeOK, LogTypeOK, Registrations
<1>6. issued' = Append(issued, token)
  BY <1>3
<1> HIDE DEF token
<1>7. issued' \in Seq(Tokens) /\ Len(issued') = Len(issued) + 1
  BY <1>5, <1>6, AppendProperties DEF IInv, TypeOK
<1>8. replies' \in SUBSET Replies /\ RepliesAreIssued'
  BY <1>2, <1>3, <1>4, <1>7 DEF IInv, TypeOK, RepliesAreIssued, Replies
<1>9. live' \in SUBSET (1..Len(issued'))
  <2>1. Retained(live \cup {Len(issued) + 1}) \subseteq live \cup {Len(issued) + 1}
    BY DEF Retained
  <2>2. live \cup {Len(issued) + 1} \subseteq 1..(Len(issued) + 1)
    <3>1. live \subseteq 1..Len(issued) /\ Len(issued) \in Nat
      BY <1>2 DEF IInv, TypeOK
    <3>2. \A n \in Nat : 1..n \subseteq 1..(n + 1) /\ n + 1 \in 1..(n + 1)
      OBVIOUS
    <3> QED
      BY <3>1, <3>2
  <2> QED
    BY <1>3, <1>7, <2>1, <2>2
<1>10. held' \in [Devices -> SUBSET (0..Len(issued'))]
  <2>1. held' = held /\ 0..Len(issued) \subseteq 0..Len(issued')
    BY <1>2, <1>7 DEF ReadPage
  <2> QED
    BY <2>1 DEF IInv, TypeOK
<1>11. reg' = reg /\ cache' = cache /\ lapsed' = lapsed /\ reg.ck \in 0..Len(issued')
  BY <1>2, <1>7 DEF ReadPage, IInv, TypeOK
<1> QED
  BY <1>1, <1>7, <1>8, <1>9, <1>10, <1>11 DEF IInv, TypeOK, StartsWithSnapshot

LEMMA ReadNothingIInv == ASSUME NEW t \in 1..Len(issued), IInv, ReadNothing(t) PROVE IInv'
<1>1. LogTypeOK'
  BY DEF IInv, TypeOK, ReadNothing, LogTypeOK, logVars, position
<1>2. issued[t] \in Tokens /\ reg.rev \in Nat
  BY ElementOfSeq DEF IInv, TypeOK, Registrations
<1> DEFINE token == [issued[t] EXCEPT !.seen = reg.rev]
<1>3. token \in Tokens
  BY <1>2 DEF Tokens
<1>4. issued' = [issued EXCEPT ![t] = token]
  BY DEF ReadNothing
<1> HIDE DEF token
<1>5. issued' \in Seq(Tokens) /\ Len(issued') = Len(issued)
  BY <1>3, <1>4, ExceptSeq DEF IInv, TypeOK
<1> QED
  BY <1>1, <1>5 DEF ReadNothing, IInv, TypeOK, RepliesAreIssued, StartsWithSnapshot

\* A copy takes a change of the page or keeps what it has.
LEMMA NewerType ==
    ASSUME NEW copy \in Copies, NEW page \in SUBSET Changes, IsFiniteSet(page), NEW r \in Rows
    PROVE  Newer(copy, page, r) \in Copies
<1> DEFINE mine == {ch \in page : ch.row = r}
           f == [ch \in Changes |-> ch.version]
<1>1. CASE mine = {}
  BY <1>1 DEF Newer
<1>2. CASE mine # {}
  <2>1. f \in [Changes -> Nat] /\ mine \in SUBSET Changes /\ IsFiniteSet(mine)
    BY FS_Subset DEF Changes
  <2>2. \E c \in mine : \A e \in mine : f[e] <= f[c]
    BY <1>2, <2>1, LargestExists
  <2>3. \E c \in mine : \A e \in mine : e.version <= c.version
    BY <2>1, <2>2
  <2> DEFINE ch == CHOOSE c \in mine : \A e \in mine : e.version <= c.version
  <2>4. ch \in Changes
    BY <2>3
  <2> HIDE DEF mine
  <2>5. Newer(copy, page, r) = IF ch.version <= copy.label THEN copy
                 ELSE [op |-> ch.op, label |-> ch.version, pos |-> ch.pos, part |-> ch.part]
    BY <1>2 DEF Newer, mine
  <2> HIDE DEF ch
  <2> QED
    BY <2>4, <2>5 DEF Changes, Copies
<1> QED
  BY <1>1, <1>2

LEMMA ApplyPageIInv == ASSUME NEW d \in Devices, NEW m \in replies, IInv, ApplyPage(d, m) PROVE IInv'
<1>1. LogTypeOK'
  BY DEF IInv, TypeOK, ApplyPage, LogTypeOK, logVars, position
<1>2. m.page \in SUBSET Changes /\ IsFiniteSet(m.page) /\ m.token \in 1..Len(issued)
  BY DEF IInv, TypeOK, RepliesAreIssued, Replies
<1>3. cache' \in [Devices -> [Rows -> Copies]]
  <2> DEFINE fresh == [r \in Rows |-> Newer(cache[d][r], m.page, r)]
  <2>1. fresh \in [Rows -> Copies]
    BY <1>2, NewerType DEF IInv, TypeOK
  <2>2. cache' = [cache EXCEPT ![d] = fresh]
    BY DEF ApplyPage
  <2> HIDE DEF fresh
  <2> QED
    BY <2>1, <2>2 DEF IInv, TypeOK
<1>4. held' \in [Devices -> SUBSET (0..Len(issued))]
  <2>1. held[d] \cup {m.token} \in SUBSET (0..Len(issued))
    BY <1>2, StateOfType DEF IInv, TypeOK
  <2> QED
    BY <2>1 DEF ApplyPage, IInv, TypeOK
<1>5. replies' \subseteq replies
  BY DEF ApplyPage
<1> QED
  BY <1>1, <1>3, <1>4, <1>5 DEF ApplyPage, IInv, TypeOK, RepliesAreIssued, StartsWithSnapshot

LEMMA ReplaceIInv == ASSUME NEW d \in Devices, NEW e \in Devices, IInv, Replace(d, e) PROVE IInv'
<1>1. LogTypeOK'
  BY DEF IInv, TypeOK, Replace, LogTypeOK, logVars, position
<1>2. /\ cache' \in [Devices -> [Rows -> Copies]]
      /\ held' \in [Devices -> SUBSET (0..Len(issued))]
  BY DEF Replace, IInv, TypeOK
<1>3. replies' \subseteq replies
  BY DEF Replace
<1> QED
  BY <1>1, <1>2, <1>3 DEF Replace, IInv, TypeOK, RepliesAreIssued, StartsWithSnapshot

LEMMA AcknowledgeIInv == ASSUME NEW t \in 1..Len(issued), IInv, Acknowledge(t) PROVE IInv'
<1>1. LogTypeOK'
  BY DEF IInv, TypeOK, Acknowledge, LogTypeOK, logVars, position
<1>2. reg' \in Registrations /\ reg'.ck = t /\ reg'.initial = reg.initial
  <2>1. t \in Nat /\ reg' = [reg EXCEPT !.ck = t, !.rev = @ + 1]
    BY StateOfType DEF Acknowledge, IInv
  <2>2. reg \in Registrations
    BY DEF IInv, TypeOK
  <2>3. reg.rev + 1 \in Nat
    BY <2>2 DEF Registrations
  <2> QED
    BY <2>1, <2>2, <2>3 DEF Registrations
<1> QED
  BY <1>1, <1>2, StateOfType DEF Acknowledge, IInv, TypeOK, RepliesAreIssued, StartsWithSnapshot

\* IInv is inductive.
LEMMA NextIInv == IInv /\ [Next]_vars => IInv'
<1> SUFFICES ASSUME IInv, [Next]_vars PROVE IInv'
  OBVIOUS
<1>1. CASE LogNext /\ DeviceUnaware
  BY <1>1, LogIInv
<1>2. CASE Register
  BY <1>2, RegisterIInv
<1>3. CASE Restart
  BY <1>3, RestartIInv
<1>4. CASE Retire
  BY <1>4, RetireIInv
<1>5. CASE ClientIdles
  BY <1>5, ClientIdlesIInv
<1>6. CASE ReclaimIdle
  BY <1>6, ReclaimIdleIInv
<1>7. CASE \E t \in live : TokenExpires(t)
  BY <1>7, TokenExpiresIInv
<1>8. CASE \E t \in 0..Len(issued), bounded \in Extensions : ReadPage(t, bounded)
  BY <1>8, ReadPageIInv
<1>9. CASE \E t \in 1..Len(issued) : ReadNothing(t)
  BY <1>9, ReadNothingIInv
<1>10. CASE \E d \in Devices, m \in replies : ApplyPage(d, m)
  BY <1>10, ApplyPageIInv
<1>11. CASE \E d, e \in Devices : Replace(d, e)
  BY <1>11, ReplaceIInv
<1>12. CASE \E t \in 1..Len(issued) : Acknowledge(t)
  BY <1>12, AcknowledgeIInv
<1>13. CASE UNCHANGED vars
  BY <1>13 DEF vars, IInv, TypeOK, LogTypeOK, position, RepliesAreIssued, StartsWithSnapshot
<1> QED
  BY <1>1, <1>2, <1>3, <1>4, <1>5, <1>6, <1>7, <1>8, <1>9, <1>10, <1>11, <1>12, <1>13 DEF Next

THEOREM Invariance == Spec => []IInv
<1> QED
  BY InitIInv, NextIInv, PTL DEF Spec

\* The log, the registration, its page tokens, the replies under way and the
\* device's copies keep their types: in particular every cursor a device holds
\* and every token still accepted was issued by the present registration
\* (registerRecordClient clears all of them together).
THEOREM TypeCorrect == Spec => []TypeOK
<1>1. IInv => TypeOK
  BY DEF IInv
<1> QED
  BY <1>1, Invariance, PTL

------------------------------------------------------------------------------
(* The checkpoint's place.                                                    *)

\* What stateDoesNotRegress accepts has nothing ahead, in the order of the journal
\* or of the snapshot's keyset, that the committed state had passed.
LEMMA NoRegress ==
    ASSUME LogTypeOK, NEW next \in States, NEW committed \in States,
           DoesNotRegress(next, committed), NEW r \in Rows, AheadInOrder(next, r)
    PROVE  AheadInOrder(committed, r)
<1>1. head[r].pos \in Nat /\ r \in Nat
  BY LogTypes, RowsAssumption
<1> QED
  BY <1>1 DEF DoesNotRegress, AheadInOrder, Consumed, States

\* Everything is ahead of a registration's initial state.
LEMMA AllAheadOfInitial ==
    ASSUME StartsWithSnapshot, NEW r \in Rows
    PROVE  AheadInOrder(StateOf(0), r)
BY RowsAssumption DEF StartsWithSnapshot, AheadInOrder, StateOf

LEMMA AcknowledgeKeepsPlace ==
    ASSUME IInv, NEW t \in 1..Len(issued), Acknowledge(t), NEW r \in Rows,
           AheadInOrder(StateOf(reg.ck), r)'
    PROVE  AheadInOrder(StateOf(reg.ck), r)
<1>1. /\ head' = head /\ issued' = issued
      /\ reg'.ck = t /\ reg'.initial = reg.initial
  <2>1. reg \in Registrations
    BY DEF IInv, TypeOK
  <2> QED
    BY <2>1 DEF Acknowledge, logVars, Registrations
<1>2. t # 0
  BY StateOfType DEF IInv
<1>3. StateOf(reg.ck)' = StateOf(t)
  BY <1>1, <1>2 DEF StateOf
<1>4. AheadInOrder(StateOf(t), r)
  BY <1>1, <1>3 DEF AheadInOrder, Consumed
<1>5. CASE reg.ck = 0
  BY <1>5, AllAheadOfInitial DEF IInv
<1>6. CASE reg.ck # 0
  <2>1. StateOf(t) \in States /\ StateOf(reg.ck) \in States /\ LogTypeOK
    BY StateOfType DEF IInv, TypeOK
  <2> QED
    BY <1>4, <1>6, <2>1, NoRegress DEF Acknowledge
<1> QED
  BY <1>5, <1>6

\* No other step gives the registration a checkpoint.
LEMMA OnlyAcknowledgeMoves ==
    ASSUME IInv, Next, reg'.ck \notin {0, reg.ck}
    PROVE  \E t \in 1..Len(issued) : Acknowledge(t)
<1>1. reg \in Registrations /\ Opening.ck = 0
  BY OpeningType DEF IInv, TypeOK
<1> QED
  BY <1>1 DEF Next, DeviceUnaware, Register, Restart, Retire, ClientIdles, ReclaimIdle,
              TokenExpires, ReadPage, ReadNothing, ApplyPage, Replace, Registrations

\* An acknowledgement never puts rows back in front of the checkpoint that its
\* journal position or snapshot keyset had passed, whichever of the device's
\* cursors it names and however late it arrives (acknowledgeRecordCheckpoint).
THEOREM CheckpointNeverMovesBack == Spec => CheckpointKeepsItsPlace
<1> DEFINE Keeps == reg'.ck \notin {0, reg.ck} =>
              \A r \in Rows : AheadInOrder(StateOf(reg.ck), r)' => AheadInOrder(StateOf(reg.ck), r)
<1>1. IInv /\ [Next]_vars => [Keeps]_vars
  <2> SUFFICES ASSUME IInv, Next, reg'.ck \notin {0, reg.ck}, NEW r \in Rows,
                      AheadInOrder(StateOf(reg.ck), r)'
               PROVE  AheadInOrder(StateOf(reg.ck), r)
    OBVIOUS
  <2> PICK t \in 1..Len(issued) : Acknowledge(t)
    BY OnlyAcknowledgeMoves
  <2> QED
    BY AcknowledgeKeepsPlace
<1> QED
  BY <1>1, Invariance, PTL DEF Spec, CheckpointKeepsItsPlace

------------------------------------------------------------------------------
(* What the device holds.  The invariant that its cursors rest on relates the *)
(* log, the states the server handed out, the pages under way and the copies: *)
(* a page brings whatever the cursor it was read with has ahead and the next  *)
(* cursor has not, whatever is written between the read and its arrival.      *)

\* The head of a row is its latest journal entry.
HeadsAreLatest ==
    \A r \in Rows :
        /\ head[r].op = "none" => head[r].pos = 0
        /\ head[r].op # "none" =>
              /\ head[r].pos \in 1..position
              /\ journal[head[r].pos] = Entry(r, head[r].op, head[r].part)
        /\ \A p \in 1..position : journal[p].row = r => p <= head[r].pos

\* A row that was in a partition and is not any more left it by a tombstone.
LeavingIsDeleted ==
    \A r \in Rows, q \in Parts, p \in 1..position :
        journal[p] = Entry(r, "upsert", q) /\ ~InPartition(r, q)
        => \E n \in 1..position : p < n /\ journal[n] = Entry(r, "delete", q)

LogInv == HeadsAreLatest /\ LeavingIsDeleted

\* A state the server handed out is behind the log and its authority.
InPlace(st) ==
    /\ st.boundary <= position /\ Consumed(st) <= position /\ st.target <= position
    /\ st.accessRev <= accessRev
    /\ st.accessRev = accessRev => st.access = readable
    /\ reg.open => st.access \ readable \subseteq lapsed
    /\ st.target # NoTarget => st.bounded /\ st.mode = "delta" /\ st.after <= st.target
    /\ st.targetComplete => st.bounded /\ st.mode = "delta" /\ st.catchups = {}

StatesInPlace == \A t \in 0..Len(issued) : InPlace(StateOf(t))

InLog(row, op, pos, part) == pos \in 1..position /\ journal[pos] = Entry(row, op, part)

\* No entry of the row at or below the label is newer than the entry at pos.
LabelFits(row, label, pos) ==
    /\ label <= position
    /\ \A p \in 1..position : journal[p].row = row /\ p <= label => p <= pos

\* A change is an entry of the log that nothing the page consumed supersedes.
ChangeFits(from, to, page, ch) ==
    /\ InLog(ch.row, ch.op, ch.pos, ch.part)
    /\ LabelFits(ch.row, ch.version, ch.pos)
    /\ ch.part \in to.access
    /\ head[ch.row].pos > ch.pos => head[ch.row].pos > Consumed(from)
    /\ \A e \in page : e.row = ch.row /\ e.version <= ch.version => e.pos <= ch.pos
    /\ \A p \in 1..position :
          journal[p] = Entry(ch.row, "delete", ch.part) /\ p > ch.pos
          => p > Consumed(to) \/ \E e \in page : e.row = ch.row /\ e.version > ch.version

\* The page of a step from one state to the next brings row r, unless the next
\* state has it ahead or the first state had not.
Brings(from, to, page, r) ==
    \/ Ahead(to, r)
    \/ \E ch \in page : ch.row = r /\ ch.pos = head[r].pos /\ ch.version >= head[r].pos
    \/ head[r].part \in from.access /\ ~Ahead(from, r)

BringsRows(from, to, page) ==
    \A r \in Rows : Current(r) /\ head[r].part \in to.access => Brings(from, to, page, r)

\* Journal positions a step consumes are on its page, where they are visible.
BringsEntries(from, to, page) ==
    \A p \in 1..position :
        p > Consumed(from) /\ p <= Consumed(to) /\ journal[p].part \in to.access
        => JournalChange(p) \in page

Delivers(from, to, page) ==
    /\ Consumed(from) <= Consumed(to)
    /\ from.access \ to.access \subseteq lapsed
    /\ \A ch \in page : ChangeFits(from, to, page, ch)
    /\ BringsRows(from, to, page)
    /\ BringsEntries(from, to, page)

RepliesDeliver ==
    \A m \in replies : /\ m.from \in 0..Len(issued) /\ m.from < m.token
                       /\ Delivers(StateOf(m.from), StateOf(m.token), m.page)

\* A copy is an entry of the log, under a label that fits it.
CopyFits(r, copy) ==
    /\ LabelFits(r, copy.label, copy.pos)
    /\ copy.op = "upsert" => InLog(r, "upsert", copy.pos, copy.part)

CopiesFit == \A d \in Devices, r \in Rows : CopyFits(r, cache[d][r])

\* The newest cursor of a copy has consumed the most.
HeldInOrder ==
    \A d \in Devices : \A t, u \in held[d] :
        IsNewest(u, d) => Consumed(StateOf(t)) <= Consumed(StateOf(u))

EveryCursorCovers == \A d \in Devices : \A t \in held[d] : Covered(StateOf(t), d)

\* A tombstone newer than the copy, in a partition never lost, is ahead.
RemovalAhead(st, r, copy) ==
    copy.op = "upsert" /\ copy.part \in st.access \ lapsed
    => \A p \in 1..position :
          journal[p] = Entry(r, "delete", copy.part) /\ p > copy.pos => p > Consumed(st)

RemovalsAhead ==
    \A d \in Devices, r \in Rows : \A t \in held[d] : RemovalAhead(StateOf(t), r, cache[d][r])

\* The newest cursor knows the partitions of the copy's rows.
PartsAreKnown ==
    \A d \in Devices, r \in Rows : \A u \in held[d] :
        IsNewest(u, d) /\ cache[d][r].op = "upsert" /\ cache[d][r].part \notin lapsed
        => cache[d][r].part \in StateOf(u).access

\* A closed registration left no tokens, and copies only of what may have changed.
ClosedIsEmpty ==
    ~reg.open =>
        /\ issued = <<>> /\ replies = {}
        /\ \A d \in Devices :
              /\ held[d] = {}
              /\ \A r \in Rows : cache[d][r].op = "upsert" => cache[d][r].part \in lapsed

DeviceInv ==
    /\ CopiesFit /\ HeldInOrder /\ EveryCursorCovers /\ RemovalsAhead /\ PartsAreKnown

SyncInv == IInv /\ LogInv /\ StatesInPlace /\ RepliesDeliver /\ DeviceInv /\ ClosedIsEmpty

------------------------------------------------------------------------------
(* The log by itself.                                                         *)

\* What every transaction does to the log: entries stay, and a head that changes
\* is newer than every entry there was.
LogGrows ==
    /\ position' \in Nat /\ position <= position'
    /\ \A p \in 1..position : journal'[p] = journal[p]
    /\ \A r \in Rows : head'[r] = head[r] \/ head'[r].pos > position

LEMMA EmitGrows ==
    ASSUME LogTypeOK, LogInv, NEW r \in Rows, NEW o \in Ops, NEW q \in Parts, Emit(r, o, q),
           IF o = "upsert" THEN ~Moves(r, q) ELSE Current(r) /\ q = head[r].part
    PROVE  LogGrows /\ LogInv'
<1>1. /\ position \in Nat /\ journal \in Seq(Entries) /\ head \in [Rows -> Heads]
      /\ Entry(r, o, q) \in Entries
  BY LogTypes DEF LogTypeOK, Entry, Entries
<1>2. /\ position' = position + 1 /\ journal'[position + 1] = Entry(r, o, q)
      /\ \A p \in 1..position : journal'[p] = journal[p]
  BY <1>1, AppendProperties DEF Emit, position
<1>3. /\ head'[r] = [op |-> o, pos |-> position + 1, part |-> q]
      /\ \A s \in Rows : s # r => head'[s] = head[s]
  BY <1>1 DEF Emit
<1>4. \A p \in 1..position' : p \in 1..position \/ p = position + 1
  BY <1>1, <1>2
<1>5. LogGrows
  BY <1>1, <1>2, <1>3 DEF LogGrows
<1>6. HeadsAreLatest'
  <2> SUFFICES ASSUME NEW s \in Rows
               PROVE  /\ head'[s].op = "none" => head'[s].pos = 0
                      /\ head'[s].op # "none" =>
                            /\ head'[s].pos \in 1..position'
                            /\ journal'[head'[s].pos] = Entry(s, head'[s].op, head'[s].part)
                      /\ \A p \in 1..position' : journal'[p].row = s => p <= head'[s].pos
    BY DEF HeadsAreLatest, Entry
  <2>1. CASE s = r
    BY <1>1, <1>2, <1>3, <1>4, <2>1 DEF Ops
  <2>2. CASE s # r
    <3>1. journal'[position + 1].row # s
      BY <1>2, <2>2 DEF Entry
    <3> QED
      BY <1>1, <1>2, <1>3, <1>4, <2>2, <3>1 DEF LogInv, HeadsAreLatest
  <2> QED
    BY <2>1, <2>2
<1>7. LeavingIsDeleted'
  <2> SUFFICES ASSUME NEW s \in Rows, NEW w \in Parts, NEW p \in 1..position',
                      journal'[p] = Entry(s, "upsert", w), ~InPartition(s, w)'
               PROVE  \E n \in 1..position' : p < n /\ journal'[n] = Entry(s, "delete", w)
    BY DEF LeavingIsDeleted, Entry
  <2>1. CASE p = position + 1
    <3>1. s = r /\ w = q /\ o = "upsert"
      BY <1>2, <2>1 DEF Entry
    <3> QED
      BY <1>3, <3>1 DEF InPartition, Current
  <2>2. CASE p \in 1..position /\ ~InPartition(s, w)
    <3>1. PICK n \in 1..position : p < n /\ journal[n] = Entry(s, "delete", w)
      BY <1>2, <2>2 DEF LogInv, LeavingIsDeleted
    <3> QED
      BY <1>1, <1>2, <3>1
  <2>3. CASE p \in 1..position /\ InPartition(s, w)
    <3>1. s = r
      BY <1>3, <2>3 DEF InPartition, Current
    <3>2. o = "delete" /\ w = q
      BY <1>3, <2>3, <3>1 DEF InPartition, Current, Moves, Ops
    <3> QED
      BY <1>1, <1>2, <2>3, <3>1, <3>2
  <2> QED
    BY <1>4, <2>1, <2>2, <2>3
<1> QED
  BY <1>5, <1>6, <1>7 DEF LogInv

LEMMA EmitMoveGrows ==
    ASSUME LogTypeOK, LogInv, NEW r \in Rows, NEW q \in Parts, EmitMove(r, q), Moves(r, q)
    PROVE  LogGrows /\ LogInv'
<1> DEFINE two == <<Entry(r, "delete", head[r].part), Entry(r, "upsert", q)>>
<1>1. /\ position \in Nat /\ journal \in Seq(Entries) /\ head \in [Rows -> Heads]
      /\ two \in Seq(Entries) /\ Len(two) = 2
  BY LogTypes DEF LogTypeOK, Entry, Entries, Ops
<1>2. /\ position' = position + 2
      /\ journal'[position + 1] = Entry(r, "delete", head[r].part)
      /\ journal'[position + 2] = Entry(r, "upsert", q)
      /\ \A p \in 1..position : journal'[p] = journal[p]
  <2>1. journal' = journal \o two
    BY DEF EmitMove
  <2>2. two[1] = Entry(r, "delete", head[r].part) /\ two[2] = Entry(r, "upsert", q)
    OBVIOUS
  <2> HIDE DEF two
  <2>3. /\ Len(journal \o two) = Len(journal) + 2
        /\ \A i \in 1..Len(journal) + 2 : (journal \o two)[i] =
              IF i <= Len(journal) THEN journal[i] ELSE two[i - Len(journal)]
    <3>1. \A i \in 1..Len(journal) + Len(two) : (journal \o two)[i] =
              IF i <= Len(journal) THEN journal[i] ELSE two[i - Len(journal)]
      BY <1>1, ConcatProperties
    <3>2. Len(journal \o two) = Len(journal) + Len(two)
      BY <1>1, ConcatProperties
    <3> QED
      BY <1>1, <3>1, <3>2
  <2>4. position' = position + 2
        /\ \A i \in 1..position + 2 : journal'[i] = IF i <= position THEN journal[i] ELSE two[i - position]
    BY <2>1, <2>3 DEF position
  <2>5. /\ position + 1 \in 1..position + 2 /\ ~(position + 1 <= position)
        /\ position + 2 \in 1..position + 2 /\ ~(position + 2 <= position)
        /\ position + 1 - position = 1 /\ position + 2 - position = 2
    BY <1>1
  <2>6. /\ journal'[position + 1] = two[position + 1 - position]
        /\ journal'[position + 2] = two[position + 2 - position]
    BY <1>1, <2>4
  <2>7. \A p \in 1..position : p \in 1..position + 2 /\ p <= position
    BY <1>1
  <2>8. \A p \in 1..position : journal'[p] = journal[p]
    BY <2>4, <2>7
  <2> QED
    BY <2>2, <2>4, <2>5, <2>6, <2>8
<1>3. /\ head'[r] = [op |-> "upsert", pos |-> position + 2, part |-> q]
      /\ \A s \in Rows : s # r => head'[s] = head[s]
  <2> DEFINE moved == [op |-> "upsert", pos |-> position + 2, part |-> q]
  <2>1. head' = [head EXCEPT ![r] = moved]
    BY DEF EmitMove
  <2> HIDE DEF moved
  <2>2. head'[r] = moved /\ \A s \in Rows : s # r => head'[s] = head[s]
    BY <1>1, <2>1
  <2> QED
    BY <2>2 DEF moved
<1> HIDE DEF two
<1>4. \A p \in 1..position' : p \in 1..position \/ p = position + 1 \/ p = position + 2
  BY <1>1, <1>2
<1>5. LogGrows
  BY <1>1, <1>2, <1>3 DEF LogGrows
<1>6. HeadsAreLatest'
  <2> SUFFICES ASSUME NEW s \in Rows
               PROVE  /\ head'[s].op = "none" => head'[s].pos = 0
                      /\ head'[s].op # "none" =>
                            /\ head'[s].pos \in 1..position'
                            /\ journal'[head'[s].pos] = Entry(s, head'[s].op, head'[s].part)
                      /\ \A p \in 1..position' : journal'[p].row = s => p <= head'[s].pos
    BY DEF HeadsAreLatest, Entry
  <2>1. CASE s = r
    BY <1>1, <1>2, <1>3, <1>4, <2>1
  <2>2. CASE s # r
    <3>1. journal'[position + 1].row # s /\ journal'[position + 2].row # s
      BY <1>2, <2>2 DEF Entry
    <3>2. /\ head'[s] = head[s]
          /\ head[s].op = "none" => head[s].pos = 0
          /\ head[s].op # "none" =>
                head[s].pos \in 1..position /\ journal[head[s].pos] = Entry(s, head[s].op, head[s].part)
          /\ \A p \in 1..position : journal[p].row = s => p <= head[s].pos
      BY <1>3, <2>2 DEF LogInv, HeadsAreLatest
    <3>3. \A p \in 1..position : p \in 1..position'
      BY <1>1, <1>2
    <3>4. \A p \in 1..position' : journal'[p].row = s => p <= head'[s].pos
      BY <1>2, <1>4, <3>1, <3>2
    <3> QED
      BY <1>2, <3>2, <3>3, <3>4
  <2> QED
    BY <2>1, <2>2
<1>7. LeavingIsDeleted'
  <2> SUFFICES ASSUME NEW s \in Rows, NEW w \in Parts, NEW p \in 1..position',
                      journal'[p] = Entry(s, "upsert", w), ~InPartition(s, w)'
               PROVE  \E n \in 1..position' : p < n /\ journal'[n] = Entry(s, "delete", w)
    BY DEF LeavingIsDeleted, Entry
  <2>1. CASE p = position + 1
    BY <1>2, <2>1 DEF Entry
  <2>2. CASE p = position + 2
    <3>1. s = r /\ w = q
      BY <1>2, <2>2 DEF Entry
    <3> QED
      BY <1>3, <3>1 DEF InPartition, Current
  <2>3. CASE p \in 1..position /\ ~InPartition(s, w)
    <3>1. PICK n \in 1..position : p < n /\ journal[n] = Entry(s, "delete", w)
      BY <1>2, <2>3 DEF LogInv, LeavingIsDeleted
    <3>2. n \in 1..position' /\ journal'[n] = journal[n]
      BY <1>1, <1>2
    <3> QED
      BY <3>1, <3>2
  <2>4. CASE p \in 1..position /\ InPartition(s, w)
    <3>1. s = r /\ w = head[r].part
      BY <1>3, <2>4 DEF InPartition, Current
    <3> QED
      BY <1>1, <1>2, <2>4, <3>1
  <2> QED
    BY <1>4, <2>1, <2>2, <2>3, <2>4
<1> QED
  BY <1>5, <1>6, <1>7 DEF LogInv

LEMMA SameLog ==
    ASSUME LogTypeOK, LogInv, journal' = journal, head' = head
    PROVE  LogGrows /\ LogInv'
<1>1. position' = position /\ position \in Nat
  BY LogTypes DEF position
<1> QED
  BY <1>1 DEF LogGrows, LogInv, HeadsAreLatest, LeavingIsDeleted, InPartition, Current, Entry

\* A transaction of the log grows it, and changes authority under a new revision.
LEMMA LogStepGrows ==
    ASSUME LogTypeOK, LogInv, LogNext
    PROVE  /\ LogGrows /\ LogInv'
           /\ accessRev <= accessRev' /\ (accessRev' = accessRev => readable' = readable)
<1>1. accessRev \in Nat
  BY LogTypes
<1>2. ASSUME NEW r \in Rows, NEW q \in Parts, WriteRow(r, q)
      PROVE  LogGrows /\ LogInv' /\ accessRev' = accessRev /\ readable' = readable
  BY <1>2, EmitGrows, EmitMoveGrows DEF WriteRow, Ops
<1>3. ASSUME NEW r \in Rows, DeleteRow(r)
      PROVE  LogGrows /\ LogInv' /\ accessRev' = accessRev /\ readable' = readable
  <2>1. head[r].part \in Parts /\ "delete" \in Ops /\ "delete" # "upsert"
    BY LogTypes DEF Ops
  <2> QED
    BY <1>3, <2>1, EmitGrows DEF DeleteRow
<1>4. ASSUME NEW A \in SUBSET Parts,
             ChangeAuthority(A) \/ LeaveWorkspace \/ JoinWorkspace(A) \/ RebindIdentity
      PROVE  LogGrows /\ LogInv' /\ accessRev' = accessRev + 1
  <2>1. journal' = journal /\ head' = head /\ accessRev' = accessRev + 1
    BY <1>4 DEF ChangeAuthority, LeaveWorkspace, JoinWorkspace, RebindIdentity
  <2> QED
    BY <2>1, SameLog
<1>5. ASSUME NEW p \in 1..position, PruneJournal(p)
      PROVE  LogGrows /\ LogInv' /\ accessRev' = accessRev /\ readable' = readable
  BY <1>5, SameLog DEF PruneJournal
<1>6. accessRev' = accessRev \/ accessRev' = accessRev + 1
  BY <1>2, <1>3, <1>4, <1>5 DEF LogNext
<1>7. LogGrows /\ LogInv'
  BY <1>2, <1>3, <1>4, <1>5 DEF LogNext
<1>8. accessRev' = accessRev => readable' = readable
  BY <1>1, <1>2, <1>3, <1>4, <1>5 DEF LogNext
<1> QED
  BY <1>1, <1>6, <1>7, <1>8

------------------------------------------------------------------------------
(* What the growth of the log leaves true.                                    *)

LEMMA GrowsAhead ==
    ASSUME LogTypeOK, LogTypeOK', LogGrows, NEW st \in States, Consumed(st) <= position, NEW r \in Rows
    PROVE  /\ head'[r] # head[r] => Ahead(st, r)' /\ head'[r].pos > Consumed(st)
           /\ head'[r] = head[r] => (Ahead(st, r)' <=> Ahead(st, r))
<1>1. Consumed(st) \in Nat /\ position \in Nat /\ head'[r].pos \in Nat
  <2>1. \A s \in Rows : head'[s].pos \in Nat
    BY DEF LogTypeOK, Heads
  <2> QED
    BY <2>1, ConsumedType, LogTypes
<1>2. head'[r] # head[r] => head'[r].pos > Consumed(st)
  BY <1>1 DEF LogGrows
<1>3. head'[r] # head[r] => Ahead(st, r)'
  BY <1>2 DEF Ahead, AheadInOrder, Consumed
<1>4. head'[r] = head[r] => (Ahead(st, r)' <=> Ahead(st, r))
  BY DEF Ahead, AheadInOrder, AheadInCatchup, Consumed
<1> QED
  BY <1>2, <1>3, <1>4

LEMMA GrowsLabel ==
    ASSUME LogTypeOK, LogGrows, NEW row, NEW label \in Nat, NEW pos \in Nat, LabelFits(row, label, pos)
    PROVE  LabelFits(row, label, pos)'
<1>1. position \in Nat /\ position' \in Nat /\ position <= position'
  BY LogTypes DEF LogGrows
<1>2. ASSUME NEW p \in 1..position', journal'[p].row = row, p <= label PROVE p <= pos
  <2>1. p \in 1..position
    BY <1>1, <1>2 DEF LabelFits
  <2> QED
    BY <1>2, <2>1 DEF LabelFits, LogGrows
<1>3. label <= position'
  BY <1>1 DEF LabelFits
<1> QED
  BY <1>2, <1>3 DEF LabelFits

LEMMA GrowsInLog ==
    ASSUME LogTypeOK, LogGrows, NEW row, NEW op, NEW pos, NEW part, InLog(row, op, pos, part)
    PROVE  InLog(row, op, pos, part)'
<1>1. position \in Nat /\ position' \in Nat /\ position <= position'
  BY LogTypes DEF LogGrows
<1> QED
  BY <1>1 DEF InLog, LogGrows, Entry

LEMMA GrowsCopy ==
    ASSUME LogTypeOK, LogGrows, NEW r \in Rows, NEW copy \in Copies, CopyFits(r, copy)
    PROVE  CopyFits(r, copy)'
<1>1. copy.label \in Nat /\ copy.pos \in Nat
  BY DEF Copies
<1> QED
  BY <1>1, GrowsLabel, GrowsInLog DEF CopyFits

LEMMA GrowsInPlace ==
    ASSUME LogTypeOK, LogTypeOK', LogGrows, NEW st \in States, InPlace(st),
           accessRev <= accessRev', accessRev' = accessRev => readable' = readable,
           reg'.open = reg.open, lapsed \subseteq lapsed', reg.open => readable \ readable' \subseteq lapsed'
    PROVE  InPlace(st)'
<1>1. /\ position \in Nat /\ position' \in Nat /\ position <= position'
      /\ accessRev \in Nat /\ accessRev' \in Nat
  BY LogTypes DEF LogTypeOK, LogGrows
<1>2. /\ st.boundary \in Nat /\ Consumed(st) \in Nat /\ st.accessRev \in Nat
      /\ st.target \in Int
  BY ConsumedType DEF States, NoTarget
<1>3. /\ st.boundary <= position' /\ Consumed(st) <= position' /\ st.target <= position'
      /\ st.accessRev <= accessRev'
  BY <1>1, <1>2 DEF InPlace
<1>4. st.accessRev = accessRev' => st.access = readable'
  BY <1>1, <1>2 DEF InPlace
<1>5. reg'.open => st.access \ readable' \subseteq lapsed'
  BY DEF InPlace
<1>6. /\ st.target # NoTarget => st.bounded /\ st.mode = "delta" /\ st.after <= st.target
      /\ st.targetComplete => st.bounded /\ st.mode = "delta" /\ st.catchups = {}
  BY DEF InPlace
<1>7. Consumed(st)' = Consumed(st)
  BY DEF Consumed
<1> QED
  BY <1>3, <1>4, <1>5, <1>6, <1>7 DEF InPlace

LEMMA GrowsRemoval ==
    ASSUME LogTypeOK, LogTypeOK', LogGrows, lapsed \subseteq lapsed',
           NEW st \in States, Consumed(st) <= position,
           NEW r \in Rows, NEW copy \in Copies, RemovalAhead(st, r, copy)
    PROVE  RemovalAhead(st, r, copy)'
<1>1. Consumed(st) \in Nat /\ position \in Nat /\ position' \in Nat /\ Consumed(st)' = Consumed(st)
  BY ConsumedType, LogTypes DEF LogGrows, Consumed
<1>2. SUFFICES ASSUME copy.op = "upsert", copy.part \in st.access \ lapsed',
                      NEW p \in 1..position', journal'[p] = Entry(r, "delete", copy.part), p > copy.pos
               PROVE  p > Consumed(st)
  BY <1>1 DEF RemovalAhead, Entry
<1>3. CASE p \in 1..position
  BY <1>2, <1>3 DEF RemovalAhead, LogGrows
<1>4. CASE p \notin 1..position
  BY <1>1, <1>4
<1> QED
  BY <1>3, <1>4

LEMMA GrowsCovered ==
    ASSUME LogTypeOK, LogTypeOK', LogGrows, NEW st \in States, Consumed(st) <= position,
           NEW d \in Devices, Covered(st, d), cache' = cache
    PROVE  Covered(st, d)'
<1> SUFFICES ASSUME NEW r \in Rows, Current(r)', head'[r].part \in st.access, ~Ahead(st, r)'
             PROVE  cache[d][r].pos >= head'[r].pos
  BY DEF Covered
<1>1. head'[r] = head[r] /\ ~Ahead(st, r)
  BY GrowsAhead
<1> QED
  BY <1>1 DEF Covered, Current

\* A page under way still brings what it has to.
LEMMA GrowsChange ==
    ASSUME LogTypeOK, LogTypeOK', LogGrows, NEW from \in States, NEW to \in States,
           Consumed(from) <= position, Consumed(to) <= position,
           NEW page \in SUBSET Changes, NEW ch \in page, ChangeFits(from, to, page, ch)
    PROVE  ChangeFits(from, to, page, ch)'
<1>1. /\ ch.row \in Rows /\ ch.version \in Nat /\ ch.pos \in Nat
      /\ Consumed(from) \in Nat /\ Consumed(to) \in Nat
      /\ position \in Nat /\ position' \in Nat
      /\ Consumed(from)' = Consumed(from) /\ Consumed(to)' = Consumed(to)
  BY ConsumedType, LogTypes DEF Changes, LogGrows, Consumed
<1>2. InLog(ch.row, ch.op, ch.pos, ch.part)'
  BY GrowsInLog DEF ChangeFits
<1>3. LabelFits(ch.row, ch.version, ch.pos)'
  BY <1>1, GrowsLabel DEF ChangeFits
<1>4. head'[ch.row].pos > ch.pos => head'[ch.row].pos > Consumed(from)
  BY <1>1, GrowsAhead DEF ChangeFits
<1>5. ASSUME NEW p \in 1..position', journal'[p] = Entry(ch.row, "delete", ch.part), p > ch.pos
      PROVE  p > Consumed(to) \/ \E e \in page : e.row = ch.row /\ e.version > ch.version
  <2>1. CASE p \in 1..position
    BY <1>5, <2>1 DEF ChangeFits, LogGrows
  <2>2. CASE p \notin 1..position
    BY <1>1, <2>2
  <2> QED
    BY <2>1, <2>2
<1>6. /\ ch.part \in to.access
      /\ \A e \in page : e.row = ch.row /\ e.version <= ch.version => e.pos <= ch.pos
  BY DEF ChangeFits
<1> QED
  BY <1>1, <1>2, <1>3, <1>4, <1>5, <1>6 DEF ChangeFits, Entry

LEMMA GrowsDelivers ==
    ASSUME LogTypeOK, LogTypeOK', LogGrows, lapsed \subseteq lapsed',
           NEW from \in States, NEW to \in States,
           Consumed(from) <= position, Consumed(to) <= position,
           NEW page \in SUBSET Changes, Delivers(from, to, page)
    PROVE  Delivers(from, to, page)'
<1>1. /\ Consumed(from) \in Nat /\ Consumed(to) \in Nat /\ position \in Nat /\ position' \in Nat
      /\ Consumed(from)' = Consumed(from) /\ Consumed(to)' = Consumed(to)
  BY ConsumedType, LogTypes DEF LogGrows, Consumed
<1>2. \A ch \in page : ChangeFits(from, to, page, ch)'
  BY GrowsChange DEF Delivers
<1>3. BringsRows(from, to, page)'
  <2> SUFFICES ASSUME NEW r \in Rows, Current(r)', head'[r].part \in to.access
               PROVE  Brings(from, to, page, r)'
    BY DEF BringsRows
  <2>1. CASE head'[r] # head[r]
    BY <2>1, GrowsAhead DEF Brings
  <2>2. CASE head'[r] = head[r]
    <3>1. Brings(from, to, page, r)
      BY <2>2 DEF Delivers, BringsRows, Current
    <3>2. (Ahead(to, r)' <=> Ahead(to, r)) /\ (Ahead(from, r)' <=> Ahead(from, r))
      BY <2>2, GrowsAhead
    <3> QED
      BY <2>2, <3>1, <3>2 DEF Brings
  <2> QED
    BY <2>1, <2>2
<1>4. BringsEntries(from, to, page)'
  <2> SUFFICES ASSUME NEW p \in 1..position', p > Consumed(from), p <= Consumed(to),
                      journal'[p].part \in to.access
               PROVE  JournalChange(p)' \in page
    BY <1>1 DEF BringsEntries
  <2>1. p \in 1..position
    BY <1>1
  <2>2. journal'[p] = journal[p]
    BY <2>1 DEF LogGrows
  <2>3. JournalChange(p) \in page
    BY <2>1, <2>2 DEF Delivers, BringsEntries
  <2> QED
    BY <2>2, <2>3 DEF JournalChange
<1> QED
  BY <1>1, <1>2, <1>3, <1>4 DEF Delivers

------------------------------------------------------------------------------
(* What a page read brings.                                                   *)

\* A scan that stopped early left what is larger than all it took.
LEMMA SegmentMax ==
    ASSUME NEW scan \in SUBSET Nat, IsFiniteSet(scan), NEW n, NEW S, InitialSegment(S, scan, n),
           NEW d \in Nat, \A x \in scan : x > d
    PROVE  /\ MaxOf(S, d) \in Nat /\ d <= MaxOf(S, d) /\ MaxOf(S, d) \in scan \cup {d}
           /\ \A y \in scan : y <= MaxOf(S, d) <=> y \in S
<1>1. S \in SUBSET scan /\ S \in SUBSET Nat /\ IsFiniteSet(S)
  BY FS_Subset DEF InitialSegment
<1>2. MaxOf(S, d) \in Nat /\ (S # {} => MaxOf(S, d) \in S /\ \A y \in S : y <= MaxOf(S, d))
  BY <1>1, MaxOfFinite
<1>3. CASE S = {}
  <2>1. MaxOf(S, d) = d
    BY <1>3 DEF MaxOf
  <2> QED
    BY <1>3, <2>1
<1>4. CASE S # {}
  <2>1. MaxOf(S, d) \in scan /\ d <= MaxOf(S, d)
    BY <1>1, <1>2, <1>4
  <2>2. \A y \in scan : y \notin S => MaxOf(S, d) < y
    BY <1>2, <1>4 DEF InitialSegment
  <2> HIDE DEF MaxOf
  <2>3. \A y \in scan : y <= MaxOf(S, d) => y \in S
    BY <1>2, <2>2
  <2>4. \A y \in S : y <= MaxOf(S, d)
    BY <1>2, <1>4
  <2> QED
    BY <1>2, <2>1, <2>3, <2>4
<1> QED
  BY <1>3, <1>4

\* What the opening of a page, and the draining of its notifications, leave as
\* it was, and the rows that are ahead because a partition was regained.
OpenedFrom(st, bounded, next) ==
    /\ next \in States
    /\ next.mode = st.mode /\ next.boundary = st.boundary /\ next.after = st.after /\ next.id = st.id
    /\ next.access = readable /\ next.accessRev = accessRev
    /\ next.target <= position
    /\ next.target # NoTarget => next.bounded /\ next.mode = "delta" /\ next.after <= next.target
    /\ bounded => next.bounded /\ (st.mode = "delta" => next.target # NoTarget)
    /\ ~bounded => ~next.targetComplete /\ next.target = NoTarget
    /\ \A r \in Rows : Current(r) /\ head[r].part \in readable
                       => Ahead(next, r) \/ (head[r].part \in st.access /\ ~Ahead(st, r))

\* Observing the authority queues what the gained partitions hold.
LEMMA ObserveQueues ==
    ASSUME LogTypeOK, NEW st \in States, InPlace(st), NEW r \in Rows,
           Current(r), head[r].part \in readable,
           ~(head[r].part \in st.access /\ ~Ahead(st, r))
    PROVE  Ahead(ObserveAccess(st), r)
<1>1. CASE st.accessRev = accessRev
  BY <1>1 DEF ObserveAccess, InPlace
<1>2. CASE st.accessRev # accessRev
  <2> DEFINE next == ObserveAccess(st)
  <2>1. /\ next.mode = st.mode /\ next.boundary = st.boundary /\ next.after = st.after /\ next.id = st.id
        /\ next.catchups = {c \in st.catchups : c.key \in readable} \cup NewCatchups(st)
    BY <1>2 DEF ObserveAccess, States
  <2> HIDE DEF next
  <2>2. CASE Ahead(st, r)
    BY <2>1, <2>2 DEF Ahead, AheadInOrder, AheadInCatchup, Consumed, next
  <2>3. CASE head[r].part \notin st.access
    <3>1. r \in Nat /\ r > 0 /\ Consumed(st) \in Nat /\ head[r].pos \in Nat
      BY RowsAssumption, ConsumedType, LogTypes
    <3>2. CASE head[r].pos > Consumed(st)
      BY <2>1, <3>2 DEF Ahead, AheadInOrder, Consumed, next
    <3>3. CASE head[r].pos <= Consumed(st)
      <4> DEFINE c == [key |-> head[r].part, cutoff |-> Consumed(st), id |-> 0]
      <4>1. HasHistory(head[r].part, Consumed(st)) /\ head[r].part \in Gains(st)
        BY <2>3, <3>3 DEF HasHistory, InPartition, Gains
      <4>2. c \in NewCatchups(st)
        BY <4>1 DEF NewCatchups
      <4> QED
        BY <2>1, <3>1, <3>3, <4>2 DEF Ahead, AheadInCatchup, next
    <3> QED
      BY <3>1, <3>2, <3>3
  <2> QED
    BY <2>2, <2>3
<1> QED
  BY <1>1, <1>2

\* Only the order and the catchups of a state say what is ahead of it.
LEMMA AheadByPlace ==
    ASSUME NEW st, NEW next, next.mode = st.mode, next.boundary = st.boundary,
           next.after = st.after, next.id = st.id, next.catchups = st.catchups, NEW r
    PROVE  Ahead(next, r) <=> Ahead(st, r)
BY DEF Ahead, AheadInOrder, AheadInCatchup, Consumed

LEMMA OpenedFacts ==
    ASSUME LogTypeOK, NEW st \in States, InPlace(st), NEW bounded \in BOOLEAN, st.bounded => bounded
    PROVE  OpenedFrom(st, bounded, Opened(st, bounded))
<1> DEFINE next == ObserveAccess(st)
           opened == Opened(st, bounded)
<1>1. /\ next \in States
      /\ next.mode = st.mode /\ next.boundary = st.boundary /\ next.after = st.after /\ next.id = st.id
      /\ next.access = readable /\ next.accessRev = accessRev
      /\ next.target = st.target /\ next.targetComplete = st.targetComplete /\ next.bounded = st.bounded
  <2>1. next \in States
    BY ObserveAccessType
  <2> QED
    BY <2>1 DEF ObserveAccess, InPlace, States
<1>2. \A r \in Rows : Current(r) /\ head[r].part \in readable
                       => Ahead(next, r) \/ (head[r].part \in st.access /\ ~Ahead(st, r))
  BY ObserveQueues
<1>3. opened \in States
  BY OpenedType
<1>4. /\ position \in Nat /\ st.after \in Nat /\ st.target \in Int /\ st.mode \in {"snapshot", "delta"}
      /\ st.bounded \in BOOLEAN /\ st.targetComplete \in BOOLEAN
  BY LogTypes DEF States, NoTarget
<1> HIDE DEF next
<1>5. CASE ~bounded
  <2>1. opened = next
    BY <1>5 DEF Opened, next
  <2> QED
    BY <1>1, <1>2, <1>4, <1>5, <2>1 DEF OpenedFrom, InPlace
<1>6. CASE bounded /\ st.mode # "delta"
  <2>1. opened = [next EXCEPT !.bounded = TRUE]
    BY <1>6 DEF Opened, PinTarget, next
  <2>2. /\ opened.mode = st.mode /\ opened.boundary = st.boundary /\ opened.after = st.after /\ opened.id = st.id
        /\ opened.access = readable /\ opened.accessRev = accessRev
        /\ opened.target = st.target /\ opened.bounded = TRUE /\ opened.catchups = next.catchups
    BY <1>1, <2>1 DEF States
  <2> HIDE DEF opened
  <2>3. \A r \in Rows : Ahead(opened, r) <=> Ahead(next, r)
    BY <1>1, <2>2, AheadByPlace
  <2> QED
    BY <1>2, <1>3, <1>4, <1>6, <2>2, <2>3 DEF OpenedFrom, InPlace, opened
<1>7. CASE bounded /\ st.mode = "delta"
  <2> DEFINE pinned == IF st.target = NoTarget \/ st.targetComplete THEN position ELSE st.target
             target == IF Gains(st) # {} /\ position > pinned THEN position ELSE pinned
  <2>1. opened = [[next EXCEPT !.target = target, !.targetComplete = FALSE] EXCEPT !.bounded = TRUE]
    BY <1>7 DEF Opened, PinTarget, next
  <2>2. target \in Nat /\ target <= position /\ st.after <= target
    <3>1. st.after <= position /\ st.target <= position /\ (st.target # NoTarget => st.after <= st.target)
      BY <1>7 DEF InPlace, Consumed
    <3>2. pinned \in Nat /\ pinned <= position /\ st.after <= pinned
      BY <1>4, <3>1 DEF NoTarget
    <3> HIDE DEF pinned
    <3> QED
      BY <1>4, <3>1, <3>2
  <2> HIDE DEF target
  <2>3. /\ opened.mode = st.mode /\ opened.boundary = st.boundary /\ opened.after = st.after /\ opened.id = st.id
        /\ opened.access = readable /\ opened.accessRev = accessRev
        /\ opened.target = target /\ opened.bounded = TRUE /\ opened.catchups = next.catchups
    BY <1>1, <2>1 DEF States
  <2> HIDE DEF opened
  <2>4. \A r \in Rows : Ahead(opened, r) <=> Ahead(next, r)
    BY <1>1, <2>3, AheadByPlace
  <2>5. target # NoTarget
    BY <2>2 DEF NoTarget
  <2> QED
    BY <1>2, <1>3, <1>7, <2>2, <2>3, <2>4, <2>5 DEF OpenedFrom, opened
<1> QED
  BY <1>4, <1>5, <1>6, <1>7

LEMMA DrainedFacts ==
    ASSUME NEW st, NEW bounded, NEW next, OpenedFrom(st, bounded, next), NEW D
    PROVE  /\ OpenedFrom(st, bounded, [next EXCEPT !.changes = @ \ D])
           /\ [next EXCEPT !.changes = @ \ D].catchups = next.catchups
           /\ [next EXCEPT !.changes = @ \ D].target = next.target
<1> DEFINE left == [next EXCEPT !.changes = @ \ D]
<1>1. /\ left \in States
      /\ left.mode = next.mode /\ left.boundary = next.boundary /\ left.after = next.after
      /\ left.id = next.id /\ left.access = next.access /\ left.accessRev = next.accessRev
      /\ left.target = next.target /\ left.targetComplete = next.targetComplete
      /\ left.bounded = next.bounded /\ left.catchups = next.catchups
  BY DEF OpenedFrom, States
<1> HIDE DEF left
<1>2. \A r \in Rows : Ahead(left, r) <=> Ahead(next, r)
  BY <1>1, AheadByPlace
<1>3. OpenedFrom(st, bounded, left)
  BY <1>1, <1>2 DEF OpenedFrom
<1> QED
  BY <1>1, <1>3 DEF left

\* A page of current rows: each is shown as its head, the latest entry it has.
LEMMA RowPageFits ==
    ASSUME LogTypeOK, LogInv, NEW V \in SUBSET Rows, \A r \in V : Current(r) /\ head[r].part \in readable,
           NEW v \in [Rows -> Nat], \A r \in V : v[r] <= position,
           NEW from, NEW to, to.access = readable, Consumed(to) <= position,
           NEW page, page = {RowChange(r, v[r]) : r \in V}
    PROVE  \A ch \in page : ChangeFits(from, to, page, ch)
<1> SUFFICES ASSUME NEW r \in V, NEW ch, ch = RowChange(r, v[r]) PROVE ChangeFits(from, to, page, ch)
  OBVIOUS
<1>1. /\ ch.row = r /\ ch.op = "upsert" /\ ch.part = head[r].part /\ ch.version = v[r]
      /\ ch.pos = head[r].pos
  BY DEF RowChange
<1>2. /\ head[r].op = "upsert" /\ head[r].part \in readable /\ r \in Rows
      /\ head[r].pos \in 1..position /\ journal[head[r].pos] = Entry(r, "upsert", head[r].part)
      /\ \A p \in 1..position : journal[p].row = r => p <= head[r].pos
  BY DEF Current, LogInv, HeadsAreLatest
<1>3. position \in Nat /\ head[r].pos \in Nat
  BY <1>2, LogTypes
<1>4. LabelFits(ch.row, ch.version, ch.pos)
  BY <1>1, <1>2 DEF LabelFits
<1>5. InLog(ch.row, ch.op, ch.pos, ch.part)
  BY <1>1, <1>2 DEF InLog
<1>6. \A e \in page : e.row = ch.row => e.pos <= ch.pos
  <2> SUFFICES ASSUME NEW s \in V, RowChange(s, v[s]).row = ch.row PROVE RowChange(s, v[s]).pos <= ch.pos
    OBVIOUS
  <2> QED
    BY <1>1, <1>3 DEF RowChange
<1>7. ~(head[ch.row].pos > ch.pos)
  BY <1>1, <1>3
<1>8. ASSUME NEW p \in 1..position, journal[p] = Entry(ch.row, "delete", ch.part), p > ch.pos PROVE FALSE
  <2>1. journal[p].row = r
    BY <1>1, <1>8 DEF Entry
  <2>2. p <= head[r].pos
    BY <1>2, <2>1
  <2> QED
    BY <1>1, <1>3, <1>8, <2>2
<1> QED
  BY <1>1, <1>2, <1>4, <1>5, <1>6, <1>7, <1>8 DEF ChangeFits

\* A state that a page may close.
Settled(next, bounded) ==
    /\ next \in States /\ next.access = readable /\ next.accessRev = accessRev
    /\ next.boundary <= position /\ Consumed(next) <= position /\ next.target <= position
    /\ next.target # NoTarget => next.bounded /\ next.mode = "delta" /\ next.after <= next.target
    /\ IF bounded THEN next.bounded ELSE ~next.targetComplete

\* A closed page: the state after it is in its place, and is ahead as the place
\* of the state it closes says.
LEMMA ClosedFacts ==
    ASSUME LogTypeOK, NEW st \in States, NEW next, NEW bounded \in BOOLEAN, NEW more \in BOOLEAN,
           Settled(next, bounded), NEW to, to = Closed(st, next, bounded, more)
    PROVE  /\ InPlace(to) /\ to.access = readable /\ Consumed(to) = Consumed(next)
           /\ to.mode = next.mode /\ to.id = next.id /\ to.catchups = next.catchups
           /\ \A r \in Rows : Ahead(to, r) <=> Ahead(next, r)
<1>1. /\ to.mode = next.mode /\ to.boundary = next.boundary /\ to.after = next.after /\ to.id = next.id
      /\ to.access = next.access /\ to.accessRev = next.accessRev /\ to.catchups = next.catchups
      /\ to.target = next.target /\ to.bounded = next.bounded
      /\ to.targetComplete = IF bounded THEN Certified(st, next, more) ELSE next.targetComplete
  BY DEF Closed, States, Settled
<1>2. to.targetComplete => to.bounded /\ to.mode = "delta" /\ to.catchups = {}
  BY <1>1 DEF Certified, Settled
<1>3. Consumed(to) = Consumed(next)
  BY <1>1 DEF Consumed
<1>4. \A r \in Rows : Ahead(to, r) <=> Ahead(next, r)
  BY <1>1, AheadByPlace
<1>5. to.access \ readable \subseteq lapsed
  BY <1>1 DEF Settled
<1>6. to.accessRev <= accessRev /\ accessRev \in Nat
  BY <1>1, LogTypes DEF Settled
<1> QED
  BY <1>1, <1>2, <1>3, <1>4, <1>5, <1>6 DEF InPlace, Settled

\* A step whose page is of rows and that consumes no journal position.
LEMMA RowStepDelivers ==
    ASSUME NEW st, InPlace(st), reg.open, NEW to, NEW page,
           to.access = readable, Consumed(to) = Consumed(st), Consumed(st) \in Nat,
           \A ch \in page : ChangeFits(st, to, page, ch), BringsRows(st, to, page)
    PROVE  Delivers(st, to, page)
<1>1. \A p \in 1..position : ~(p > Consumed(st) /\ p <= Consumed(to))
  <2>1. \A p \in 1..position : p \in Int
    OBVIOUS
  <2> QED
    BY <2>1
<1> QED
  BY <1>1 DEF Delivers, BringsEntries, InPlace

LEMMA CatchupDelivers ==
    ASSUME LogTypeOK, LogInv, NEW st \in States, InPlace(st), reg.open, NEW bounded \in BOOLEAN,
           NEW next, OpenedFrom(st, bounded, next), NEW c \in next.catchups,
           NEW S, NEW n, InitialSegment(S, CatchupScan(c), n),
           NEW after, after = AfterCatchup(next, c, S, CatchupScan(c)),
           NEW more \in BOOLEAN, NEW to, to = Closed(st, after, bounded, more),
           NEW page, page = {RowChange(r, head[r].pos) : r \in VisibleRows(S)}
    PROVE  InPlace(to) /\ Delivers(st, to, page)
<1> DEFINE scan == CatchupScan(c)
           left == [c EXCEPT !.id = MaxOf(S, c.id)]
<1>1. /\ next \in States /\ c \in Catchups /\ c.id \in Nat
      /\ scan \in SUBSET Rows /\ scan \in SUBSET Nat /\ IsFiniteSet(scan) /\ S \subseteq scan
      /\ IsFiniteSet(S) /\ \A x \in scan : x > c.id
  <2>1. scan \in SUBSET Rows /\ IsFiniteSet(scan)
    BY ScanTypes
  <2>2. next \in States
    BY DEF OpenedFrom
  <2>3. c \in Catchups /\ c.id \in Nat
    BY <2>2 DEF States, Catchups
  <2> QED
    BY <2>1, <2>2, <2>3, RowsAssumption, FS_Subset DEF InitialSegment, CatchupScan
<1>2. /\ MaxOf(S, c.id) \in Nat
      /\ \A y \in scan : y <= MaxOf(S, c.id) <=> y \in S
  BY <1>1, SegmentMax
<1>3. after \in States
  BY <1>1, AfterCatchupType
<1>4. /\ after.mode = next.mode /\ after.boundary = next.boundary /\ after.after = next.after
      /\ after.id = next.id /\ after.access = next.access /\ after.accessRev = next.accessRev
      /\ after.target = next.target /\ after.bounded = next.bounded
      /\ after.targetComplete = next.targetComplete
      /\ after.catchups = (next.catchups \ {c}) \cup (IF S = scan THEN {} ELSE {left})
  BY <1>1 DEF AfterCatchup, States
<1>5. left.key = c.key /\ left.cutoff = c.cutoff /\ left.id = MaxOf(S, c.id)
  BY <1>1 DEF Catchups
<1> HIDE DEF left
<1>6. /\ next.mode = st.mode /\ next.boundary = st.boundary /\ next.after = st.after
      /\ Consumed(after) = Consumed(st) /\ Consumed(next) = Consumed(st)
  BY <1>4 DEF OpenedFrom, Consumed
<1>7. /\ InPlace(to) /\ to.access = readable /\ Consumed(to) = Consumed(st)
      /\ \A r \in Rows : Ahead(to, r) <=> Ahead(after, r)
  <2>1. Settled(after, bounded)
    BY <1>3, <1>4, <1>6 DEF OpenedFrom, InPlace, Settled
  <2>2. /\ InPlace(to) /\ to.access = readable /\ Consumed(to) = Consumed(after)
        /\ \A r \in Rows : Ahead(to, r) <=> Ahead(after, r)
    BY <2>1, ClosedFacts
  <2> QED
    BY <1>6, <2>2
<1>8. \A ch \in page : ChangeFits(st, to, page, ch)
  <2> DEFINE v == [r \in Rows |-> head[r].pos]
  <2>1. v \in [Rows -> Nat]
    BY LogTypes
  <2>2. VisibleRows(S) \in SUBSET Rows
        /\ \A r \in VisibleRows(S) : Current(r) /\ head[r].part \in readable /\ v[r] <= position
    <3>1. \A r \in S : r \in Rows /\ Current(r)
      BY <1>1 DEF CatchupScan, InPartition
    <3>2. \A r \in Rows : Current(r) => head[r].pos <= position
      BY LogTypes DEF LogInv, HeadsAreLatest, Current
    <3> QED
      BY <3>1, <3>2 DEF VisibleRows
  <2>3. page = {RowChange(r, v[r]) : r \in VisibleRows(S)}
    BY <2>2
  <2>4. Consumed(to) <= position
    BY <1>7 DEF InPlace
  <2> HIDE DEF v
  <2> QED
    BY <1>7, <2>1, <2>2, <2>3, <2>4, RowPageFits
<1>9. BringsRows(st, to, page)
  <2> SUFFICES ASSUME NEW r \in Rows, Current(r), head[r].part \in readable,
                      Ahead(next, r), ~Ahead(after, r)
               PROVE  \E ch \in page : ch.row = r /\ ch.pos = head[r].pos /\ ch.version >= head[r].pos
    BY <1>7 DEF BringsRows, Brings, OpenedFrom
  <2>1. ~AheadInOrder(next, r)
    BY <1>4, <1>6 DEF Ahead, AheadInOrder
  <2>2. PICK b \in next.catchups : b.key = head[r].part /\ r > b.id /\ head[r].pos <= b.cutoff
    BY <2>1 DEF Ahead, AheadInCatchup
  <2>3. b \notin after.catchups
    BY <2>2 DEF Ahead, AheadInCatchup
  <2>4. b = c
    BY <1>4, <2>3
  <2>5. r \in scan
    BY <2>2, <2>4 DEF CatchupScan, InPartition
  <2>6. r \in S
    <3> SUFFICES ASSUME r \notin S PROVE FALSE
      OBVIOUS
    <3>1. left \in after.catchups
      BY <1>4, <2>5
    <3>2. r > left.id /\ head[r].pos <= left.cutoff /\ left.key = head[r].part
      BY <1>1, <1>2, <1>5, <2>2, <2>4, <2>5
    <3> QED
      BY <3>1, <3>2 DEF Ahead, AheadInCatchup
  <2>7. RowChange(r, head[r].pos) \in page
    BY <2>6 DEF VisibleRows
  <2>8. head[r].pos \in Nat
    BY LogTypes
  <2>9. /\ RowChange(r, head[r].pos).row = r /\ RowChange(r, head[r].pos).pos = head[r].pos
        /\ RowChange(r, head[r].pos).version >= head[r].pos
    BY <2>8 DEF RowChange
  <2> QED
    BY <2>7, <2>9
<1> QED
  BY <1>7, <1>8, <1>9, RowStepDelivers, ConsumedType

LEMMA SnapshotDelivers ==
    ASSUME LogTypeOK, LogInv, NEW st \in States, InPlace(st), reg.open, NEW bounded \in BOOLEAN,
           NEW next, OpenedFrom(st, bounded, next), st.mode = "snapshot", next.catchups = {},
           NEW S, NEW n, InitialSegment(S, SnapshotScan(st, bounded), n),
           NEW after, after = AfterSnapshot(st, next, bounded, S, SnapshotScan(st, bounded)),
           NEW more \in BOOLEAN, NEW to, to = Closed(st, after, bounded, more),
           NEW page, page = {RowChange(r, st.boundary) : r \in VisibleRows(S)}
    PROVE  InPlace(to) /\ Delivers(st, to, page)
<1> DEFINE scan == SnapshotScan(st, bounded)
<1>1. /\ next \in States /\ st.id \in Nat /\ st.boundary \in Nat /\ position \in Nat
      /\ scan \in SUBSET Rows /\ scan \in SUBSET Nat /\ IsFiniteSet(scan) /\ S \subseteq scan
      /\ IsFiniteSet(S) /\ \A x \in scan : x > st.id
  <2>1. scan \in SUBSET Rows /\ IsFiniteSet(scan)
    BY ScanTypes
  <2>2. next \in States
    BY DEF OpenedFrom
  <2>3. st.id \in Nat /\ st.boundary \in Nat /\ position \in Nat
    BY LogTypes DEF States
  <2> QED
    BY <2>1, <2>2, <2>3, RowsAssumption, FS_Subset DEF InitialSegment, SnapshotScan
<1>2. /\ MaxOf(S, st.id) \in Nat
      /\ \A y \in scan : y <= MaxOf(S, st.id) <=> y \in S
  BY <1>1, SegmentMax
<1>3. after \in States
  BY <1>1, AfterSnapshotType
<1>4. /\ after.boundary = st.boundary /\ after.id = MaxOf(S, st.id)
      /\ after.access = next.access /\ after.accessRev = next.accessRev
      /\ after.bounded = next.bounded /\ after.catchups = {}
  BY <1>1 DEF AfterSnapshot, States, OpenedFrom
<1>5. S # scan => /\ after.mode = "snapshot" /\ after.after = next.after /\ after.target = next.target
                  /\ after.targetComplete = next.targetComplete
  BY <1>1 DEF AfterSnapshot, States, OpenedFrom
<1>6. S = scan => /\ after.mode = "delta" /\ after.after = st.boundary /\ after.targetComplete = FALSE
                  /\ after.target = IF bounded THEN position ELSE next.target
  BY <1>1 DEF AfterSnapshot, States
<1>7. /\ next.mode = "snapshot" /\ next.boundary = st.boundary /\ next.id = st.id
      /\ next.target = NoTarget
  <2>1. next.target = NoTarget
    BY DEF OpenedFrom
  <2> QED
    BY <2>1 DEF OpenedFrom
<1>8. Consumed(after) = st.boundary /\ Consumed(st) = st.boundary /\ Consumed(next) = st.boundary
  BY <1>4, <1>5, <1>6, <1>7 DEF Consumed
<1>9. /\ InPlace(to) /\ to.access = readable /\ Consumed(to) = Consumed(st)
      /\ \A r \in Rows : Ahead(to, r) <=> Ahead(after, r)
  <2>1. st.boundary <= position
    BY DEF InPlace
  <2>2. /\ after.access = readable /\ after.accessRev = accessRev
        /\ after.boundary <= position /\ Consumed(after) <= position
        /\ bounded => after.bounded
    BY <1>4, <1>8, <2>1 DEF OpenedFrom
  <2>3. /\ after.target <= position
        /\ after.target # NoTarget => after.bounded /\ after.mode = "delta" /\ after.after <= after.target
        /\ ~bounded => ~after.targetComplete
    BY <1>1, <1>5, <1>6, <1>7, <2>1, <2>2 DEF OpenedFrom, NoTarget
  <2>4. Settled(after, bounded)
    BY <1>3, <2>2, <2>3 DEF Settled
  <2> QED
    BY <1>8, <2>4, ClosedFacts
<1>10. \A ch \in page : ChangeFits(st, to, page, ch)
  <2> DEFINE v == [r \in Rows |-> st.boundary]
  <2>1. v \in [Rows -> Nat]
    BY <1>1
  <2>2. VisibleRows(S) \in SUBSET Rows
        /\ \A r \in VisibleRows(S) : Current(r) /\ head[r].part \in readable /\ v[r] <= position
    <3>1. \A r \in S : r \in Rows /\ Current(r)
      BY <1>1 DEF SnapshotScan
    <3> QED
      BY <3>1 DEF VisibleRows, InPlace
  <2>3. page = {RowChange(r, v[r]) : r \in VisibleRows(S)}
    BY <2>2
  <2>4. Consumed(to) <= position
    BY <1>9 DEF InPlace
  <2> HIDE DEF v
  <2> QED
    BY <1>9, <2>1, <2>2, <2>3, <2>4, RowPageFits
<1>11. BringsRows(st, to, page)
  <2> SUFFICES ASSUME NEW r \in Rows, Current(r), head[r].part \in readable,
                      Ahead(next, r), ~Ahead(after, r)
               PROVE  \E ch \in page : ch.row = r /\ ch.pos = head[r].pos /\ ch.version >= head[r].pos
    BY <1>9 DEF BringsRows, Brings, OpenedFrom
  <2>1. head[r].pos \in Nat /\ r \in Nat
    BY LogTypes, RowsAssumption
  <2>2. head[r].pos <= st.boundary
    BY <1>1, <1>8, <2>1 DEF Ahead, AheadInOrder
  <2>3. r > st.id
    BY <1>1, <1>7, <1>8, <2>1, <2>2 DEF Ahead, AheadInOrder, AheadInCatchup
  <2>4. r \in scan
    BY <2>2, <2>3 DEF SnapshotScan
  <2>5. r \in S
    <3>1. S # scan => r <= after.id
      BY <1>2, <1>4, <1>5, <2>1 DEF Ahead, AheadInOrder
    <3> QED
      BY <1>2, <1>4, <2>4, <3>1
  <2>6. RowChange(r, st.boundary) \in page
    BY <2>5 DEF VisibleRows
  <2>7. /\ RowChange(r, st.boundary).row = r /\ RowChange(r, st.boundary).pos = head[r].pos
        /\ RowChange(r, st.boundary).version >= head[r].pos
    BY <1>1, <2>1, <2>2 DEF RowChange
  <2> QED
    BY <2>6, <2>7
<1> QED
  BY <1>9, <1>10, <1>11, RowStepDelivers, ConsumedType

LEMMA DeltaDelivers ==
    ASSUME LogTypeOK, LogInv, NEW st \in States, InPlace(st), HistoryRetained(st), reg.open,
           NEW bounded \in BOOLEAN,
           NEW next, OpenedFrom(st, bounded, next), st.mode = "delta", next.catchups = {},
           NEW scan, scan = DeltaScan(st, bounded, next.target),
           NEW S, NEW n, InitialSegment(S, scan, n),
           NEW after, after = AfterDelta(st, next, bounded, S, scan),
           NEW more \in BOOLEAN, NEW to, to = Closed(st, after, bounded, more),
           NEW page, page = {JournalChange(p) : p \in VisibleEntries(S)}
    PROVE  InPlace(to) /\ Delivers(st, to, page)
<1>1. /\ next \in States /\ st.after \in Nat /\ position \in Nat /\ floor \in Nat
      /\ next.mode = "delta" /\ next.after = st.after /\ next.boundary = st.boundary
      /\ next.access = readable /\ next.accessRev = accessRev /\ next.target <= position
      /\ bounded => next.bounded /\ next.target \in Nat /\ st.after <= next.target
      /\ ~bounded => ~next.targetComplete
      /\ st.after <= position /\ floor <= st.after /\ Consumed(st) = st.after
  BY LogTypes DEF OpenedFrom, States, InPlace, Consumed, HistoryRetained
<1>2. \A p \in 1..position : p \in scan <=> p > st.after /\ (bounded => p <= next.target)
  BY <1>1 DEF DeltaScan
<1>3. /\ scan \in SUBSET (1..position) /\ scan \in SUBSET Nat /\ IsFiniteSet(scan) /\ S \subseteq scan
      /\ IsFiniteSet(S) /\ \A x \in scan : x > st.after
  <2>1. scan \in SUBSET (1..position) /\ IsFiniteSet(scan)
    BY ScanTypes
  <2>2. \A x \in scan : x > st.after
    BY DEF DeltaScan
  <2>3. S \subseteq scan
    BY DEF InitialSegment
  <2>4. IsFiniteSet(S)
    BY <2>1, <2>3, FS_Subset
  <2>5. scan \in SUBSET Nat
    BY <1>1, <2>1
  <2> QED
    BY <2>1, <2>2, <2>3, <2>4, <2>5
<1>4. /\ MaxOf(S, st.after) \in Nat /\ st.after <= MaxOf(S, st.after)
      /\ MaxOf(S, st.after) \in scan \cup {st.after}
      /\ \A y \in scan : y <= MaxOf(S, st.after) <=> y \in S
  BY <1>1, <1>3, SegmentMax
<1>5. after \in States
  BY <1>1, <1>3, AfterDeltaType
<1>6. /\ after.mode = "delta" /\ after.boundary = st.boundary /\ after.catchups = {}
      /\ after.access = readable /\ after.accessRev = accessRev /\ after.bounded = next.bounded
      /\ after.target = next.target /\ after.targetComplete = next.targetComplete
      /\ after.after = IF bounded /\ S = scan THEN next.target ELSE MaxOf(S, st.after)
  BY <1>1 DEF AfterDelta, States
<1>7. /\ st.after <= after.after /\ after.after <= position /\ (bounded => after.after <= next.target)
      /\ after.after \in Nat
  <2>1. MaxOf(S, st.after) <= position /\ (bounded => MaxOf(S, st.after) <= next.target)
    BY <1>1, <1>2, <1>3, <1>4
  <2> HIDE DEF MaxOf
  <2> QED
    BY <1>1, <1>4, <1>6, <2>1
\* What is consumed was scanned.
<1>8. \A p \in 1..position : p > st.after /\ p <= after.after => p \in S
  <2> SUFFICES ASSUME NEW p \in 1..position, p > st.after, p <= after.after PROVE p \in S
    OBVIOUS
  <2>1. p \in Nat /\ (bounded => p <= next.target)
    BY <1>1, <1>7
  <2>2. p \in scan
    BY <1>2, <2>1
  <2> QED
    BY <1>4, <1>6, <2>2
<1>9. Consumed(after) = after.after
  BY <1>6 DEF Consumed
<1>10. /\ InPlace(to) /\ to.access = readable /\ Consumed(to) = after.after
       /\ \A r \in Rows : Ahead(to, r) <=> Ahead(after, r)
  <2>1. st.boundary <= position
    BY DEF InPlace
  <2>2. after.target # NoTarget => after.bounded /\ after.after <= after.target
    <3>1. next.target # NoTarget => next.bounded
      BY DEF OpenedFrom
    <3>2. CASE bounded
      BY <1>1, <1>6, <1>7, <3>2
    <3>3. CASE ~bounded
      BY <1>6, <3>3 DEF OpenedFrom
    <3> QED
      BY <3>2, <3>3
  <2>3. Settled(after, bounded)
    BY <1>1, <1>5, <1>6, <1>7, <1>9, <2>1, <2>2 DEF Settled
  <2> QED
    BY <1>9, <2>3, ClosedFacts
<1>11. \A p \in S : journal[p] \in Entries /\ p \in 1..position /\ p > st.after
  BY <1>3, LogTypes
<1>12. \A ch \in page : ChangeFits(st, to, page, ch)
  <2> SUFFICES ASSUME NEW p \in VisibleEntries(S) PROVE ChangeFits(st, to, page, JournalChange(p))
    OBVIOUS
  <2> DEFINE ch == JournalChange(p)
  <2>1. p \in S /\ journal[p].part \in readable /\ p \in 1..position /\ p \in Nat /\ p > st.after
        /\ journal[p] \in Entries
    BY <1>11 DEF VisibleEntries
  <2>2. /\ ch.row = journal[p].row /\ ch.op = journal[p].op /\ ch.part = journal[p].part
        /\ ch.version = p /\ ch.pos = p
    BY DEF JournalChange
  <2>3. InLog(ch.row, ch.op, ch.pos, ch.part)
    BY <2>1, <2>2 DEF InLog, Entry, Entries
  <2> HIDE DEF ch
  <2>4. LabelFits(ch.row, ch.version, ch.pos)
    BY <2>1, <2>2 DEF LabelFits
  <2>5. head[ch.row].pos > ch.pos => head[ch.row].pos > Consumed(st)
    <3>1. head[ch.row].pos \in Nat
      BY <2>1, <2>2, LogTypes DEF Entries
    <3> QED
      BY <1>1, <2>1, <2>2, <3>1
  <2>6. \A e \in page : e.row = ch.row /\ e.version <= ch.version => e.pos <= ch.pos
    <3> SUFFICES ASSUME NEW q \in VisibleEntries(S), JournalChange(q).version <= ch.version
                 PROVE  JournalChange(q).pos <= ch.pos
      OBVIOUS
    <3> QED
      BY <2>2 DEF JournalChange
  <2>7. ASSUME NEW q \in 1..position, journal[q] = Entry(ch.row, "delete", ch.part), q > ch.pos
        PROVE  q > Consumed(to) \/ \E e \in page : e.row = ch.row /\ e.version > ch.version
    <3>1. CASE q <= after.after
      <4>1. q \in Nat /\ q > st.after
        BY <1>1, <2>1, <2>2, <2>7
      <4>2. q \in VisibleEntries(S)
        BY <1>8, <2>1, <2>2, <2>7, <3>1, <4>1 DEF VisibleEntries, Entry
      <4>3. JournalChange(q).row = ch.row /\ JournalChange(q).version > ch.version
        BY <2>2, <2>7 DEF JournalChange, Entry
      <4> QED
        BY <4>2, <4>3
    <3>2. CASE ~(q <= after.after)
      BY <1>7, <1>10, <3>2
    <3> QED
      BY <3>1, <3>2
  <2>8. ch.part \in to.access
    BY <1>10, <2>1, <2>2
  <2> QED
    BY <2>3, <2>4, <2>5, <2>6, <2>7, <2>8 DEF ChangeFits, ch
<1>13. BringsRows(st, to, page)
  <2> SUFFICES ASSUME NEW r \in Rows, Current(r), head[r].part \in readable,
                      Ahead(next, r), ~Ahead(after, r)
               PROVE  \E ch \in page : ch.row = r /\ ch.pos = head[r].pos /\ ch.version >= head[r].pos
    BY <1>10 DEF BringsRows, Brings, OpenedFrom
  <2> DEFINE p == head[r].pos
  <2>1. p \in 1..position /\ p \in Nat /\ journal[p] = Entry(r, "upsert", head[r].part)
    BY LogTypes DEF LogInv, HeadsAreLatest, Current
  <2>2. p > st.after /\ p <= after.after
    BY <1>1, <1>6, <1>7, <2>1 DEF Ahead, AheadInOrder, AheadInCatchup, Consumed
  <2> HIDE DEF p
  <2>3. p \in VisibleEntries(S)
    BY <1>8, <2>1, <2>2 DEF VisibleEntries, Entry
  <2>4. JournalChange(p).row = r /\ JournalChange(p).pos = p /\ JournalChange(p).version >= p
    BY <2>1 DEF JournalChange, Entry
  <2> QED
    BY <2>3, <2>4 DEF p
<1>14. BringsEntries(st, to, page)
  <2> SUFFICES ASSUME NEW p \in 1..position, p > Consumed(st), p <= Consumed(to),
                      journal[p].part \in to.access
               PROVE  JournalChange(p) \in page
    BY DEF BringsEntries
  <2>1. p \in VisibleEntries(S)
    BY <1>1, <1>8, <1>10 DEF VisibleEntries
  <2> QED
    BY <2>1
<1>15. Consumed(st) <= Consumed(to) /\ st.access \ to.access \subseteq lapsed
  BY <1>1, <1>7, <1>10 DEF InPlace
<1> QED
  BY <1>10, <1>12, <1>13, <1>14, <1>15 DEF Delivers

\* A page that is read leaves a state in its place, and delivers what lies between.
LEMMA PageDelivers ==
    ASSUME LogTypeOK, LogInv, NEW st \in States, InPlace(st), HistoryRetained(st), reg.open,
           NEW bounded \in BOOLEAN, st.bounded => bounded, NEW out \in Pages(st, bounded)
    PROVE  InPlace(out.state) /\ Delivers(st, out.state, out.page)
<1> DEFINE drained(stop) == [Opened(st, bounded) EXCEPT !.changes = @ \ stop.drained]
<1>1. OpenedFrom(st, bounded, Opened(st, bounded))
  BY OpenedFacts
<1>2. ASSUME NEW scan, NEW visible, NEW stop \in Stops(Opened(st, bounded), scan, visible)
      PROVE  /\ OpenedFrom(st, bounded, drained(stop))
             /\ drained(stop).catchups = Opened(st, bounded).catchups
             /\ drained(stop).target = Opened(st, bounded).target
             /\ \E n : InitialSegment(stop.scanned, scan, n)
  <2>1. \E n : InitialSegment(stop.scanned, scan, n)
    BY DEF Stops, StopsAt
  <2> QED
    BY <1>1, <2>1, DrainedFacts
<1>3. PICK true \in BOOLEAN : true = TRUE
  OBVIOUS
<1>4. CASE out \in CatchupPages(st, bounded)
  <2> DEFINE Read(c) == Stops(Opened(st, bounded), CatchupScan(c), VisibleRows(CatchupScan(c)))
  <2>1. PICK c \in Opened(st, bounded).catchups :
         \E stop \in Read(c) :
           out = [state |-> Closed(st, AfterCatchup(drained(stop), c, stop.scanned, CatchupScan(c)),
                                   bounded, TRUE),
                  page |-> {RowChange(r, head[r].pos) : r \in VisibleRows(stop.scanned)}]
    BY <1>4 DEF CatchupPages
  <2>2. PICK stop \in Read(c) :
           out = [state |-> Closed(st, AfterCatchup(drained(stop), c, stop.scanned, CatchupScan(c)),
                                   bounded, TRUE),
                  page |-> {RowChange(r, head[r].pos) : r \in VisibleRows(stop.scanned)}]
    BY <2>1
  <2>3. PICK next, after, n :
           /\ next = drained(stop) /\ after = AfterCatchup(next, c, stop.scanned, CatchupScan(c))
           /\ InitialSegment(stop.scanned, CatchupScan(c), n)
    BY <1>2
  <2>4. OpenedFrom(st, bounded, next) /\ c \in next.catchups
    BY <1>2, <2>3
  <2>5. /\ out.state = Closed(st, after, bounded, true)
        /\ out.page = {RowChange(r, head[r].pos) : r \in VisibleRows(stop.scanned)}
    BY <1>3, <2>2, <2>3
  <2> QED
    BY <2>3, <2>4, <2>5, CatchupDelivers
<1>5. CASE out \in SnapshotPages(st, bounded)
  <2>1. PICK stop \in Stops(Opened(st, bounded), SnapshotScan(st, bounded),
                            VisibleRows(SnapshotScan(st, bounded))) :
           out = [state |-> Closed(st, AfterSnapshot(st, drained(stop), bounded, stop.scanned,
                                                     SnapshotScan(st, bounded)), bounded, TRUE),
                  page |-> {RowChange(r, st.boundary) : r \in VisibleRows(stop.scanned)}]
    BY <1>5 DEF SnapshotPages
  <2>2. PICK next, after, n :
           /\ next = drained(stop)
           /\ after = AfterSnapshot(st, next, bounded, stop.scanned, SnapshotScan(st, bounded))
           /\ InitialSegment(stop.scanned, SnapshotScan(st, bounded), n)
    BY <1>2
  <2>3. OpenedFrom(st, bounded, next) /\ st.mode = "snapshot" /\ next.catchups = {}
    BY <1>2, <1>5, <2>2 DEF SnapshotPages
  <2>4. /\ out.state = Closed(st, after, bounded, true)
        /\ out.page = {RowChange(r, st.boundary) : r \in VisibleRows(stop.scanned)}
    BY <1>3, <2>1, <2>2
  <2> QED
    BY <2>2, <2>3, <2>4, SnapshotDelivers
<1>6. CASE out \in DeltaPages(st, bounded)
  <2>1. PICK scan : scan = DeltaScan(st, bounded, Opened(st, bounded).target)
    OBVIOUS
  <2>2. PICK stop \in Stops(Opened(st, bounded), scan, VisibleEntries(scan)) :
           out = [state |-> Closed(st, AfterDelta(st, drained(stop), bounded, stop.scanned, scan),
                                   bounded, stop.scanned # scan),
                  page |-> {JournalChange(p) : p \in VisibleEntries(stop.scanned)}]
    BY <1>6, <2>1 DEF DeltaPages
  <2>3. PICK more \in BOOLEAN : more = (stop.scanned # scan)
    OBVIOUS
  <2>4. PICK next, after, n :
           /\ next = drained(stop)
           /\ after = AfterDelta(st, next, bounded, stop.scanned, scan)
           /\ InitialSegment(stop.scanned, scan, n)
    BY <1>2
  <2>5. /\ OpenedFrom(st, bounded, next) /\ st.mode = "delta" /\ next.catchups = {}
        /\ scan = DeltaScan(st, bounded, next.target)
    BY <1>2, <1>6, <2>1, <2>4 DEF DeltaPages
  <2>6. /\ out.state = Closed(st, after, bounded, more)
        /\ out.page = {JournalChange(p) : p \in VisibleEntries(stop.scanned)}
    BY <2>2, <2>3, <2>4
  <2> QED
    BY <2>5, <2>6, <2>4, DeltaDelivers
<1> QED
  BY <1>4, <1>5, <1>6 DEF Pages

------------------------------------------------------------------------------
(* What a page does to a copy.                                                *)

\* The copy keeps what it knows under a label no change exceeds, or takes the
\* change of the highest version.
LEMMA NewerTakes ==
    ASSUME NEW copy \in Copies, NEW page \in SUBSET Changes, IsFiniteSet(page), NEW r \in Rows,
           NEW new, new = Newer(copy, page, r)
    PROVE  \/ new = copy /\ \A e \in page : e.row = r => e.version <= copy.label
           \/ \E ch \in page :
                 /\ ch.row = r /\ \A e \in page : e.row = r => e.version <= ch.version
                 /\ new.op = ch.op /\ new.label = ch.version /\ new.pos = ch.pos /\ new.part = ch.part
<1> DEFINE mine == {ch \in page : ch.row = r}
           f == [ch \in Changes |-> ch.version]
<1>1. CASE mine = {}
  BY <1>1 DEF Newer
<1>2. CASE mine # {}
  <2>1. f \in [Changes -> Nat] /\ mine \in SUBSET Changes /\ IsFiniteSet(mine)
    BY FS_Subset DEF Changes
  <2>2. \E c \in mine : \A e \in mine : f[e] <= f[c]
    BY <1>2, <2>1, LargestExists
  <2>3. \E c \in mine : \A e \in mine : e.version <= c.version
    BY <2>1, <2>2
  <2> DEFINE ch == CHOOSE c \in mine : \A e \in mine : e.version <= c.version
  <2>4. ch \in mine /\ \A e \in mine : e.version <= ch.version
    BY <2>3
  <2>5. \A e \in mine : e.version \in Nat
    BY <2>1 DEF Changes
  <2>6. \A e \in page : e.row = r => e \in mine
    OBVIOUS
  <2>7. ch \in page /\ ch.row = r
    BY <2>4
  <2> HIDE DEF mine
  <2>8. new = IF ch.version <= copy.label THEN copy
                 ELSE [op |-> ch.op, label |-> ch.version, pos |-> ch.pos, part |-> ch.part]
    BY <1>2 DEF Newer, mine
  <2> HIDE DEF ch
  <2>9. CASE ch.version <= copy.label
    <3>1. copy.label \in Nat
      BY DEF Copies
    <3>2. \A e \in mine : e.version <= copy.label
      BY <2>4, <2>5, <2>9, <3>1
    <3> QED
      BY <2>6, <2>8, <2>9, <3>2
  <2>10. CASE ~(ch.version <= copy.label)
    BY <2>4, <2>6, <2>7, <2>8, <2>10
  <2> QED
    BY <2>9, <2>10
<1> QED
  BY <1>1, <1>2

\* The step of one row of one copy, from what the page delivers.
RowKnown(st, r, copy) ==
    Current(r) /\ head[r].part \in st.access => copy.pos >= head[r].pos \/ Ahead(st, r)

PartKnown(st, copy) ==
    copy.op = "upsert" /\ copy.part \notin lapsed => copy.part \in st.access

LEMMA ApplyToRow ==
    ASSUME LogTypeOK, LogInv, NEW from \in States, NEW to \in States,
           NEW page \in SUBSET Changes, IsFiniteSet(page), Delivers(from, to, page),
           NEW r \in Rows, NEW copy \in Copies, CopyFits(r, copy),
           NEW new \in Copies, new = Newer(copy, page, r)
    PROVE  /\ CopyFits(r, new)
           /\ \A st \in States : Consumed(st) <= Consumed(from) =>
                 /\ RowKnown(st, r, copy) => RowKnown(st, r, new)
                 /\ RemovalAhead(st, r, copy) => RemovalAhead(st, r, new)
           /\ RowKnown(from, r, copy) => RowKnown(to, r, new)
           /\ PartKnown(from, copy) => PartKnown(to, new)
           /\ RemovalAhead(from, r, copy) /\ PartKnown(from, copy) => RemovalAhead(to, r, new)
<1>1. /\ Consumed(from) \in Nat /\ Consumed(to) \in Nat /\ Consumed(from) <= Consumed(to)
      /\ position \in Nat /\ head[r].pos \in Nat
      /\ copy.label \in Nat /\ copy.pos \in Nat /\ new.pos \in Nat
      /\ \A e \in page : e.pos \in Nat /\ e.version \in Nat
  BY ConsumedType, LogTypes DEF Copies, Changes, Delivers
<1>2. CASE new = copy /\ \A e \in page : e.row = r => e.version <= copy.label
  <2>1. \A e \in page : e.row = r /\ e.pos = head[r].pos /\ Current(r) /\ e.version >= head[r].pos
                        => copy.pos >= head[r].pos
    <3> SUFFICES ASSUME NEW e \in page, e.row = r, e.pos = head[r].pos, Current(r),
                        e.version >= head[r].pos
                 PROVE  copy.pos >= head[r].pos
      OBVIOUS
    <3>1. head[r].pos \in 1..position /\ journal[head[r].pos].row = r
      <4>1. head[r].pos \in 1..position /\ journal[head[r].pos] = Entry(r, head[r].op, head[r].part)
        BY DEF LogInv, HeadsAreLatest, Current
      <4> QED
        BY <4>1 DEF Entry
    <3>2. head[r].pos <= copy.label
      BY <1>1, <1>2
    <3> QED
      BY <1>1, <3>1, <3>2 DEF CopyFits, LabelFits
  <2>2. RowKnown(from, r, copy) => RowKnown(to, r, new)
    <3> SUFFICES ASSUME RowKnown(from, r, copy), Current(r), head[r].part \in to.access,
                        ~Ahead(to, r)
                 PROVE  copy.pos >= head[r].pos
      BY <1>2 DEF RowKnown
    <3>1. Brings(from, to, page, r)
      BY DEF Delivers, BringsRows
    <3> QED
      BY <2>1, <3>1 DEF Brings, RowKnown
  <2>3. PartKnown(from, copy) => PartKnown(to, new)
    BY <1>2 DEF PartKnown, Delivers
  <2>4. RemovalAhead(from, r, copy) /\ PartKnown(from, copy) => RemovalAhead(to, r, new)
    <3> SUFFICES ASSUME RemovalAhead(from, r, copy), PartKnown(from, copy),
                        copy.op = "upsert", copy.part \in to.access \ lapsed,
                        NEW p \in 1..position, journal[p] = Entry(r, "delete", copy.part),
                        p > copy.pos, ~(p > Consumed(to))
                 PROVE  FALSE
      BY <1>2 DEF RemovalAhead
    <3>1. p > Consumed(from) /\ p <= Consumed(to)
      BY <1>1 DEF RemovalAhead, PartKnown
    <3>2. JournalChange(p) \in page
      BY <3>1 DEF Delivers, BringsEntries, Entry
    <3>3. JournalChange(p).row = r /\ JournalChange(p).version = p
      BY DEF JournalChange, Entry
    <3>4. p <= copy.label /\ journal[p].row = r
      BY <1>2, <3>2, <3>3 DEF Entry
    <3>5. p <= copy.pos
      BY <3>4 DEF CopyFits, LabelFits
    <3> QED
      BY <1>1, <3>5
  <2> QED
    BY <1>2, <2>2, <2>3, <2>4
<1>3. CASE \E ch \in page :
              /\ ch.row = r /\ \A e \in page : e.row = r => e.version <= ch.version
              /\ new.op = ch.op /\ new.label = ch.version /\ new.pos = ch.pos /\ new.part = ch.part
  <2> PICK ch \in page :
              /\ ch.row = r /\ \A e \in page : e.row = r => e.version <= ch.version
              /\ new.op = ch.op /\ new.label = ch.version /\ new.pos = ch.pos /\ new.part = ch.part
    BY <1>3
  <2>1. ChangeFits(from, to, page, ch)
    BY DEF Delivers
  <2>2. CopyFits(r, new)
    BY <2>1 DEF ChangeFits, CopyFits
  <2>3. new.pos >= head[r].pos \/ head[r].pos > Consumed(from)
    BY <1>1, <2>1 DEF ChangeFits
  <2>4. ASSUME NEW st \in States, Consumed(st) <= Consumed(from)
        PROVE  RowKnown(st, r, new)
    <3>1. Consumed(st) \in Nat
      BY ConsumedType
    <3>2. new.pos >= head[r].pos \/ head[r].pos > Consumed(st)
      BY <1>1, <2>3, <2>4, <3>1
    <3> QED
      BY <3>2 DEF RowKnown, Ahead, AheadInOrder
  <2>5. \A p \in 1..position : journal[p] = Entry(r, "delete", new.part) /\ p > new.pos => p > Consumed(to)
    <3> SUFFICES ASSUME NEW p \in 1..position, journal[p] = Entry(r, "delete", new.part), p > new.pos,
                        ~(p > Consumed(to))
                 PROVE  FALSE
      OBVIOUS
    <3>1. PICK e \in page : e.row = ch.row /\ e.version > ch.version
      BY <2>1 DEF ChangeFits
    <3>2. e.version <= ch.version
      BY <3>1
    <3> QED
      BY <1>1, <3>1, <3>2
  <2>6. ASSUME NEW st \in States, Consumed(st) <= Consumed(to)
        PROVE  RemovalAhead(st, r, new)
    <3>1. Consumed(st) \in Nat
      BY ConsumedType
    <3>2. \A p \in 1..position : p > Consumed(to) => p > Consumed(st)
      BY <1>1, <2>6, <3>1
    <3> QED
      BY <2>5, <3>2 DEF RemovalAhead
  <2>7. RowKnown(from, r, copy) => RowKnown(to, r, new)
    <3> SUFFICES ASSUME Current(r), head[r].part \in to.access, ~Ahead(to, r)
                 PROVE  new.pos >= head[r].pos
      BY DEF RowKnown
    <3>1. Brings(from, to, page, r)
      BY DEF Delivers, BringsRows
    <3>2. CASE \E e \in page : e.row = r /\ e.pos = head[r].pos /\ e.version >= head[r].pos
      <4>1. PICK e \in page : e.row = r /\ e.pos = head[r].pos
        BY <3>2
      <4>2. e.pos <= ch.pos
        BY <2>1, <4>1 DEF ChangeFits
      <4> QED
        BY <1>1, <4>1, <4>2
    <3>3. CASE head[r].part \in from.access /\ ~Ahead(from, r)
      BY <2>3, <3>3 DEF Ahead, AheadInOrder
    <3> QED
      BY <3>1, <3>2, <3>3 DEF Brings
  <2>8. PartKnown(to, new)
    BY <2>1 DEF PartKnown, ChangeFits
  <2>9. \A st \in States : Consumed(st) <= Consumed(from) => RowKnown(st, r, new) /\ RemovalAhead(st, r, new)
    <3>1. \A st \in States : Consumed(st) <= Consumed(from) => Consumed(st) <= Consumed(to)
      BY <1>1, ConsumedType
    <3> QED
      BY <2>4, <2>6, <3>1
  <2>10. RemovalAhead(to, r, new)
    BY <1>1, <2>6
  <2> QED
    BY <2>2, <2>7, <2>8, <2>9, <2>10
<1> QED
  BY <1>2, <1>3, NewerTakes

------------------------------------------------------------------------------
(* The steps.                                                                 *)

LEMMA SyncTypes ==
    ASSUME SyncInv
    PROVE  /\ LogTypeOK /\ TypeOK /\ Len(issued) \in Nat
           /\ \A t \in 0..Len(issued) : /\ StateOf(t) \in States /\ InPlace(StateOf(t))
                                        /\ Consumed(StateOf(t)) \in Nat
           /\ \A d \in Devices : held[d] \in SUBSET (0..Len(issued))
           /\ \A d \in Devices, r \in Rows : cache[d][r] \in Copies
           /\ \A m \in replies : /\ m.from \in 0..Len(issued) /\ m.token \in 1..Len(issued)
                                 /\ m.token \in 0..Len(issued)
                                 /\ m.page \in SUBSET Changes /\ IsFiniteSet(m.page)
<1>1. TypeOK /\ LogTypeOK /\ RepliesAreIssued
  BY DEF SyncInv, IInv, TypeOK
<1>2. Len(issued) \in Nat /\ \A t \in 0..Len(issued) : StateOf(t) \in States
  BY <1>1, StateOfType
<1>3. \A m \in replies : /\ m.from \in 0..Len(issued) /\ m.token \in 1..Len(issued)
                         /\ m.page \in SUBSET Changes /\ IsFiniteSet(m.page)
  BY <1>1 DEF SyncInv, RepliesDeliver, RepliesAreIssued, TypeOK, Replies
<1>4. \A t \in 1..Len(issued) : t \in 0..Len(issued)
  BY <1>2
<1>5. \A t \in 0..Len(issued) : Consumed(StateOf(t)) \in Nat
  BY <1>2, ConsumedType
<1> QED
  BY <1>1, <1>2, <1>3, <1>4, <1>5 DEF SyncInv, StatesInPlace, TypeOK

\* The log and its readers' authority move on, and the device's books with them.
LogMovesOn ==
    /\ LogGrows /\ LogInv'
    /\ accessRev <= accessRev' /\ (accessRev' = accessRev => readable' = readable)
    /\ lapsed \subseteq lapsed' /\ (reg.open => readable \ readable' \subseteq lapsed')

LEMMA StandsStill ==
    ASSUME SyncInv, UNCHANGED logVars, lapsed' = lapsed
    PROVE  LogMovesOn
<1>1. LogTypeOK /\ LogInv /\ accessRev \in Nat
  BY SyncTypes, LogTypes DEF SyncInv
<1> QED
  BY <1>1, SameLog DEF LogMovesOn, logVars

\* States and pages that were handed out stay what they were.
LEMMA KeepsStates ==
    ASSUME SyncInv, LogTypeOK', LogMovesOn, reg'.open = reg.open,
           \A t \in 0..Len(issued) : StateOf(t)' = StateOf(t)
    PROVE  /\ \A t \in 0..Len(issued) : InPlace(StateOf(t))'
           /\ \A m \in replies : Delivers(StateOf(m.from), StateOf(m.token), m.page)'
<1>1. ASSUME NEW t \in 0..Len(issued) PROVE InPlace(StateOf(t))'
  <2>1. PICK st \in States : st = StateOf(t) /\ InPlace(st)
    BY SyncTypes
  <2>2. InPlace(st)'
    BY <2>1, SyncTypes, GrowsInPlace DEF LogMovesOn
  <2>3. StateOf(t)' = st
    BY <2>1
  <2> QED
    BY <2>2, <2>3
<1>2. ASSUME NEW m \in replies PROVE Delivers(StateOf(m.from), StateOf(m.token), m.page)'
  <2>1. m.from \in 0..Len(issued) /\ m.token \in 0..Len(issued)
    BY SyncTypes
  <2>2. PICK from \in States : from = StateOf(m.from) /\ InPlace(from)
    BY <2>1, SyncTypes
  <2>3. PICK to \in States : to = StateOf(m.token) /\ InPlace(to)
    BY <2>1, SyncTypes
  <2>4. PICK page \in SUBSET Changes : page = m.page
    BY SyncTypes
  <2>5. Delivers(from, to, page)
    BY <2>2, <2>3, <2>4 DEF SyncInv, RepliesDeliver
  <2>6. Delivers(from, to, page)'
    BY <2>2, <2>3, <2>5, SyncTypes, GrowsDelivers DEF LogMovesOn, InPlace
  <2>7. StateOf(m.from)' = from /\ StateOf(m.token)' = to
    BY <2>1, <2>2, <2>3
  <2> QED
    BY <2>4, <2>6, <2>7
<1> QED
  BY <1>1, <1>2

\* So do the copies that no step of the device changed.
LEMMA KeepsDevices ==
    ASSUME SyncInv, LogTypeOK', LogMovesOn, cache' = cache, held' = held,
           \A t \in 0..Len(issued) : StateOf(t)' = StateOf(t)
    PROVE  DeviceInv'
<1> USE SyncTypes DEF LogMovesOn
<1>1. CopiesFit'
  <2> SUFFICES ASSUME NEW d \in Devices, NEW r \in Rows PROVE CopyFits(r, cache[d][r])'
    BY DEF CopiesFit
  <2>1. PICK copy \in Copies : copy = cache[d][r] /\ CopyFits(r, copy)
    BY DEF SyncInv, DeviceInv, CopiesFit
  <2>2. CopyFits(r, copy)'
    BY <2>1, GrowsCopy
  <2> QED
    BY <2>1, <2>2
<1>2. HeldInOrder'
  <2> SUFFICES ASSUME NEW d \in Devices, NEW t \in held[d], NEW u \in held[d], IsNewest(u, d)
               PROVE  (Consumed(StateOf(t)) <= Consumed(StateOf(u)))'
    BY DEF HeldInOrder, IsNewest
  <2>1. StateOf(t)' = StateOf(t) /\ StateOf(u)' = StateOf(u)
    OBVIOUS
  <2> QED
    BY <2>1 DEF SyncInv, DeviceInv, HeldInOrder, Consumed
<1>3. EveryCursorCovers'
  <2> SUFFICES ASSUME NEW d \in Devices, NEW t \in held[d] PROVE Covered(StateOf(t), d)'
    BY DEF EveryCursorCovers
  <2>1. PICK st \in States : st = StateOf(t) /\ InPlace(st)
    OBVIOUS
  <2>2. Covered(st, d)
    BY <2>1 DEF SyncInv, DeviceInv, EveryCursorCovers
  <2>3. Covered(st, d)'
    BY <2>1, <2>2, GrowsCovered DEF InPlace
  <2>4. StateOf(t)' = st
    BY <2>1
  <2> QED
    BY <2>3, <2>4
<1>4. RemovalsAhead'
  <2> SUFFICES ASSUME NEW d \in Devices, NEW r \in Rows, NEW t \in held[d]
               PROVE  RemovalAhead(StateOf(t), r, cache[d][r])'
    BY DEF RemovalsAhead
  <2>1. PICK st \in States : st = StateOf(t) /\ InPlace(st)
    OBVIOUS
  <2>2. PICK copy \in Copies : copy = cache[d][r]
    OBVIOUS
  <2>3. RemovalAhead(st, r, copy)'
    BY <2>1, <2>2, GrowsRemoval DEF SyncInv, DeviceInv, RemovalsAhead, InPlace
  <2>4. StateOf(t)' = st
    BY <2>1
  <2> QED
    BY <2>2, <2>3, <2>4
<1>5. PartsAreKnown'
  <2> SUFFICES ASSUME NEW d \in Devices, NEW r \in Rows, NEW u \in held[d], IsNewest(u, d),
                      cache[d][r].op = "upsert", cache[d][r].part \notin lapsed'
               PROVE  (cache[d][r].part \in StateOf(u).access)'
    BY DEF PartsAreKnown, IsNewest
  <2>1. StateOf(u)' = StateOf(u)
    OBVIOUS
  <2> QED
    BY <2>1 DEF SyncInv, DeviceInv, PartsAreKnown
<1> QED
  BY <1>1, <1>2, <1>3, <1>4, <1>5 DEF DeviceInv

\* A step that leaves the device's and the server's books as they are.
LEMMA StepAside ==
    ASSUME SyncInv, IInv', LogMovesOn, reg'.open = reg.open, replies' = replies,
           cache' = cache, held' = held, Len(issued') = Len(issued), reg.open \/ issued' = issued,
           \A t \in 0..Len(issued) : StateOf(t)' = StateOf(t)
    PROVE  SyncInv'
<1>1. LogTypeOK'
  BY DEF IInv, TypeOK
<1>2. /\ \A t \in 0..Len(issued) : InPlace(StateOf(t))'
      /\ \A m \in replies : Delivers(StateOf(m.from), StateOf(m.token), m.page)'
  BY <1>1, KeepsStates
<1>3. DeviceInv'
  BY <1>1, KeepsDevices
<1>4. StatesInPlace'
  BY <1>2 DEF StatesInPlace
<1>5. RepliesDeliver'
  BY <1>2 DEF RepliesDeliver, SyncInv
<1>6. ClosedIsEmpty'
  BY DEF SyncInv, ClosedIsEmpty, LogMovesOn
<1> QED
  BY <1>3, <1>4, <1>5, <1>6 DEF SyncInv, LogMovesOn

LEMMA LogSyncInv == SyncInv /\ LogNext /\ DeviceUnaware => SyncInv'
<1> SUFFICES ASSUME SyncInv, LogNext, DeviceUnaware PROVE SyncInv'
  OBVIOUS
<1>1. IInv'
  BY LogIInv DEF SyncInv
<1>2. LogMovesOn
  <2>1. /\ LogGrows /\ LogInv'
        /\ accessRev <= accessRev' /\ (accessRev' = accessRev => readable' = readable)
    BY SyncTypes, LogStepGrows DEF SyncInv
  <2> QED
    BY <2>1 DEF LogMovesOn, DeviceUnaware
<1>3. \A t \in 0..Len(issued) : StateOf(t)' = StateOf(t)
  BY DEF StateOf, DeviceUnaware
<1> QED
  BY <1>1, <1>2, <1>3, StepAside DEF DeviceUnaware

LEMMA BookkeepingSyncInv ==
    ASSUME SyncInv,
           \/ ClientIdles
           \/ \E t \in live : TokenExpires(t)
           \/ \E t \in 1..Len(issued) : ReadNothing(t) \/ Acknowledge(t)
    PROVE  SyncInv'
<1>1. IInv'
  BY ClientIdlesIInv, TokenExpiresIInv, ReadNothingIInv, AcknowledgeIInv DEF SyncInv
<1>2. reg \in Registrations /\ issued \in Seq(Tokens) /\ Len(issued) \in Nat
  BY SyncTypes DEF TypeOK
<1>3. ASSUME NEW t \in 1..Len(issued), ReadNothing(t)
      PROVE  /\ UNCHANGED <<logVars, reg, replies, cache, held, lapsed>> /\ reg.open
             /\ Len(issued') = Len(issued) /\ \A u \in 0..Len(issued) : StateOf(u)' = StateOf(u)
  <2> DEFINE token == [issued[t] EXCEPT !.seen = reg.rev]
  <2>1. issued[t] \in Tokens
    BY <1>2, ElementOfSeq
  <2>2. token.state = issued[t].state /\ token \in Tokens
    BY <1>2, <2>1 DEF Tokens, Registrations
  <2>3. issued' = [issued EXCEPT ![t] = token]
    BY <1>3 DEF ReadNothing
  <2> HIDE DEF token
  <2>4. Len(issued') = Len(issued) /\ \A u \in 1..Len(issued) : issued'[u].state = issued[u].state
    BY <1>2, <2>2, <2>3, ExceptSeq
  <2>5. UNCHANGED <<logVars, reg, replies, cache, held, lapsed>> /\ reg.open
    BY <1>3 DEF ReadNothing, Readable, Admitted
  <2>6. \A u \in 0..Len(issued) : u # 0 => u \in 1..Len(issued)
    BY <1>2
  <2> QED
    BY <2>4, <2>5, <2>6 DEF StateOf
<1>4. CASE \E t \in 1..Len(issued) : ReadNothing(t)
  BY <1>1, <1>3, <1>4, StandsStill, StepAside
<1>5. CASE ~\E t \in 1..Len(issued) : ReadNothing(t)
  <2>1. /\ UNCHANGED <<logVars, issued, replies, cache, held, lapsed>>
        /\ reg'.open = reg.open /\ reg'.initial = reg.initial
    BY <1>2, <1>5 DEF ClientIdles, TokenExpires, Acknowledge, Registrations
  <2>2. \A t \in 0..Len(issued) : StateOf(t)' = StateOf(t)
    BY <2>1 DEF StateOf
  <2> QED
    BY <1>1, <2>1, <2>2, StandsStill, StepAside
<1> QED
  BY <1>4, <1>5

LEMMA StutterSyncInv == SyncInv /\ UNCHANGED vars => SyncInv'
<1> SUFFICES ASSUME SyncInv, UNCHANGED vars PROVE SyncInv'
  OBVIOUS
<1>1. IInv'
  BY NextIInv DEF SyncInv
<1>2. \A t \in 0..Len(issued) : StateOf(t)' = StateOf(t)
  BY DEF vars, StateOf
<1>3. UNCHANGED logVars /\ lapsed' = lapsed
  BY DEF vars, logVars
<1> QED
  BY <1>1, <1>2, <1>3, StandsStill, StepAside DEF vars

\* A registration begins with a snapshot that has every row ahead.
LEMMA OpensSyncInv ==
    ASSUME SyncInv, IInv', UNCHANGED logVars, reg' = Opening, issued' = <<>>, replies' = {},
           held' = [d \in Devices |-> {0}], cache' = cache,
           \A d \in Devices, r \in Rows : cache[d][r].op = "upsert" => cache[d][r].part \in lapsed'
    PROVE  SyncInv'
<1>1. LogTypeOK /\ LogTypeOK' /\ LogInv /\ UNCHANGED <<journal, head>>
  BY SyncTypes DEF SyncInv, IInv, TypeOK, logVars
<1>2. LogGrows /\ LogInv'
  BY <1>1, SameLog
<1>3. \A t \in 0..Len(issued') : t = 0
  BY EmptySeq
<1>4. /\ position \in Nat /\ accessRev \in Nat /\ \A r \in Rows : r > 0
      /\ position' = position /\ accessRev' = accessRev /\ readable' = readable
  BY <1>1, LogTypes, RowsAssumption DEF logVars, position
<1>5. PICK st : st = InitialState
  OBVIOUS
<1>6. StateOf(0)' = st /\ reg'.open
  BY <1>5 DEF StateOf, Opening
<1>7. InPlace(st)' /\ Consumed(st) = position /\ st.mode = "snapshot" /\ st.id = 0
  BY <1>4, <1>5 DEF InPlace, InitialState, Consumed, NoTarget
<1>8. \A r \in Rows : Ahead(st, r)'
  BY <1>4, <1>7 DEF Ahead, AheadInOrder
<1>9. StatesInPlace' /\ RepliesDeliver' /\ ClosedIsEmpty'
  BY <1>3, <1>6, <1>7 DEF StatesInPlace, RepliesDeliver, ClosedIsEmpty
<1>10. CopiesFit'
  <2> SUFFICES ASSUME NEW d \in Devices, NEW r \in Rows PROVE CopyFits(r, cache[d][r])'
    BY DEF CopiesFit
  <2>1. PICK copy \in Copies : copy = cache[d][r] /\ CopyFits(r, copy)
    BY SyncTypes DEF SyncInv, DeviceInv, CopiesFit
  <2>2. CopyFits(r, copy)'
    BY <1>1, <1>2, <2>1, GrowsCopy
  <2> QED
    BY <2>1, <2>2
<1>11. \A d \in Devices : \A t \in held'[d] : t = 0
  OBVIOUS
<1>12. HeldInOrder'
  <2> SUFFICES ASSUME NEW d \in Devices, NEW t \in held'[d], NEW u \in held'[d]
               PROVE  (Consumed(StateOf(t)) <= Consumed(StateOf(u)))'
    BY DEF HeldInOrder
  <2>1. t = 0 /\ u = 0
    BY <1>11
  <2>2. StateOf(t)' = st /\ StateOf(u)' = st /\ Consumed(st) \in Nat
    BY <1>4, <1>6, <1>7, <2>1
  <2> QED
    BY <2>2 DEF Consumed
<1>13. EveryCursorCovers'
  <2> SUFFICES ASSUME NEW d \in Devices, NEW t \in held'[d] PROVE Covered(StateOf(t), d)'
    BY DEF EveryCursorCovers
  <2>1. StateOf(t)' = st
    BY <1>6, <1>11
  <2> QED
    BY <1>8, <2>1 DEF Covered
<1>14. RemovalsAhead' /\ PartsAreKnown'
  BY DEF RemovalsAhead, RemovalAhead, PartsAreKnown
<1> QED
  BY <1>2, <1>9, <1>10, <1>12, <1>13, <1>14 DEF SyncInv, DeviceInv

LEMMA RegisterSyncInv == SyncInv /\ Register => SyncInv'
<1> SUFFICES ASSUME SyncInv, Register PROVE SyncInv'
  OBVIOUS
<1>1. IInv'
  BY RegisterIInv DEF SyncInv
<1>2. /\ issued = <<>> /\ replies = {}
      /\ \A d \in Devices, r \in Rows : cache[d][r].op = "upsert" => cache[d][r].part \in lapsed
  BY DEF SyncInv, ClosedIsEmpty, Register
<1> QED
  BY <1>1, <1>2, OpensSyncInv DEF Register

LEMMA RestartSyncInv == SyncInv /\ Restart => SyncInv'
<1> SUFFICES ASSUME SyncInv, Restart PROVE SyncInv'
  OBVIOUS
<1>1. IInv'
  BY RestartIInv DEF SyncInv
<1>2. \A d \in Devices, r \in Rows : cache[d][r].part \in Parts
  BY SyncTypes DEF Copies
<1> QED
  BY <1>1, <1>2, OpensSyncInv DEF Restart

\* A registration that is closed leaves nothing that a later one could mistake.
LEMMA ClosesSyncInv ==
    ASSUME SyncInv, IInv', UNCHANGED logVars,
           reg' = [reg EXCEPT !.open = FALSE, !.ck = 0, !.rev = 0, !.idle = FALSE],
           issued' = <<>>, replies' = {}, held' = [d \in Devices |-> {}],
           (cache' = cache /\ lapsed' = Parts) \/ cache' = [d \in Devices |-> EmptyCache]
    PROVE  SyncInv'
<1>1. LogTypeOK /\ LogTypeOK' /\ LogInv /\ UNCHANGED <<journal, head>> /\ reg \in Registrations
  BY SyncTypes DEF SyncInv, IInv, TypeOK, logVars
<1>2. LogGrows /\ LogInv'
  BY <1>1, SameLog
<1>3. reg'.open = FALSE /\ reg'.initial = reg.initial
  BY <1>1 DEF Registrations
<1>4. StatesInPlace'
  <2>1. \A t \in 0..Len(issued') : t = 0
    BY EmptySeq
  <2>2. StateOf(0)' = StateOf(0)
    BY <1>3 DEF StateOf
  <2>3. InPlace(StateOf(0))
    BY SyncTypes
  <2>4. InPlace(StateOf(0))'
    BY <1>3, <2>2, <2>3 DEF InPlace, Consumed, logVars, position
  <2> QED
    BY <2>1, <2>4 DEF StatesInPlace
<1>5. \A d \in Devices, r \in Rows : cache'[d][r] = cache[d][r] \/ cache'[d][r] = EmptyCache[r]
  OBVIOUS
<1>6. CopiesFit'
  <2> SUFFICES ASSUME NEW d \in Devices, NEW r \in Rows PROVE CopyFits(r, cache[d][r])'
    BY DEF CopiesFit
  <2>1. CASE cache'[d][r] = cache[d][r]
    <3>1. PICK copy \in Copies : copy = cache[d][r] /\ CopyFits(r, copy)
      BY SyncTypes DEF SyncInv, DeviceInv, CopiesFit
    <3>2. CopyFits(r, copy)'
      BY <1>1, <1>2, <3>1, GrowsCopy
    <3> QED
      BY <2>1, <3>1, <3>2
  <2>2. CASE cache'[d][r] = EmptyCache[r]
    <3>1. cache'[d][r].op = "none" /\ cache'[d][r].label = 0 /\ cache'[d][r].pos = 0
      BY <2>2 DEF EmptyCache
    <3>2. position' \in Nat
      BY <1>2 DEF LogGrows
    <3> QED
      BY <3>1, <3>2 DEF CopyFits, LabelFits
  <2> QED
    BY <1>5, <2>1, <2>2
<1>7. \A d \in Devices : held'[d] = {}
  OBVIOUS
<1>8. HeldInOrder' /\ EveryCursorCovers' /\ RemovalsAhead' /\ PartsAreKnown' /\ RepliesDeliver'
  BY <1>7 DEF HeldInOrder, EveryCursorCovers, RemovalsAhead, PartsAreKnown, RepliesDeliver
<1>9. \A d \in Devices, r \in Rows : cache'[d][r].op = "upsert" => cache'[d][r].part \in lapsed'
  <2>1. \A d \in Devices, r \in Rows : cache[d][r].part \in Parts
    BY SyncTypes DEF Copies
  <2> QED
    BY <2>1 DEF EmptyCache
<1>10. ClosedIsEmpty'
  BY <1>7, <1>9 DEF ClosedIsEmpty
<1> QED
  BY <1>2, <1>4, <1>6, <1>8, <1>10 DEF SyncInv, DeviceInv

LEMMA RetireSyncInv == SyncInv /\ (Retire \/ ReclaimIdle) => SyncInv'
<1> SUFFICES ASSUME SyncInv, Retire \/ ReclaimIdle PROVE SyncInv'
  OBVIOUS
<1>1. IInv'
  BY RetireIInv, ReclaimIdleIInv DEF SyncInv
<1>2. CASE Retire
  BY <1>1, <1>2, ClosesSyncInv DEF Retire
<1>3. CASE ReclaimIdle
  BY <1>1, <1>3, ClosesSyncInv DEF ReclaimIdle
<1> QED
  BY <1>2, <1>3

\* The page that is read delivers what lies between its two cursors.
LEMMA ReadPageSyncInv ==
    ASSUME SyncInv, NEW t \in 0..Len(issued), NEW bounded \in Extensions, ReadPage(t, bounded)
    PROVE  SyncInv'
<1>1. IInv' /\ LogTypeOK'
  BY ReadPageIInv DEF SyncInv, IInv, TypeOK
<1>2. /\ reg.open /\ HistoryRetained(StateOf(t)) /\ (StateOf(t).bounded => bounded) /\ bounded \in BOOLEAN
      /\ UNCHANGED logVars /\ reg' = reg /\ cache' = cache /\ held' = held /\ lapsed' = lapsed
  BY ExtensionsAssumption DEF ReadPage, Readable, Admitted
<1>3. PICK out \in Pages(StateOf(t), bounded) :
        /\ issued' = Append(issued, [state |-> out.state, base |-> reg.rev,
                                    epoch |-> epoch, seen |-> reg.rev])
        /\ replies' = replies \cup {[from |-> t, token |-> Len(issued) + 1, page |-> out.page]}
  BY DEF ReadPage
<1>4. /\ LogTypeOK /\ LogInv /\ Len(issued) \in Nat /\ issued \in Seq(Tokens)
      /\ StateOf(t) \in States /\ InPlace(StateOf(t))
  BY SyncTypes DEF SyncInv, TypeOK
<1>5. InPlace(out.state) /\ Delivers(StateOf(t), out.state, out.page)
  BY <1>2, <1>3, <1>4, PageDelivers
<1>6. out.state \in States /\ out.page \in SUBSET Changes
  BY <1>2, <1>3, <1>4, PageTypes
<1> DEFINE token == [state |-> out.state, base |-> reg.rev, epoch |-> epoch, seen |-> reg.rev]
<1>7. token \in Tokens /\ token.state = out.state
  BY <1>4, <1>6, SyncTypes DEF Tokens, TypeOK, LogTypeOK, Registrations
<1>8. issued' = Append(issued, token)
  BY <1>3
<1> HIDE DEF token
<1>9. /\ Len(issued') = Len(issued) + 1 /\ issued'[Len(issued) + 1].state = out.state
      /\ \A u \in 1..Len(issued) : issued'[u] = issued[u]
  BY <1>4, <1>7, <1>8, AppendProperties
<1>10. \A u \in 0..Len(issued) : StateOf(u)' = StateOf(u)
  <2>1. \A u \in 0..Len(issued) : u # 0 => u \in 1..Len(issued)
    BY <1>4
  <2> QED
    BY <1>2, <1>9, <2>1 DEF StateOf
<1>11. PICK n \in Nat : n = Len(issued) + 1 /\ n # 0 /\ n > 0
  BY <1>4
<1>12. StateOf(n)' = out.state
  BY <1>4, <1>9, <1>11 DEF StateOf
<1>13. LogMovesOn
  BY <1>2, StandsStill
<1>14. /\ \A u \in 0..Len(issued) : InPlace(StateOf(u))'
       /\ \A m \in replies : Delivers(StateOf(m.from), StateOf(m.token), m.page)'
  BY <1>1, <1>2, <1>10, <1>13, KeepsStates
<1>15. DeviceInv'
  BY <1>1, <1>2, <1>10, <1>13, KeepsDevices
<1>16. PICK from, to, page : from = StateOf(t) /\ to = out.state /\ page = out.page
  OBVIOUS
<1>17. InPlace(to)' /\ Delivers(from, to, page)'
  <2>1. to \in States /\ from \in States /\ InPlace(to) /\ InPlace(from) /\ Delivers(from, to, page)
    BY <1>4, <1>5, <1>6, <1>16
  <2>2. InPlace(to)'
    BY <1>1, <1>2, <1>4, <1>13, <2>1, GrowsInPlace DEF LogMovesOn
  <2>3. Delivers(from, to, page)'
    BY <1>1, <1>4, <1>6, <1>13, <1>16, <2>1, GrowsDelivers DEF LogMovesOn, InPlace
  <2> QED
    BY <2>2, <2>3
<1>18. StatesInPlace'
  <2>1. \A u \in 0..Len(issued') : u \in 0..Len(issued) \/ u = n
    BY <1>4, <1>9, <1>11
  <2>2. InPlace(StateOf(n))'
    BY <1>16, <1>17, <1>12
  <2> QED
    BY <1>14, <2>1, <2>2 DEF StatesInPlace
<1>19. RepliesDeliver'
  <2> SUFFICES ASSUME NEW m \in replies'
               PROVE  /\ m.from \in 0..Len(issued') /\ m.from < m.token
                      /\ Delivers(StateOf(m.from), StateOf(m.token), m.page)'
    BY DEF RepliesDeliver
  <2>1. CASE m \in replies
    <3>1. m.from \in 0..Len(issued) /\ m.from < m.token
      BY <2>1 DEF SyncInv, RepliesDeliver
    <3> QED
      BY <1>4, <1>9, <1>14, <2>1, <3>1
  <2>2. CASE m \notin replies
    <3>1. m.from = t /\ m.token = n /\ m.page = page
      BY <1>3, <1>11, <1>16, <2>2
    <3>2. StateOf(m.from)' = from /\ StateOf(m.token)' = to
      BY <1>10, <1>16, <1>12, <3>1
    <3> QED
      BY <1>4, <1>9, <1>11, <1>17, <3>1, <3>2
  <2> QED
    BY <2>1, <2>2
<1>20. ClosedIsEmpty'
  BY <1>2 DEF ClosedIsEmpty
<1> QED
  BY <1>1, <1>13, <1>15, <1>18, <1>19, <1>20 DEF SyncInv, LogMovesOn

\* What the invariant says of one copy: its rows, and the cursors it committed.
CopyInv(cursors, rows) ==
    /\ \A r \in Rows : CopyFits(r, rows[r])
    /\ \A t, u \in cursors :
          (\A v \in cursors : v <= u) => Consumed(StateOf(t)) <= Consumed(StateOf(u))
    /\ \A t \in cursors, r \in Rows :
          /\ RowKnown(StateOf(t), r, rows[r]) /\ RemovalAhead(StateOf(t), r, rows[r])
          /\ (\A v \in cursors : v <= t) => PartKnown(StateOf(t), rows[r])

LEMMA RowsOfCopies == DeviceInv => \A d \in Devices : CopyInv(held[d], cache[d])
BY DEF DeviceInv, CopiesFit, HeldInOrder, EveryCursorCovers, Covered, RemovalsAhead, PartsAreKnown,
       RowKnown, PartKnown, CopyInv, IsNewest

\* Nothing of that reads the registration but for its initial state.
LEMMA SameView ==
    ASSUME UNCHANGED logVars, lapsed' = lapsed
    PROVE  /\ \A st : Consumed(st)' = Consumed(st)
           /\ \A r, copy : CopyFits(r, copy)' <=> CopyFits(r, copy)
           /\ \A st, r, copy : /\ RowKnown(st, r, copy)' <=> RowKnown(st, r, copy)
                               /\ RemovalAhead(st, r, copy)' <=> RemovalAhead(st, r, copy)
           /\ \A st, copy : PartKnown(st, copy)' <=> PartKnown(st, copy)
<1> USE DEF logVars
<1>1. position' = position
  BY DEF position
<1>2. \A st : Consumed(st)' = Consumed(st)
  BY DEF Consumed
<1>3. \A r, copy : CopyFits(r, copy)' <=> CopyFits(r, copy)
  BY <1>1 DEF CopyFits, LabelFits, InLog, Entry
<1>4. \A st, r, copy : RowKnown(st, r, copy)' <=> RowKnown(st, r, copy)
  BY <1>2 DEF RowKnown, Current, Ahead, AheadInOrder, AheadInCatchup
<1>5. \A st, r, copy : RemovalAhead(st, r, copy)' <=> RemovalAhead(st, r, copy)
  BY <1>1, <1>2 DEF RemovalAhead, Entry
<1>6. \A st, copy : PartKnown(st, copy)' <=> PartKnown(st, copy)
  BY DEF PartKnown
<1> QED
  BY <1>2, <1>3, <1>4, <1>5, <1>6

\* A step of the copies keeps the invariant when it keeps that of each copy.
LEMMA CopiesChange ==
    ASSUME SyncInv, IInv', UNCHANGED <<logVars, reg, issued, lapsed>>, reg.open, replies' \subseteq replies,
           NEW H, NEW C, H = held', C = cache', \A d \in Devices : CopyInv(H[d], C[d])
    PROVE  SyncInv'
<1>1. /\ LogTypeOK' /\ LogMovesOn /\ reg'.open = reg.open /\ UNCHANGED logVars /\ lapsed' = lapsed
      /\ \A t : StateOf(t)' = StateOf(t)
  BY StandsStill DEF IInv, TypeOK, StateOf
<1>2. /\ \A t \in 0..Len(issued) : InPlace(StateOf(t))'
      /\ \A m \in replies : Delivers(StateOf(m.from), StateOf(m.token), m.page)'
  BY <1>1, KeepsStates
<1>3. StatesInPlace' /\ RepliesDeliver' /\ ClosedIsEmpty'
  BY <1>1, <1>2 DEF SyncInv, StatesInPlace, RepliesDeliver, ClosedIsEmpty
<1>4. ASSUME NEW d \in Devices, NEW r \in Rows
      PROVE  CopyFits(r, cache[d][r])'
  <2>1. PICK copy : copy = C[d][r] /\ CopyFits(r, copy)
    BY DEF CopyInv
  <2>2. CopyFits(r, copy)'
    BY <1>1, <2>1, SameView
  <2>3. cache'[d][r] = copy
    BY <2>1
  <2> QED
    BY <2>2, <2>3
<1>5. ASSUME NEW d \in Devices, NEW t \in held'[d], NEW u \in held'[d], \A v \in held'[d] : v <= u
      PROVE  (Consumed(StateOf(t)) <= Consumed(StateOf(u)))'
  <2>1. Consumed(StateOf(t)) <= Consumed(StateOf(u))
    BY <1>5 DEF CopyInv
  <2>2. StateOf(t)' = StateOf(t) /\ StateOf(u)' = StateOf(u)
    BY <1>1
  <2> QED
    BY <2>1, <2>2 DEF Consumed
<1>6. ASSUME NEW d \in Devices, NEW t \in held'[d], NEW r \in Rows
      PROVE  /\ RowKnown(StateOf(t), r, cache[d][r])'
             /\ RemovalAhead(StateOf(t), r, cache[d][r])'
             /\ (\A v \in held'[d] : v <= t) => PartKnown(StateOf(t), cache[d][r])'
  <2>1. PICK st : st = StateOf(t)
    OBVIOUS
  <2>2. PICK copy : copy = C[d][r]
    OBVIOUS
  <2>3. /\ RowKnown(st, r, copy) /\ RemovalAhead(st, r, copy)
        /\ (\A v \in held'[d] : v <= t) => PartKnown(st, copy)
    BY <2>1, <2>2 DEF CopyInv
  <2>4. /\ RowKnown(st, r, copy)' /\ RemovalAhead(st, r, copy)'
        /\ (\A v \in held'[d] : v <= t) => PartKnown(st, copy)'
    BY <1>1, <2>3, SameView
  <2>5. StateOf(t)' = st /\ cache'[d][r] = copy
    BY <1>1, <2>1, <2>2
  <2> QED
    BY <2>4, <2>5
<1>7. CopiesFit'
  BY <1>4 DEF CopiesFit
<1>8. HeldInOrder'
  BY <1>5 DEF HeldInOrder, IsNewest
<1>9. EveryCursorCovers'
  BY <1>6 DEF EveryCursorCovers, Covered, RowKnown
<1>10. RemovalsAhead'
  BY <1>6 DEF RemovalsAhead
<1>11. PartsAreKnown'
  BY <1>6 DEF PartsAreKnown, IsNewest, PartKnown
<1> QED
  BY <1>1, <1>3, <1>7, <1>8, <1>9, <1>10, <1>11 DEF SyncInv, DeviceInv, LogMovesOn

\* A page that arrives brings its copy to the cursor it hands out; the older
\* cursors of the copy have at least as much ahead as before.
LEMMA ApplyPageSyncInv ==
    ASSUME SyncInv, NEW d \in Devices, NEW m \in replies, ApplyPage(d, m)
    PROVE  SyncInv'
<1> DEFINE old == cache[d]
           new == [r \in Rows |-> Newer(cache[d][r], m.page, r)]
           grown == held[d] \cup {m.token}
<1>1. IInv' /\ cache' \in [Devices -> [Rows -> Copies]]
  BY ApplyPageIInv DEF SyncInv, IInv, TypeOK
<1>2. /\ m.from \in held[d] /\ \A u \in held[d] : u <= m.from
      /\ cache' = [cache EXCEPT ![d] = new] /\ held' = [held EXCEPT ![d] = grown]
      /\ replies' \subseteq replies /\ UNCHANGED <<logVars, reg, issued, lapsed>>
  BY DEF ApplyPage, IsNewest
<1>3. reg.open
  BY <1>2 DEF SyncInv, ClosedIsEmpty
<1>4. /\ m.from \in 0..Len(issued) /\ m.token \in 0..Len(issued) /\ m.from < m.token
      /\ Len(issued) \in Nat /\ held[d] \in SUBSET (0..Len(issued))
      /\ m.page \in SUBSET Changes /\ IsFiniteSet(m.page)
      /\ Delivers(StateOf(m.from), StateOf(m.token), m.page)
  BY SyncTypes DEF SyncInv, RepliesDeliver
<1>5. PICK from \in States : from = StateOf(m.from)
  BY <1>4, SyncTypes
<1>6. PICK to \in States : to = StateOf(m.token)
  BY <1>4, SyncTypes
<1>7. PICK page \in SUBSET Changes : page = m.page
  BY <1>4
<1>8. \A t \in held[d] : StateOf(t) \in States /\ Consumed(StateOf(t)) \in Nat
  BY <1>4, SyncTypes
<1>9. /\ CopyInv(held[d], old) /\ Delivers(from, to, page) /\ IsFiniteSet(page)
      /\ LogTypeOK /\ LogInv /\ cache \in [Devices -> [Rows -> Copies]]
      /\ held \in [Devices -> SUBSET (0..Len(issued))]
  BY <1>4, <1>5, <1>6, <1>7, RowsOfCopies, SyncTypes DEF SyncInv, TypeOK
<1>10. /\ \A t \in held[d] : Consumed(StateOf(t)) <= Consumed(from)
       /\ Consumed(from) <= Consumed(to) /\ Consumed(from) \in Nat /\ Consumed(to) \in Nat
  BY <1>2, <1>5, <1>9, ConsumedType DEF CopyInv, Delivers
<1>11. /\ \A e \in Devices : e # d => cache'[e] = cache[e] /\ held'[e] = held[e]
       /\ cache'[d] = new /\ held'[d] = grown
  BY <1>2, <1>9
<1>12. ASSUME NEW r \in Rows
       PROVE  /\ CopyFits(r, new[r])
              /\ \A t \in held[d] : /\ RowKnown(StateOf(t), r, new[r])
                                    /\ RemovalAhead(StateOf(t), r, new[r])
              /\ RowKnown(to, r, new[r]) /\ RemovalAhead(to, r, new[r]) /\ PartKnown(to, new[r])
  <2>1. PICK copy \in Copies : copy = old[r]
    BY <1>9
  <2>2. PICK next \in Copies : next = new[r] /\ next = Newer(copy, page, r)
    BY <1>1, <1>7, <1>11, <2>1
  <2>3. CopyFits(r, copy)
    BY <1>9, <2>1 DEF CopyInv
  <2>4. /\ RowKnown(from, r, copy) /\ RemovalAhead(from, r, copy) /\ PartKnown(from, copy)
        /\ \A t \in held[d] : RowKnown(StateOf(t), r, copy) /\ RemovalAhead(StateOf(t), r, copy)
    BY <1>2, <1>5, <1>9, <2>1 DEF CopyInv
  <2>5. /\ CopyFits(r, next)
        /\ \A st \in States : Consumed(st) <= Consumed(from) =>
              /\ RowKnown(st, r, copy) => RowKnown(st, r, next)
              /\ RemovalAhead(st, r, copy) => RemovalAhead(st, r, next)
        /\ RowKnown(to, r, next) /\ PartKnown(to, next) /\ RemovalAhead(to, r, next)
    BY <1>9, <2>2, <2>3, <2>4, ApplyToRow
  <2> QED
    BY <1>8, <1>10, <2>2, <2>4, <2>5
<1>13. CopyInv(grown, new)
  <2> HIDE DEF new
  <2>1. \A u \in held[d] : ~(m.token <= u)
    <3>1. m.from \in Int /\ m.token \in Int /\ \A u \in held[d] : u \in Int
      BY <1>4
    <3> QED
      BY <1>2, <1>4, <3>1
  <2>2. \A u \in grown : (\A v \in grown : v <= u) => u = m.token
    BY <2>1
  <2>3. \A t \in grown : Consumed(StateOf(t)) <= Consumed(to)
    BY <1>6, <1>8, <1>10
  <2>4. \A t, u \in grown : (\A v \in grown : v <= u) => Consumed(StateOf(t)) <= Consumed(StateOf(u))
    BY <1>6, <2>2, <2>3
  <2>5. \A t \in grown, r \in Rows :
          /\ RowKnown(StateOf(t), r, new[r]) /\ RemovalAhead(StateOf(t), r, new[r])
          /\ (\A v \in grown : v <= t) => PartKnown(StateOf(t), new[r])
    BY <1>6, <1>12, <2>2
  <2> HIDE DEF grown
  <2> QED
    BY <1>12, <2>4, <2>5 DEF CopyInv
<1> HIDE DEF new, grown
<1>14. PICK H, C : H = held' /\ C = cache'
  OBVIOUS
<1>15. \A e \in Devices : CopyInv(H[e], C[e])
  BY <1>11, <1>13, <1>14, RowsOfCopies DEF SyncInv
<1> QED
  BY <1>1, <1>2, <1>3, <1>14, <1>15, CopiesChange

LEMMA ReplaceSyncInv ==
    ASSUME SyncInv, NEW d \in Devices, NEW e \in Devices, Replace(d, e)
    PROVE  SyncInv'
<1>1. IInv'
  BY ReplaceIInv DEF SyncInv
<1>2. reg.open
  BY DEF SyncInv, ClosedIsEmpty, Replace
<1>3. PICK H, C : H = held' /\ C = cache'
  OBVIOUS
<1>4. /\ cache \in [Devices -> [Rows -> Copies]] /\ held \in [Devices -> SUBSET (0..Len(issued))]
      /\ \A f \in Devices : CopyInv(held[f], cache[f])
  BY SyncTypes, RowsOfCopies DEF SyncInv, TypeOK
<1>5. \A f \in Devices : CopyInv(H[f], C[f])
  <2>1. /\ H[d] = held[e] /\ C[d] = cache[e]
        /\ \A f \in Devices : f # d => H[f] = held[f] /\ C[f] = cache[f]
    BY <1>3, <1>4 DEF Replace
  <2> QED
    BY <1>4, <2>1
<1> QED
  BY <1>1, <1>2, <1>3, <1>5, CopiesChange DEF Replace

LEMMA InitSyncInv == Init => SyncInv
<1> SUFFICES ASSUME Init PROVE SyncInv
  OBVIOUS
<1>1. IInv /\ LogTypeOK
  BY InitIInv DEF IInv, TypeOK
<1>2. position = 0 /\ accessRev \in Nat /\ issued = <<>> /\ replies = {}
  BY <1>1, LogTypes, EmptySeq DEF Init, LogInit, position
<1>3. \A r \in Rows : head[r].op = "none" /\ head[r].pos = 0
  BY DEF Init, LogInit
<1>4. LogInv
  BY <1>2, <1>3 DEF LogInv, HeadsAreLatest, LeavingIsDeleted
<1>5. \A t \in 0..Len(issued) : StateOf(t) = InitialState
  <2>1. \A t \in 0..Len(issued) : t = 0
    BY <1>2, EmptySeq
  <2>2. reg.initial = InitialState
    BY DEF Init
  <2> QED
    BY <2>1, <2>2 DEF StateOf
<1>6. InPlace(InitialState)
  BY <1>2 DEF InPlace, InitialState, Consumed, NoTarget
<1>7. StatesInPlace
  BY <1>5, <1>6 DEF StatesInPlace
<1>8. RepliesDeliver
  BY <1>2 DEF RepliesDeliver
<1>9. \A d \in Devices : /\ held[d] = {}
                         /\ \A r \in Rows : /\ cache[d][r].op = "none"
                                            /\ cache[d][r].label = 0 /\ cache[d][r].pos = 0
  BY DEF Init, EmptyCache
<1>10. CopiesFit
  BY <1>2, <1>9 DEF CopiesFit, CopyFits, LabelFits
<1>11. HeldInOrder /\ EveryCursorCovers /\ RemovalsAhead /\ PartsAreKnown
  BY <1>9 DEF HeldInOrder, EveryCursorCovers, RemovalsAhead, PartsAreKnown
<1>12. ClosedIsEmpty
  BY <1>2, <1>9 DEF ClosedIsEmpty
<1> QED
  BY <1>1, <1>4, <1>7, <1>8, <1>10, <1>11, <1>12 DEF SyncInv, DeviceInv

LEMMA NextSyncInv == SyncInv /\ [Next]_vars => SyncInv'
<1> SUFFICES ASSUME SyncInv, [Next]_vars PROVE SyncInv'
  OBVIOUS
<1>1. CASE LogNext /\ DeviceUnaware
  BY <1>1, LogSyncInv
<1>2. CASE Register
  BY <1>2, RegisterSyncInv
<1>3. CASE Restart
  BY <1>3, RestartSyncInv
<1>4. CASE Retire \/ ReclaimIdle
  BY <1>4, RetireSyncInv
<1>5. CASE \/ ClientIdles
           \/ \E t \in live : TokenExpires(t)
           \/ \E t \in 1..Len(issued) : ReadNothing(t) \/ Acknowledge(t)
  BY <1>5, BookkeepingSyncInv
<1>6. CASE \E t \in 0..Len(issued), bounded \in Extensions : ReadPage(t, bounded)
  BY <1>6, ReadPageSyncInv
<1>7. CASE \E d \in Devices, m \in replies : ApplyPage(d, m)
  BY <1>7, ApplyPageSyncInv
<1>8. CASE \E d, e \in Devices : Replace(d, e)
  BY <1>8, ReplaceSyncInv
<1>9. CASE UNCHANGED vars
  BY <1>9, StutterSyncInv
<1> QED
  BY <1>1, <1>2, <1>3, <1>4, <1>5, <1>6, <1>7, <1>8, <1>9 DEF Next

\* SyncInv holds in every state: what the server handed out is behind the log,
\* pages under way deliver what lies between their two cursors, and every cursor
\* a copy committed has what the copy lacks ahead of it.
THEOREM SyncInvariance == Spec => []SyncInv
<1>1. Init => SyncInv
  BY InitSyncInv
<1>2. SyncInv /\ [Next]_vars => SyncInv'
  BY NextSyncInv
<1> QED
  BY <1>1, <1>2, PTL DEF Spec

\* A copy is never older than its label says, whatever pages, backups and stale
\* replies it took: adoption may accept any label at least the authoritative one.
THEOREM LabelsStaySound == Spec => []LabelsAreSound
<1>1. SyncInv => LabelsAreSound
  BY DEF SyncInv, DeviceInv, CopiesFit, CopyFits, LabelFits, LabelsAreSound
<1> QED
  BY <1>1, SyncInvariance, PTL

\* Every current row the actor may read that a copy lacks is ahead of each cursor
\* the copy committed: continuing from any of them misses no row, whatever was
\* written, moved, pruned, granted or revoked since (readFlightDeckRecordPage).
THEOREM CursorsMissNothing == Spec => []CursorsCoverTheLog
<1>1. SyncInv => CursorsCoverTheLog
  BY DEF SyncInv, DeviceInv, EveryCursorCovers, CursorsCoverTheLog
<1> QED
  BY <1>1, SyncInvariance, PTL

\* A cursor that certifies a target (handover.complete) was committed only by a
\* copy that has every current readable row through that target.
THEOREM CertificatesHold == Spec => []CertificatesAreComplete
<1>1. SyncInv => CertificatesAreComplete
  <2> SUFFICES ASSUME SyncInv, NEW d \in Devices, NEW r \in Rows, NEW t \in held[d],
                      StateOf(t).targetComplete, Current(r),
                      head[r].part \in StateOf(t).access, head[r].pos <= StateOf(t).after
               PROVE  cache[d][r].pos >= head[r].pos
    BY DEF CertificatesAreComplete
  <2>1. LogTypeOK /\ t \in 0..Len(issued) /\ StateOf(t) \in States /\ InPlace(StateOf(t))
    BY SyncTypes
  <2>2. head[r].pos \in Nat /\ StateOf(t).after \in Nat
    BY <2>1, LogTypes DEF States
  <2>3. StateOf(t).mode = "delta" /\ StateOf(t).catchups = {}
    BY <2>1 DEF InPlace
  <2>4. ~Ahead(StateOf(t), r)
    BY <2>2, <2>3 DEF Ahead, AheadInOrder, AheadInCatchup, Consumed
  <2> QED
    BY <2>4 DEF SyncInv, DeviceInv, EveryCursorCovers, Covered
<1> QED
  BY <1>1, SyncInvariance, PTL

\* A row that left a partition the actor never lost is gone from the copy, or its
\* tombstone lies ahead of every cursor the copy may continue from: deletions and
\* moves are not lost between pages, backups and replays of old cursors.
THEOREM RemovalsArrive == Spec => []RemovalsReachTheDevice
<1>1. SyncInv => RemovalsReachTheDevice
  <2> SUFFICES ASSUME SyncInv, NEW d \in Devices, NEW r \in Rows, NEW t \in held[d],
                      NEW copy, copy = cache[d][r], NEW q, q = copy.part, NEW st, st = StateOf(t),
                      copy.op = "upsert", q \in st.access \ lapsed, ~InPartition(r, q)
               PROVE  \E p \in (Consumed(st) + 1)..position : journal[p] = Entry(r, "delete", q)
    BY DEF RemovalsReachTheDevice
  <2>1. /\ LogTypeOK /\ st \in States /\ Consumed(st) \in Nat /\ position \in Nat
        /\ copy \in Copies /\ q \in Parts /\ copy.pos \in Nat
    BY SyncTypes, LogTypes DEF Copies
  <2>2. /\ copy.pos \in 1..position /\ journal[copy.pos] = Entry(r, "upsert", q)
        /\ RemovalAhead(st, r, copy)
    BY DEF SyncInv, DeviceInv, CopiesFit, CopyFits, InLog, RemovalsAhead
  <2>3. PICK p \in 1..position : copy.pos < p /\ journal[p] = Entry(r, "delete", q)
    BY <2>1, <2>2 DEF SyncInv, LogInv, LeavingIsDeleted
  <2>4. p > Consumed(st)
    BY <2>1, <2>2, <2>3 DEF RemovalAhead
  <2> QED
    BY <2>1, <2>3, <2>4
<1> QED
  BY <1>1, SyncInvariance, PTL
==============================================================================
