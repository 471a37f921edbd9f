------------------------------ MODULE RecordPage ------------------------------
(* One record-sync page: the server-owned continuation (RecordSyncState), the *)
(* observation of an authority change, the rows a page scans and delivers,    *)
(* and the continuation it hands out.  readFlightDeckRecordPage runs in one   *)
(* transaction that share-locks the clock, and repeats when the clock moved,  *)
(* so a page is a function of the committed log and the cursor's state.       *)
(*                                                                            *)
(* Abstractions.  The page's byte budget is the choice of where a scan stops; *)
(* oversized rows, actor sidecars and protocol v1 are left out.  A pending    *)
(* access notification is its key: its status is whether the key is in        *)
(* access.  Which pending catchup is served first is left open.               *)
EXTENDS RecordLog

CONSTANT Limit      \* RECORD_MAX_ROWS, the largest limit a page may ask for

ASSUME LimitAssumption == Limit \in Nat \ {0}

NoTarget == -1

Catchups == [key : Parts, cutoff : Nat, id : Nat]

\* RecordSyncState, without the chunked extension.
States == [mode : {"snapshot", "delta"}, boundary : Nat, after : Nat, id : Nat,
           access : SUBSET Parts, accessRev : Nat, progress : Nat,
           changes : SUBSET Parts, catchups : SUBSET Catchups,
           bounded : BOOLEAN, target : Nat \cup {NoTarget}, targetComplete : BOOLEAN]

\* A row change on a page: its wire version, and the entry it was read from.
Changes == [row : Rows, op : Ops, part : Parts, version : Nat, pos : Nat]

\* initialRecordState()
InitialStateOffByOne ==
    [mode |-> "snapshot", boundary |-> position + 1, after |-> position + 1, id |-> 0,
     access |-> readable, accessRev |-> accessRev, progress |-> 0,
     changes |-> {}, catchups |-> {},
     bounded |-> FALSE, target |-> NoTarget, targetComplete |-> FALSE]

InitialState ==
    [mode |-> "snapshot", boundary |-> position, after |-> position, id |-> 0,
     access |-> readable, accessRev |-> accessRev, progress |-> 0,
     changes |-> {}, catchups |-> {},
     bounded |-> FALSE, target |-> NoTarget, targetComplete |-> FALSE]

\* The ordinary position a state has consumed the journal through.
Consumed(st) == IF st.mode = "snapshot" THEN st.boundary ELSE st.after

\* requireRecordHistory(): the oldest entry left, and the recorded floor.
HistoryRetained(st) == Consumed(st) >= floor

------------------------------------------------------------------------------
\* observeRecordAccess(): only gains queue history, a loss cancels it.
InPartition(r, q) == Current(r) /\ head[r].part = q

HasHistory(q, cutoff) == \E r \in Rows : InPartition(r, q) /\ head[r].pos <= cutoff

Gains(st) == readable \ st.access

NewCatchupsFromBoundary(st) ==
    {[key |-> q, cutoff |-> st.boundary, id |-> 0] :
        q \in {g \in Gains(st) : HasHistory(g, st.boundary)}}

NewCatchups(st) ==
    {[key |-> q, cutoff |-> Consumed(st), id |-> 0] :
        q \in {g \in Gains(st) : HasHistory(g, Consumed(st))}}

ObserveAccess(st) ==
    IF st.accessRev = accessRev THEN st
    ELSE [st EXCEPT
            !.catchups = {c \in st.catchups : c.key \in readable} \cup NewCatchups(st),
            !.changes = @ \cup Gains(st) \cup (st.access \ readable),
            !.access = readable,
            !.accessRev = accessRev]

\* A new bounded round pins the committed clock; a gain seen mid-round extends it.
PinTarget(st, next) ==
    LET pinned == IF st.target = NoTarget \/ st.targetComplete THEN position ELSE st.target
    IN  IF st.mode # "delta" THEN next
        ELSE [next EXCEPT
                !.target = IF Gains(st) # {} /\ position > pinned THEN position ELSE pinned,
                !.targetComplete = FALSE]

Opened(st, bounded) ==
    LET next == ObserveAccess(st)
    IN  IF bounded THEN [PinTarget(st, next) EXCEPT !.bounded = TRUE] ELSE next

------------------------------------------------------------------------------
\* What a page may scan: rows by keyset for catchups and snapshots, journal
\* positions for a delta.
CatchupScan(c) ==
    {r \in Rows : InPartition(r, c.key) /\ r > c.id /\ head[r].pos <= c.cutoff}

SnapshotScan(st, bounded) ==
    {r \in Rows : Current(r) /\ r > st.id /\ (bounded => head[r].pos <= st.boundary)}

DeltaScan(st, bounded, target) ==
    {p \in (floor + 1)..position : p > st.after /\ (bounded => p <= target)}

\* ORDER BY ... LIMIT n
InitialSegment(S, scan, n) ==
    /\ S \subseteq scan
    /\ Cardinality(S) <= n
    /\ \A x \in S : \A y \in scan \ S : x < y

MaxOf(S, default) == IF S = {} THEN default ELSE CHOOSE x \in S : \A y \in S : y <= x

RowChange(r, version) ==
    [row |-> r, op |-> "upsert", part |-> head[r].part, version |-> version, pos |-> head[r].pos]

JournalChange(p) ==
    [row |-> journal[p].row, op |-> journal[p].op, part |-> journal[p].part,
     version |-> p, pos |-> p]

\* recordVisibility(): current authority, checked on every entry of every page.
VisibleRows(S) == {r \in S : head[r].part \in readable}

VisibleByCurrentRow(S) == {p \in S : head[journal[p].row].part \in readable}

VisibleEntries(S) == {p \in S : journal[p].part \in readable}

\* The device asks for n entries at most.  Access notifications come first and
\* count; then the page scans up to n, or stops earlier when the byte budget is
\* spent on what it shows.
Drains(next, n) ==
    {D \in SUBSET next.changes :
        Cardinality(D) = (IF Cardinality(next.changes) < n THEN Cardinality(next.changes) ELSE n)}

StopsAt(next, scan, visible, n) ==
    {stop \in [drained : Drains(next, n), scanned : SUBSET scan] :
        LET room == n - Cardinality(stop.drained)
        IN  /\ InitialSegment(stop.scanned, scan, room)
            /\ \/ stop.scanned = scan
               \/ Cardinality(stop.scanned) = room
               \/ stop.scanned \cap visible # {}
               \/ stop.drained # {}}

Stops(next, scan, visible) == UNION {StopsAt(next, scan, visible, n) : n \in 1..Limit}

\* The continuation after a page that served catchup c of next.
AfterCatchup(next, c, S, scan) ==
    [next EXCEPT !.catchups =
        (@ \ {c}) \cup (IF S = scan THEN {} ELSE {[c EXCEPT !.id = MaxOf(S, c.id)]})]

\* A finished snapshot hands over to the delta strictly after its boundary.
AfterSnapshot(st, next, bounded, S, scan) ==
    IF S # scan THEN [next EXCEPT !.id = MaxOf(S, st.id)]
    ELSE [next EXCEPT !.mode = "delta", !.id = MaxOf(S, st.id), !.after = st.boundary,
                      !.target = IF bounded THEN position ELSE @,
                      !.targetComplete = FALSE]

\* A bounded delta that scanned all it may moves over hidden positions to T.
AfterDelta(st, next, bounded, S, scan) ==
    [next EXCEPT !.after = IF bounded /\ S = scan THEN next.target ELSE MaxOf(S, st.after)]

CertifiedUndrained(st, next, more) ==
    st.mode = "delta" /\ next.mode = "delta" /\ next.after = next.target

\* The round is complete: the journal was scanned to the target and nothing that
\* an authority change queued is left.
Certified(st, next, more) ==
    /\ st.mode = "delta" /\ next.mode = "delta"
    /\ next.after = next.target
    /\ next.catchups = {} /\ next.changes = {}
    /\ ~more

\* The page's progress count and its certificate.
Closed(st, next, bounded, more) ==
    [next EXCEPT !.progress = st.progress + 1,
                 !.targetComplete = IF bounded THEN Certified(st, next, more) ELSE @]

------------------------------------------------------------------------------
\* The pages that may be read at state st: the continuation and the changes.
CatchupPages(st, bounded) ==
    LET opened == Opened(st, bounded)
        PagesOf(c) ==
            {[state |-> Closed(st, AfterCatchup([opened EXCEPT !.changes = @ \ stop.drained],
                                                c, stop.scanned, CatchupScan(c)), bounded, TRUE),
              page |-> {RowChange(r, head[r].pos) : r \in VisibleRows(stop.scanned)}] :
                stop \in Stops(opened, CatchupScan(c), VisibleRows(CatchupScan(c)))}
    IN  UNION {PagesOf(c) : c \in opened.catchups}

SnapshotPages(st, bounded) ==
    LET opened == Opened(st, bounded)
        scan == SnapshotScan(st, bounded)
    IN  IF st.mode # "snapshot" \/ opened.catchups # {} THEN {}
        ELSE {[state |-> Closed(st, AfterSnapshot(st, [opened EXCEPT !.changes = @ \ stop.drained],
                                                  bounded, stop.scanned, scan), bounded, TRUE),
               page |-> {RowChange(r, st.boundary) : r \in VisibleRows(stop.scanned)}] :
                stop \in Stops(opened, scan, VisibleRows(scan))}

DeltaPages(st, bounded) ==
    LET opened == Opened(st, bounded)
        scan == DeltaScan(st, bounded, opened.target)
    IN  IF st.mode # "delta" \/ opened.catchups # {} THEN {}
        ELSE {[state |-> Closed(st, AfterDelta(st, [opened EXCEPT !.changes = @ \ stop.drained],
                                               bounded, stop.scanned, scan), bounded, stop.scanned # scan),
               page |-> {JournalChange(p) : p \in VisibleEntries(stop.scanned)}] :
                stop \in Stops(opened, scan, VisibleEntries(scan))}

Pages(st, bounded) ==
    CatchupPages(st, bounded) \cup SnapshotPages(st, bounded) \cup DeltaPages(st, bounded)

NothingNewInJournal(st, bounded) ==
    /\ ~bounded /\ st.mode = "delta"
    /\ DeltaScan(st, bounded, Opened(st, bounded).target) = {}

\* An unextended delta with nothing new hands the same cursor back.
NothingNew(st, bounded) ==
    LET opened == Opened(st, bounded)
    IN  /\ ~bounded /\ st.mode = "delta"
        /\ opened.catchups = {} /\ opened.changes = {}
        /\ DeltaScan(st, bounded, opened.target) = {}
==============================================================================
