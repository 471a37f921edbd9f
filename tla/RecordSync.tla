------------------------------ MODULE RecordSync ------------------------------
(* One device cache of one actor, synchronising a workspace through protocol  *)
(* v2: registration, pages, acknowledgements, retirement and re-registration, *)
(* against every write and authority change of RecordLog.                     *)
(*                                                                            *)
(* Server: reg (flightdeck_pg_record_clients) and issued / live               *)
(* (flightdeck_pg_record_page_tokens).  Token 0 is the registration's initial *)
(* cursor, the others are numbered in order of creation.  A token that        *)
(* expired, was evicted or was deleted is no longer live.                     *)
(*                                                                            *)
(* Device (external): each copy of the client's local database has a cache and *)
(* the cursors it committed, the newest being the one it continues from.  A    *)
(* page and its cursor commit together, and only if the page was read from     *)
(* that newest cursor; a response may come at any later time or never.  A copy *)
(* may be replaced by another one (a restored backup, a second tab that lags). *)
(* Acknowledgements of any committed cursor may arrive late or twice.          *)
EXTENDS RecordPage

CONSTANTS
    Extensions,     \* which pages the device asks for: bounded or not
    MaxTokens,      \* RECORD_PAGE_TOKEN_LIMIT
    MaxIssued,      \* bound on pages per registration
    MaxReplies,     \* bound on page responses on their way
    Devices,        \* copies of the client's local database
    Events          \* which rare events the instance includes

ASSUME ExtensionsAssumption == Extensions \subseteq BOOLEAN
ASSUME TokensAssumption == MaxTokens \in Nat \ {0} /\ MaxIssued \in Nat /\ MaxReplies \in Nat
ASSUME DevicesAssumption == Devices # {}
ASSUME EventsAssumption ==
    Events \subseteq {"membership", "rebind", "prune", "restart", "retire", "idle", "reclaim", "expire"}

VARIABLES
    reg,        \* the registration
    issued,     \* page tokens of this registration, in order of creation
    live,       \* the ones the server still accepts
    replies,    \* page responses on their way
    cache,      \* each copy's rows
    held,       \* the cursors each copy committed
    lapsed      \* partitions lost since registration, or across a restart

vars == <<journal, head, floor, epoch, accessRev, readable, member,
          reg, issued, live, replies, cache, held, lapsed>>

\* flightdeck_pg_record_clients.  ck = 0 stands for a NULL checkpoint_cursor;
\* checkpoint_state is a copy of the token's immutable state.
Registrations == [open : BOOLEAN, epoch : Nat, initial : States, ck : Nat, rev : Nat, idle : BOOLEAN]

\* base: base_revision; seen: the checkpoint_revision of the last response that
\* named the token.
Tokens == [state : States, base : Nat, epoch : Nat, seen : Nat]

\* The page read with cursor from, whose next_cursor is token.
Replies == [from : Nat, token : Nat, page : SUBSET Changes]

\* label: the version the copy knows the row by; pos: the entry it holds.
Copies == [op : Ops \cup {"none"}, label : Nat, pos : Nat, part : Parts]

StateOf(t) == IF t = 0 THEN reg.initial ELSE issued[t].state

EmptyCache == [r \in Rows |-> [op |-> "none", label |-> 0, pos |-> 0, part |-> CHOOSE q \in Parts : TRUE]]

TypeOK ==
    /\ LogTypeOK
    /\ reg \in Registrations
    /\ reg.ck \in 0..Len(issued)
    /\ issued \in Seq(Tokens)
    /\ live \in SUBSET (1..Len(issued))
    /\ replies \in SUBSET Replies
    /\ cache \in [Devices -> [Rows -> Copies]]
    /\ held \in [Devices -> SUBSET (0..Len(issued))]
    /\ lapsed \in SUBSET Parts

Init ==
    /\ LogInit
    /\ reg = [open |-> FALSE, epoch |-> 0, initial |-> InitialState, ck |-> 0, rev |-> 0, idle |-> FALSE]
    /\ issued = <<>>
    /\ live = {}
    /\ replies = {}
    /\ cache = [d \in Devices |-> EmptyCache]
    /\ held = [d \in Devices |-> {}]
    /\ lapsed = {}

------------------------------------------------------------------------------
\* requireRecordClient() under a current membership.
Admitted == member /\ reg.open /\ ~reg.idle /\ reg.epoch = epoch

Opening == [open |-> TRUE, epoch |-> epoch, initial |-> InitialState, ck |-> 0, rev |-> 0, idle |-> FALSE]

\* A first registration, or one after the device was retired: a new cache.
Register ==
    /\ member /\ ~reg.open
    /\ reg' = Opening
    /\ held' = [d \in Devices |-> {0}]
    /\ UNCHANGED <<logVars, issued, live, replies, cache, lapsed>>

RestartKeepingTokens ==
    /\ member /\ reg.open /\ reg.epoch = epoch
    /\ reg.idle \/ ~HistoryRetained(StateOf(reg.ck))
    /\ reg' = Opening
    /\ issued' = <<>>
    /\ replies' = {}
    /\ held' = [d \in Devices |-> {0}]
    /\ lapsed' = Parts
    /\ UNCHANGED <<logVars, live, cache>>

\* Registering the same cache after an idle or retention boundary restarts its
\* checkpoint in place; an epoch change does not.
Restart ==
    /\ member /\ reg.open /\ reg.epoch = epoch
    /\ reg.idle \/ ~HistoryRetained(StateOf(reg.ck))
    /\ reg' = Opening
    /\ issued' = <<>>
    /\ live' = {}
    /\ replies' = {}
    /\ held' = [d \in Devices |-> {0}]
    /\ lapsed' = Parts
    /\ UNCHANGED <<logVars, cache>>

\* retireRecordClient(): the device drops its cache with the registration.
Retire ==
    /\ member /\ reg.open
    /\ reg' = [reg EXCEPT !.open = FALSE, !.ck = 0, !.rev = 0, !.idle = FALSE]
    /\ issued' = <<>>
    /\ live' = {}
    /\ replies' = {}
    /\ held' = [d \in Devices |-> {}]
    /\ cache' = [d \in Devices |-> EmptyCache]
    /\ lapsed' = {}
    /\ UNCHANGED logVars

\* 90 days without a request.
ClientIdles ==
    /\ reg.open /\ ~reg.idle
    /\ reg' = [reg EXCEPT !.idle = TRUE]
    /\ UNCHANGED <<logVars, issued, live, replies, cache, held, lapsed>>

\* Another device of the actor registers and reclaims the idle registration; the
\* device learns of it when it registers again, with the cache it kept.
ReclaimIdle ==
    /\ reg.open /\ reg.idle
    /\ reg' = [reg EXCEPT !.open = FALSE, !.ck = 0, !.rev = 0, !.idle = FALSE]
    /\ issued' = <<>>
    /\ live' = {}
    /\ replies' = {}
    /\ held' = [d \in Devices |-> {}]
    /\ lapsed' = Parts
    /\ UNCHANGED <<logVars, cache>>

\* Seven days without use.
TokenExpires(t) ==
    /\ t \in live
    /\ live' = live \ {t}
    /\ UNCHANGED <<logVars, reg, issued, replies, cache, held, lapsed>>

------------------------------------------------------------------------------
\* The cursor names the initial state, the checkpoint, or a retained token.
Accepts(t) == t = 0 \/ t = reg.ck \/ t \in live

ReadableWithoutHistory(t, bounded) ==
    /\ Admitted
    /\ Accepts(t)
    /\ StateOf(t).bounded => bounded

\* bounded_snapshot_v1 cannot be dropped from a continuation that has it.
Readable(t, bounded) ==
    /\ Admitted
    /\ Accepts(t)
    /\ StateOf(t).bounded => bounded
    /\ HistoryRetained(StateOf(t))

\* OFFSET 512: the newest tokens stay.
Retained(S) == {t \in S : Cardinality({u \in S : u > t}) < MaxTokens}

\* The cursor copy d continues from.
IsNewest(t, d) == t \in held[d] /\ \A u \in held[d] : u <= t

ReadPage(t, bounded) ==
    /\ \E d \in Devices : IsNewest(t, d)
    /\ Readable(t, bounded)
    /\ ~NothingNew(StateOf(t), bounded)
    /\ Len(issued) < MaxIssued /\ Cardinality(replies) < MaxReplies
    /\ \E out \in Pages(StateOf(t), bounded) :
        /\ issued' = Append(issued, [state |-> out.state, base |-> reg.rev,
                                    epoch |-> epoch, seen |-> reg.rev])
        /\ replies' = replies \cup {[from |-> t, token |-> Len(issued) + 1, page |-> out.page]}
        /\ live' = Retained(live \cup {Len(issued) + 1})
    /\ UNCHANGED <<logVars, reg, cache, held, lapsed>>

\* The response names the requested cursor again, at today's revision.
ReadNothing(t) ==
    /\ \E d \in Devices : IsNewest(t, d)
    /\ t # 0
    /\ Readable(t, FALSE)
    /\ NothingNew(StateOf(t), FALSE)
    /\ issued[t].seen # reg.rev
    /\ issued' = [issued EXCEPT ![t].seen = reg.rev]
    /\ UNCHANGED <<logVars, reg, live, replies, cache, held, lapsed>>

\* A change replaces what the copy knows by an older version, and nothing else.
Newer(copy, page, r) ==
    LET mine == {ch \in page : ch.row = r}
    IN  IF mine = {} THEN copy
        ELSE LET ch == CHOOSE c \in mine : \A e \in mine : e.version <= c.version
             IN  IF ch.version <= copy.label THEN copy
                 ELSE [op |-> ch.op, label |-> ch.version, pos |-> ch.pos, part |-> ch.part]

\* The device materialises a page and its cursor in one local transaction.  A
\* reply to a cursor that no copy continues from any more is ignored for good.
ApplyPage(d, m) ==
    /\ IsNewest(m.from, d)
    /\ cache' = [cache EXCEPT ![d] = [r \in Rows |-> Newer(cache[d][r], m.page, r)]]
    /\ held' = [held EXCEPT ![d] = @ \cup {m.token}]
    /\ replies' = {n \in replies \ {m} : \E e \in Devices : IsNewest(n.from, e)'}
    /\ UNCHANGED <<logVars, reg, issued, live, lapsed>>

\* Copy d is replaced by copy e.
Replace(d, e) ==
    /\ held[d] # held[e]
    /\ cache' = [cache EXCEPT ![d] = cache[e]]
    /\ held' = [held EXCEPT ![d] = held[e]]
    /\ replies' = {n \in replies : \E f \in Devices : IsNewest(n.from, f)'}
    /\ UNCHANGED <<logVars, reg, issued, live, lapsed>>

CountsProgressOnly(next, committed) ==
    /\ next.boundary = committed.boundary
    /\ next.progress >= committed.progress

\* stateDoesNotRegress()
DoesNotRegress(next, committed) ==
    /\ next.boundary = committed.boundary
    /\ committed.bounded => next.bounded
    /\ next.progress >= committed.progress
    /\ next.accessRev >= committed.accessRev
    /\ IF committed.mode = "delta" THEN next.mode = "delta" /\ next.after >= committed.after
       ELSE IF next.mode = "delta" THEN next.after >= committed.boundary
       ELSE next.id >= committed.id

\* acknowledgeRecordCheckpoint(): the device sends the revision the response
\* carried.  A retry of the current checkpoint succeeds and changes nothing.
Acknowledge(t) ==
    /\ Admitted
    /\ \E d \in Devices : t \in held[d] \ {0, reg.ck}
    /\ t \in live /\ issued[t].epoch = epoch
    /\ issued[t].seen = reg.rev /\ issued[t].base = reg.rev
    /\ reg.ck # 0 => DoesNotRegress(StateOf(t), StateOf(reg.ck))
    /\ HistoryRetained(StateOf(t))
    /\ reg' = [reg EXCEPT !.ck = t, !.rev = @ + 1]
    /\ UNCHANGED <<logVars, issued, live, replies, cache, held, lapsed>>

------------------------------------------------------------------------------
\* The device's books of a step of RecordLog: the rows of a partition that is
\* lost may be deleted or moved away unseen.
DeviceUnaware ==
    /\ lapsed' = IF reg.open THEN lapsed \cup (readable \ readable') ELSE lapsed
    /\ UNCHANGED <<reg, issued, live, replies, cache, held>>

LogNext ==
    \/ \E r \in Rows, q \in Parts : WriteRow(r, q)
    \/ \E r \in Rows : DeleteRow(r)
    \/ \E A \in SUBSET Parts : ChangeAuthority(A)
    \/ "membership" \in Events /\ LeaveWorkspace
    \/ "membership" \in Events /\ \E A \in SUBSET Parts : JoinWorkspace(A)
    \/ "rebind" \in Events /\ RebindIdentity
    \/ "prune" \in Events /\ \E p \in 1..position : PruneJournal(p)

Next ==
    \/ LogNext /\ DeviceUnaware
    \/ Register
    \/ "restart" \in Events /\ Restart
    \/ "retire" \in Events /\ Retire
    \/ "idle" \in Events /\ ClientIdles
    \/ "reclaim" \in Events /\ ReclaimIdle
    \/ "expire" \in Events /\ \E t \in live : TokenExpires(t)
    \/ \E t \in 0..Len(issued), bounded \in Extensions : ReadPage(t, bounded)
    \/ FALSE \in Extensions /\ \E t \in 1..Len(issued) : ReadNothing(t)
    \/ \E d \in Devices, m \in replies : ApplyPage(d, m)
    \/ \E d, e \in Devices : Replace(d, e)
    \/ \E t \in 1..Len(issued) : Acknowledge(t)

Spec == Init /\ [][Next]_vars

\* The device keeps pulling: it registers, registers again when told to, asks for
\* the page after its newest cursor, and some reply reaches it.
Fairness ==
    /\ WF_vars(Register)
    /\ WF_vars("restart" \in Events /\ Restart)
    /\ WF_vars(\E t \in 0..Len(issued), bounded \in Extensions : ReadPage(t, bounded))
    /\ WF_vars(\E d \in Devices, m \in replies : ApplyPage(d, m))

LiveSpec == Spec /\ Fairness

------------------------------------------------------------------------------
\* Row r is ahead of continuation st: its newest entry may still be delivered by
\* the journal, by the unfinished snapshot, or by a pending catchup.
AheadInOrder(st, r) ==
    \/ head[r].pos > Consumed(st)
    \/ st.mode = "snapshot" /\ r > st.id

AheadInCatchup(st, r) ==
    \E c \in st.catchups : c.key = head[r].part /\ r > c.id /\ head[r].pos <= c.cutoff

Ahead(st, r) == AheadInOrder(st, r) \/ AheadInCatchup(st, r)

Covered(st, d) ==
    \A r \in Rows :
        Current(r) /\ head[r].part \in st.access => cache[d][r].pos >= head[r].pos \/ Ahead(st, r)

\* Every cursor a copy holds and the server would still continue from has all
\* that the copy lacks ahead of it, whichever of its cursors are acknowledged
\* (readFlightDeckRecordPage, acknowledgeRecordCheckpoint, requireRecordHistory).
CursorsCoverTheLog ==
    \A d \in Devices : \A t \in held[d] : HistoryRetained(StateOf(t)) => Covered(StateOf(t), d)

\* A copy is never older than its label says: no entry of the row at or below
\* the label is newer than what the device holds.  Adoption relies on it when
\* it accepts any label at least the authoritative version.
LabelsAreSound ==
    \A d \in Devices, r \in Rows, p \in 1..position :
        journal[p].row = r /\ p <= cache[d][r].label => p <= cache[d][r].pos

\* A row that left a partition the actor never lost is gone from the copy, or
\* its tombstone is ahead of every cursor the copy may continue from.
RemovalsReachTheDevice ==
    \A d \in Devices, r \in Rows : \A t \in held[d] :
        LET st == StateOf(t)
            q == cache[d][r].part
        IN  /\ HistoryRetained(st)
            /\ cache[d][r].op = "upsert" /\ q \in st.access \ lapsed
            /\ ~InPartition(r, q)
            => \E p \in (Consumed(st) + 1)..position : journal[p] = Entry(r, "delete", q)

\* handover.complete: every current readable row through the target is on the
\* device, even when the journal was pruned or rows moved between partitions.
CertificatesAreComplete ==
    \A d \in Devices, r \in Rows : \A t \in held[d] :
        LET st == StateOf(t)
        IN  /\ st.targetComplete
            /\ Current(r) /\ head[r].part \in st.access /\ head[r].pos <= st.after
            => cache[d][r].pos >= head[r].pos

\* An acknowledgement never puts rows back in front of the checkpoint that its
\* journal position or snapshot keyset had already passed: no acknowledgement
\* of a stale or slower branch undoes another one (acknowledgeRecordCheckpoint).
CheckpointKeepsItsPlace ==
    [][reg'.ck \notin {0, reg.ck} =>
         \A r \in Rows : AheadInOrder(StateOf(reg.ck), r)' => AheadInOrder(StateOf(reg.ck), r)]_vars

\* The pull loop converges: once writes, grants and pruning have stopped, every
\* copy ends up with every current row the actor may read, and keeps it.
PullConverges ==
    <>[](\A d \in Devices, r \in Rows :
            Current(r) /\ head[r].part \in readable => cache[d][r].pos >= head[r].pos)

------------------------------------------------------------------------------
\* A statement of the repository's documents that the code does not keep.

\* bounded-record-snapshots-v1: the journal prefix through T is on the device,
\* also where a row it covers has newer entries by now.
CertificatesCoverThePrefix ==
    \A d \in Devices, p \in 1..position : \A t \in held[d] :
        LET st == StateOf(t)
            e == journal[p]
        IN  /\ st.targetComplete
            /\ e.op = "upsert" /\ e.part \in st.access /\ p <= st.after
            /\ \A q \in (p + 1)..st.after : journal[q].row # e.row
            => cache[d][e.row].pos >= p
==============================================================================
