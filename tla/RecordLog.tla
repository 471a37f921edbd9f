------------------------------ MODULE RecordLog ------------------------------
(* The workspace's committed record log and the authority one actor reads it  *)
(* with: flightdeck_pg_record_clock, _journal, _current and _heads, written   *)
(* by the SQL functions emit, capture and reset.  Every writer updates the    *)
(* clock row first and holds it until commit, so committed writes are totally *)
(* ordered and each action below is one transaction.                          *)
(*                                                                            *)
(* Abstractions.  A row is its (family,id) keyset number; its content is the  *)
(* journal position that wrote it.  A partition is one key of                 *)
(* flightdeck_pg_record_access (resource:family); readable says which keys    *)
(* the actor's live grants yield.  Dependent tombstones are rows of their own.*)
EXTENDS Integers, Sequences, FiniteSets

CONSTANTS
    Rows,           \* (family,id) pairs, numbered in keyset order
    Parts,          \* readable-partition keys of record_access
    MaxPosition,    \* bound on the journal
    MaxAccessRev,   \* bound on authority changes
    MaxEpoch        \* bound on identity rebindings

ASSUME RowsAssumption == Rows \subseteq Nat \ {0} /\ IsFiniteSet(Rows)
ASSUME PartsAssumption == Parts # {}
ASSUME BoundsAssumption ==
    /\ MaxPosition \in Nat
    /\ MaxAccessRev \in Nat
    /\ MaxEpoch \in Nat

VARIABLES
    journal,    \* every entry ever written; entry p has position p
    head,       \* latest entry of each row: [op, pos, part]
    floor,      \* positions at or below it are gone from the journal
    epoch,      \* identity boundary
    accessRev,  \* clock.access_revision
    readable,   \* partitions the actor's grants cover now
    member      \* the actor's workspace membership

logVars == <<journal, head, floor, epoch, accessRev, readable, member>>

Ops == {"upsert", "delete"}
Entries == [row : Rows, op : Ops, part : Parts]
Heads == [op : Ops \cup {"none"}, pos : Nat, part : Parts]

position == Len(journal)

\* flightdeck_pg_record_current holds exactly the rows whose head is an upsert.
Current(r) == head[r].op = "upsert"

LogTypeOK ==
    /\ journal \in Seq(Entries)
    /\ head \in [Rows -> Heads]
    /\ floor \in 0..position
    /\ epoch \in Nat
    /\ accessRev \in Nat
    /\ readable \in SUBSET Parts
    /\ member \in BOOLEAN

LogInit ==
    /\ journal = <<>>
    /\ head = [r \in Rows |-> [op |-> "none", pos |-> 0, part |-> CHOOSE q \in Parts : TRUE]]
    /\ floor = 0
    /\ epoch = 0
    /\ accessRev = 0
    /\ readable \in SUBSET Parts
    /\ member = TRUE

------------------------------------------------------------------------------
\* emit(): one clock tick, one journal entry, current and heads follow it.
Entry(r, o, q) == [row |-> r, op |-> o, part |-> q]

Emit(r, o, q) ==
    /\ position < MaxPosition
    /\ journal' = Append(journal, Entry(r, o, q))
    /\ head' = [head EXCEPT ![r] = [op |-> o, pos |-> position + 1, part |-> q]]

\* An update that changes the row's channel first emits a delete of the old
\* image and then the new image, in the same transaction.
EmitMove(r, q) ==
    /\ position + 1 < MaxPosition
    /\ journal' = journal \o <<Entry(r, "delete", head[r].part), Entry(r, "upsert", q)>>
    /\ head' = [head EXCEPT ![r] = [op |-> "upsert", pos |-> position + 2, part |-> q]]

Moves(r, q) == head[r].op # "none" /\ head[r].part # q

\* capture(): an insert, an update, a restore, or a move to partition q.
WriteRow(r, q) ==
    /\ IF Moves(r, q) THEN EmitMove(r, q) ELSE Emit(r, "upsert", q)
    /\ UNCHANGED <<floor, epoch, accessRev, readable, member>>

\* capture(): a row deletion, or deleted_at / archived_at set on the row.
DeleteRow(r) ==
    /\ Current(r)
    /\ Emit(r, "delete", head[r].part)
    /\ UNCHANGED <<floor, epoch, accessRev, readable, member>>

\* reset(): grants, groups, scopes and channels change what the actor may read,
\* or change somebody else's authority and leave this actor's as it was.
ChangeAuthority(A) ==
    /\ accessRev < MaxAccessRev
    /\ member
    /\ accessRev' = accessRev + 1
    /\ readable' = A
    /\ UNCHANGED <<journal, head, floor, epoch, member>>

\* reset() on workspace_memberships: record_access of a non-member is empty.
LeaveWorkspace ==
    /\ accessRev < MaxAccessRev
    /\ member
    /\ member' = FALSE
    /\ readable' = {}
    /\ accessRev' = accessRev + 1
    /\ UNCHANGED <<journal, head, floor, epoch>>

JoinWorkspace(A) ==
    /\ accessRev < MaxAccessRev
    /\ ~member
    /\ member' = TRUE
    /\ readable' = A
    /\ accessRev' = accessRev + 1
    /\ UNCHANGED <<journal, head, floor, epoch>>

\* reset(): an actor or workspace identity is rebound.
RebindIdentity ==
    /\ epoch < MaxEpoch
    /\ epoch' = epoch + 1
    /\ accessRev' = accessRev + 1
    /\ UNCHANGED <<journal, head, floor, readable, member>>

\* Operators prune a prefix of the journal; the service only reads the floor.
PruneJournal(p) ==
    /\ p \in (floor + 1)..position
    /\ floor' = p
    /\ UNCHANGED <<journal, head, epoch, accessRev, readable, member>>
==============================================================================
