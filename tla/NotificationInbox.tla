---------------------------- MODULE NotificationInbox ----------------------------
(* From a committed event to the inbox of each recipient, and from the inbox to  *)
(* the copy a client keeps:                                                      *)
(*                                                                               *)
(*   src/services/notification-projector.ts   claimIntake, processIntakeBatch,   *)
(*                                             writeItem, tombstoneItem          *)
(*   src/services/notification-producers.ts   ingestProducerEvent,               *)
(*                                             setSourceStatus                   *)
(*   src/services/notification-inbox.ts       sweepRecipient, listItems,         *)
(*                                             listChanges, patchItem, bulkMutate *)
(*   src/services/notification-worker.ts      runMaintenance                     *)
(*   src/schema/notifications-v1.sql          intake capture, view bridge        *)
(*                                                                               *)
(* A worker leases a row of the queue, projects one page of its recipients in    *)
(* one transaction and settles the row in the same transaction.  A worker whose  *)
(* lease lapsed is not told: it may commit or fail later, beside the worker that *)
(* took the row over.  Every writer of one inbox takes that recipient's cursor   *)
(* lock and holds it to its commit, so the writes of a transaction are those of  *)
(* the moment it commits; only the watermark of what the recipient has viewed is *)
(* read earlier, when the lock is taken.                                         *)
(*                                                                               *)
(* One thread (the Tower rules' events, version n for its n-th event) and one    *)
(* group of one external source.  Recipients are the actors the rules and the    *)
(* access oracle let through, numbered in the order of their ids.  Alerts are    *)
(* AlertQueue's; hints carry no state; dismissing and archiving are one closing. *)
EXTENDS Integers, Sequences, FiniteSetsExt

CONSTANTS Recipients,    \* a set of positive numbers
          Page,          \* RECIPIENT_PAGE
          Limit,         \* rows in one answer of listChanges
          Projectors,    \* workers
          MaxAttempts,   \* MAX_INTAKE_ATTEMPTS
          Ops,           \* the kinds of event that occur
          Readers,       \* bound: the recipients whose clients act
          MaxEvents,     \* bound: events
          MaxMoves       \* bound: faults and acts of the recipients

ASSUME InboxAssumption ==
  /\ Recipients \subseteq Nat \ {0} /\ IsFiniteSet(Recipients) /\ Readers \subseteq Recipients
  /\ Page \in Nat \ {0} /\ Limit \in Nat \ {0} /\ MaxAttempts \in Nat \ {0}
  /\ Ops \subseteq {"rule", "publish", "resolve", "withdraw"}
  /\ MaxEvents \in Nat /\ MaxMoves \in Nat
  /\ 0 \notin Projectors

VARIABLES queue,    \* the intake rows; event is the state of the event itself
          source,   \* grant_status of the external source
          inbox,    \* per recipient: cursor row, viewed watermark, items
          job,      \* per worker: what it claimed and how far its transaction is
          copy,     \* per recipient: what its client holds
          moves     \* faults and acts of the recipients so far

inboxVars == <<queue, source, inbox, job, copy, moves>>

(* A fault, a passing of time or an act of a recipient, counted.                 *)
Move == moves < MaxMoves /\ moves' = moves + 1

AtRest   == [phase |-> "idle", row |-> 0, attempts |-> 0, resume |-> 0,
           page |-> {}, seen |-> [r \in Recipients |-> 0]]
Absent == [count |-> 0]

InboxInit ==
  /\ queue = <<>>
  /\ source = "active"
  /\ inbox = [r \in Recipients |-> [seq |-> 0, floor |-> 0, viewed |-> 0,
                                    lock |-> 0, items |-> <<>>]]
  /\ job = [w \in Projectors |-> AtRest]
  /\ copy = [r \in Recipients |-> [cold |-> TRUE, swept |-> FALSE, pos |-> 0,
                                   held |-> [i \in 1..MaxEvents |-> Absent]]]
  /\ moves = 0

--------------------------------------------------------------------------------
(* The items of one inbox.                                                       *)

Thread(op) == IF op = "rule" THEN "thread" ELSE "app"

Present(i)    == ~i.removed /\ ~i.gone
Open(i)    == Present(i) /\ i.read = "no" /\ ~i.closed
Received(b, e)  == \E i \in DOMAIN b.items : e \in b.items[i].events
OpenIn(b, g)    == {i \in DOMAIN b.items : Open(b.items[i]) /\ b.items[i].group = g}

Rank(S, key(_), x) == Cardinality({y \in S : key(y) =< key(x)})

(* Changes the items S of inbox b, each under the next sequence number, in the   *)
(* order of key.                                                                 *)
Changed(b, S, key(_), new(_)) ==
  [b EXCEPT !.seq = @ + Cardinality(S),
            !.items = [i \in DOMAIN b.items |->
               IF i \in S
               THEN [new(b.items[i]) EXCEPT !.seq = b.seq + Rank(S, key, i)]
               ELSE b.items[i]]]

Removed(i) == [i EXCEPT !.removed = TRUE, !.group = "none"]
Tombstoned(b, S) == LET ById(i) == i IN Changed(b, S, ById, Removed)

(* writeItem: an event is written once per recipient; it folds into the open     *)
(* item of its group or makes an item, born read when the recipient has already  *)
(* viewed the thread that far.                                                   *)
FoldedOrNew(b, e, viewed) ==
  LET row  == queue[e]
      g    == Thread(row.op)
      fold == OpenIn(b, g)
      Folded(i) == [i EXCEPT !.count = @ + 1, !.events = @ \cup {e},
                             !.version = IF row.version > @ THEN row.version ELSE @]
      Any(i) == i
  IN  IF fold # {} THEN Changed(b, {Max(fold)}, Any, Folded)
      ELSE [b EXCEPT !.seq = @ + 1,
                     !.items = Append(@, [group |-> g, events |-> {e}, count |-> 1,
                        version |-> row.version, seq |-> b.seq + 1,
                        read |-> IF row.version # 0 /\ row.version =< viewed
                                 THEN "viewed" ELSE "no",
                        marked |-> FALSE, closed |-> FALSE, status |-> "active",
                        removed |-> FALSE, gone |-> FALSE])]

(* Mutant: the receipt is not looked for. *)
WrittenAgain(b, e, viewed) == FoldedOrNew(b, e, viewed)
Written(b, e, viewed) == IF Received(b, e) THEN b ELSE FoldedOrNew(b, e, viewed)

--------------------------------------------------------------------------------
(* The queue.                                                                    *)

NewRow(op, target) ==
  [op |-> op, target |-> target, event |-> "accepted", state |-> "pending", due |-> TRUE,
   leased |-> FALSE, attempts |-> 0, resume |-> 0,
   version |-> IF op = "rule"
               THEN 1 + Cardinality({e \in DOMAIN queue : queue[e].op = "rule"})
               ELSE 0]

(* An outbox event that the trigger captures, in the transaction of its message. *)
CaptureEvent ==
  /\ "rule" \in Ops /\ Len(queue) < MaxEvents
  /\ queue' = Append(queue, NewRow("rule", 0))
  /\ UNCHANGED <<source, inbox, job, copy, moves>>

(* An accepted event of the external source; a replay of its key changes         *)
(* nothing.  The grant is read before the transaction, so a source may get one   *)
(* more event after it was stopped.  (Bound: a resolve or a withdraw follows an  *)
(* event it is about.)                                                           *)
Published == {e \in DOMAIN queue : queue[e].op = "publish"}

IngestProducerEvent(op) ==
  /\ op \in Ops \ {"rule"} /\ Len(queue) < MaxEvents
  /\ IF source = "active" THEN UNCHANGED moves ELSE Move
  /\ \E target \in IF op = "publish" THEN {0} ELSE Published :
        queue' = Append(queue, NewRow(op, target))
  /\ UNCHANGED <<source, inbox, job, copy>>

Claimable(row) == \/ row.state = "pending" /\ row.due
                  \/ row.state = "leased" /\ ~row.leased

(* attempt_count grows past the limit when workers crash; the limit is all that  *)
(* is compared.                                                                  *)
NextAttempt(n) == IF n < MaxAttempts THEN n + 1 ELSE n

ClaimIntake(w, e) ==
  /\ job[w].phase = "idle" /\ Claimable(queue[e])
  /\ queue' = [queue EXCEPT ![e].state = "leased", ![e].leased = TRUE,
                            ![e].attempts = NextAttempt(@)]
  /\ job' = [job EXCEPT ![w] = [AtRest EXCEPT !.phase = "claimed", !.row = e,
                !.attempts = NextAttempt(queue[e].attempts), !.resume = queue[e].resume]]
  /\ UNCHANGED <<source, inbox, copy, moves>>

(* The lease passes while its worker is still busy, or a retry becomes due.      *)
LeaseLapses(e) ==
  /\ Move
  /\ queue[e].state = "leased" /\ queue[e].leased
  /\ queue' = [queue EXCEPT ![e].leased = FALSE]
  /\ UNCHANGED <<source, inbox, job, copy>>

RetryFallsDue(e) ==
  /\ queue[e].state = "pending" /\ ~queue[e].due
  /\ queue' = [queue EXCEPT ![e].due = TRUE]
  /\ UNCHANGED <<source, inbox, job, copy, moves>>

PageAfter(resume) ==
  {r \in Recipients : /\ r > resume
                      /\ Cardinality({q \in Recipients : resume < q /\ q =< r}) =< Page}

(* The transaction begins: it reads the source and the recipients of the page.   *)
BeginProjection(w) ==
  /\ job[w].phase = "claimed"
  /\ LET op == queue[job[w].row].op
         page == IF op = "rule" \/ (op = "publish" /\ source = "active")
                 THEN PageAfter(job[w].resume) ELSE {}
         dead == op # "rule" /\ source # "active"
     IN  job' = [job EXCEPT ![w].phase = IF dead THEN "rejected" ELSE "open",
                            ![w].page = page]
  /\ UNCHANGED <<queue, source, inbox, copy, moves>>

Locked(w) == {r \in Recipients : inbox[r].lock = w}

(* The recipients of the page are locked one by one, in the order of their ids.  *)
LockRecipient(w, r) ==
  /\ job[w].phase = "open" /\ r \in job[w].page \ Locked(w)
  /\ \A q \in job[w].page \ Locked(w) : r =< q
  /\ inbox[r].lock = 0
  /\ inbox' = [inbox EXCEPT ![r].lock = w]
  /\ job' = [job EXCEPT ![w].seen[r] = inbox[r].viewed]
  /\ UNCHANGED <<queue, source, copy, moves>>

Concerned(i, row) ==
  /\ Present(i)
  /\ \/ row.op = "resolve" /\ i.group = "app" /\ i.status = "active"
     \/ row.op = "withdraw" /\ row.target \in i.events

Resolved(i) == [i EXCEPT !.status = "resolved",
                         !.read = IF @ = "no" THEN "resolved" ELSE @]

(* A resolve or a withdraw changes every item it concerns, none of them locked   *)
(* by another transaction.                                                       *)
Answered(b, row) ==
  LET S == {i \in DOMAIN b.items : Concerned(b.items[i], row)}
      ById(i) == i
  IN  IF row.op = "resolve" THEN Changed(b, S, ById, Resolved)
      ELSE IF row.op = "withdraw" THEN Tombstoned(b, S) ELSE b

Unlocked(r, w) == [inbox[r] EXCEPT !.lock = IF @ = w THEN 0 ELSE @]

(* Mutant: a row whose page was projected is done. *)
SettledAfterPage(e, event, resume, more) ==
  [queue EXCEPT ![e].event = event, ![e].state = "done", ![e].leased = FALSE, ![e].resume = 0]
Settled(e, event, resume, more) ==
  IF more THEN [queue EXCEPT ![e].event = event, ![e].state = "pending", ![e].leased = FALSE,
                  ![e].due = TRUE, ![e].attempts = 0, ![e].resume = resume]
  ELSE [queue EXCEPT ![e].event = event, ![e].state = "done", ![e].leased = FALSE,
                     ![e].resume = 0]

(* Projection, the event's state and the settling of the row commit together.    *)
CommitProjection(w) ==
  LET e == job[w].row
      p == job[w].page
      more == p # {} /\ \E r \in Recipients : r > Max(p)
  IN  /\ job[w].phase \in {"open", "rejected"} /\ p \subseteq Locked(w)
      /\ IF job[w].phase = "open" /\ queue[e].op \in {"resolve", "withdraw"}
         THEN /\ \A r \in Recipients : \/ inbox[r].lock = 0
                                       \/ inbox[r] = Answered(inbox[r], queue[e])
              /\ inbox' = [r \in Recipients |-> Answered(inbox[r], queue[e])]
         ELSE inbox' = [r \in Recipients |->
                IF r \in p THEN Written(Unlocked(r, w), e, job[w].seen[r]) ELSE inbox[r]]
      /\ queue' = Settled(e, IF job[w].phase = "rejected" THEN "rejected" ELSE "projected",
                          IF more THEN Max(p) ELSE 0, more)
      /\ job' = [job EXCEPT ![w] = AtRest]
      /\ UNCHANGED <<source, copy, moves>>

(* The transaction fails and rolls back; its row is settled by id alone, in a    *)
(* statement of its own.                                                         *)
FailProjection(w) ==
  /\ Move
  /\ job[w].phase \in {"open", "rejected"}
  /\ inbox' = [r \in Recipients |-> Unlocked(r, w)]
  /\ job' = [job EXCEPT ![w] = [AtRest EXCEPT !.phase = "failed", !.row = job[w].row,
                                            !.attempts = job[w].attempts]]
  /\ UNCHANGED <<queue, source, copy>>

RecordFailure(w) ==
  /\ job[w].phase = "failed"
  /\ queue' = [queue EXCEPT ![job[w].row].leased = FALSE, ![job[w].row].due = FALSE,
                 ![job[w].row].state = IF job[w].attempts >= MaxAttempts
                                       THEN "dead" ELSE "pending"]
  /\ job' = [job EXCEPT ![w] = AtRest]
  /\ UNCHANGED <<source, inbox, copy, moves>>

(* The process stops: the transaction is lost, the row stays leased.             *)
CrashProjector(w) ==
  /\ Move
  /\ job[w].phase # "idle"
  /\ inbox' = [r \in Recipients |-> Unlocked(r, w)]
  /\ job' = [job EXCEPT ![w] = AtRest]
  /\ UNCHANGED <<queue, source, copy>>

(* setSourceStatus('disabled'): only the grant changes.  Items stay, and so do   *)
(* the open rows, whose events are rejected when a worker comes to them.  No     *)
(* request makes a stopped source active again.                                  *)
DisableSource ==
  /\ Move
  /\ source = "active" /\ Ops # {"rule"}
  /\ source' = "disabled"
  /\ UNCHANGED <<queue, inbox, job, copy>>

(* setSourceStatus('revoked'), of an active or a disabled source: its items are  *)
(* removed and its open rows closed.                                             *)
OfSource(b) == {i \in DOMAIN b.items : Present(b.items[i]) /\ b.items[i].group = "app"}

RevokeSource ==
  /\ Move
  /\ source # "revoked" /\ Ops # {"rule"}
  /\ \A r \in Recipients : OfSource(inbox[r]) = {} \/ inbox[r].lock = 0
  /\ source' = "revoked"
  /\ inbox' = [r \in Recipients |-> Tombstoned(inbox[r], OfSource(inbox[r]))]
  /\ queue' = [e \in DOMAIN queue |->
                IF queue[e].op # "rule" /\ queue[e].state \in {"pending", "leased"}
                THEN [queue[e] EXCEPT !.state = "done", !.leased = FALSE] ELSE queue[e]]
  /\ UNCHANGED <<job, copy>>

--------------------------------------------------------------------------------
(* The recipient.                                                                *)

Activity == Cardinality({e \in DOMAIN queue : queue[e].op = "rule"})

(* The view bridge: viewing the thread up to v reads the items up to v.          *)
Views(r, v) ==
  LET b == inbox[r]
      S == {i \in DOMAIN b.items : /\ Present(b.items[i]) /\ b.items[i].status = "active"
                                   /\ b.items[i].read = "no"
                                   /\ b.items[i].version \in 1..v}
      ById(i) == i
      Viewed(i) == [i EXCEPT !.read = "viewed"]
  IN  /\ Move /\ b.viewed < v /\ v =< Activity
      /\ inbox' = [inbox EXCEPT ![r] = [Changed(b, S, ById, Viewed) EXCEPT !.viewed = v]]
      /\ UNCHANGED <<queue, source, job, copy>>

(* Mutant: the bridge does not wait for the recipient's lock. *)
ViewResourceUnlocked(r, v) == Views(r, v)
ViewResource(r, v) == inbox[r].lock = 0 /\ Views(r, v)

(* Every request of the recipient first removes what expired or lost its source. *)
SweepRecipient(r) ==
  LET b == inbox[r]
      alive == {i \in DOMAIN b.items : Present(b.items[i])}
      orphans == IF source = "revoked" THEN OfSource(b) ELSE {}
  IN  /\ ~copy[r].swept /\ b.lock = 0
      /\ \E expired \in SUBSET alive :
           /\ IF expired = {} THEN UNCHANGED moves ELSE Move
           /\ inbox' = [inbox EXCEPT ![r] = Tombstoned(b, expired \cup orphans)]
      /\ copy' = [copy EXCEPT ![r].swept = TRUE]
      /\ UNCHANGED <<queue, source, job>>

Shown(i) == [count |-> i.count, read |-> i.read # "no", closed |-> i.closed,
             status |-> i.status]

Answer(r, pos, held) == copy' = [copy EXCEPT ![r] =
  [cold |-> FALSE, swept |-> FALSE, pos |-> pos, held |-> held]]

(* listItems: a cold start copies the live items and the head.                   *)
ListItems(r) ==
  LET b == inbox[r]
  IN  /\ copy[r].swept /\ copy[r].cold
      /\ Answer(r, b.seq, [i \in 1..MaxEvents |->
            IF i \in DOMAIN b.items /\ Present(b.items[i]) THEN Shown(b.items[i]) ELSE Absent])
      /\ UNCHANGED <<queue, source, inbox, job, moves>>

(* listChanges: 410 below the floor of kept tombstones, else a page of changes.  *)
BelowFloor(r) == copy[r].pos < inbox[r].floor

ListChanges(r) ==
  LET b    == inbox[r]
      news == {i \in DOMAIN b.items : ~b.items[i].gone /\ b.items[i].seq > copy[r].pos}
      BySeq(i) == b.items[i].seq
      page == {i \in news : Rank(news, BySeq, i) =< Limit}
  IN  /\ copy[r].swept /\ ~copy[r].cold
      /\ IF BelowFloor(r)
         THEN copy' = [copy EXCEPT ![r].cold = TRUE, ![r].swept = FALSE]
         ELSE Answer(r, IF page = news THEN b.seq ELSE Max({BySeq(i) : i \in page}),
                     [i \in 1..MaxEvents |->
                        IF i \notin page THEN copy[r].held[i]
                        ELSE IF b.items[i].removed THEN Absent ELSE Shown(b.items[i])])
      /\ UNCHANGED <<queue, source, inbox, job, moves>>

Patches == {"read", "unread", "close", "restore"}

Patched(i, p) ==
  [i EXCEPT !.read = IF p = "unread" THEN "no"
                     ELSE IF p \in {"read", "close"} /\ @ = "no" THEN "user" ELSE @,
            !.marked = (p = "unread") \/ (@ /\ p = "restore"),
            !.closed = IF p = "close" THEN TRUE ELSE IF p = "restore" THEN FALSE ELSE @]

(* patchItem at the row version the client read; a second open item of a group   *)
(* is refused by the unique index.                                               *)
PatchItem(r, i, p) ==
  LET b == inbox[r]
      One(j) == j
      New(x) == Patched(x, p)
  IN  /\ Move /\ copy[r].swept /\ b.lock = 0
      /\ i \in DOMAIN b.items /\ Present(b.items[i]) /\ Shown(b.items[i]) # Shown(New(b.items[i]))
      /\ Open(New(b.items[i])) => OpenIn(b, b.items[i].group) \subseteq {i}
      /\ inbox' = [inbox EXCEPT ![r] = Changed(b, {i}, One, New)]
      /\ copy' = [copy EXCEPT ![r].swept = FALSE]
      /\ UNCHANGED <<queue, source, job>>

(* Mutant: everything unread is selected, whatever the position sent. *)
BulkSelectionAll(r) ==
  {i \in DOMAIN inbox[r].items :
     LET x == inbox[r].items[i] IN Present(x) /\ x.read = "no" /\ ~x.closed}
(* bulkMutate: mark read what the client has seen, up to its position.           *)
BulkSelection(r) ==
  {i \in DOMAIN inbox[r].items :
     LET x == inbox[r].items[i]
     IN  Present(x) /\ x.read = "no" /\ ~x.closed /\ x.seq =< copy[r].pos}

BulkMarkRead(r) ==
  LET b == inbox[r]
      BySeq(i) == b.items[i].seq
      Read(i) == [i EXCEPT !.read = "bulk", !.marked = FALSE]
  IN  /\ Move /\ copy[r].swept /\ ~copy[r].cold /\ b.lock = 0
      /\ BulkSelection(r) # {}
      /\ inbox' = [inbox EXCEPT ![r] = Changed(b, BulkSelection(r), BySeq, Read)]
      /\ copy' = [copy EXCEPT ![r].swept = FALSE]
      /\ UNCHANGED <<queue, source, job>>

(* runMaintenance: some old tombstones are deleted, and the floor passes them in *)
(* the same statement.  An item's receipts go with it: the thirty days a         *)
(* tombstone is kept outlast every worker on its events.                         *)
Pruned(i) == [i EXCEPT !.gone = TRUE, !.events = {}, !.count = 0]

Prune(r, S, floor) ==
  LET b == inbox[r]
  IN  /\ Move /\ S # {} /\ b.lock = 0
      /\ \A i \in S : b.items[i].removed /\ ~b.items[i].gone
      /\ \A i \in S : \A e \in b.items[i].events :
           /\ queue[e].state \in {"done", "dead"}
           /\ \A w \in Projectors : job[w].row # e
      /\ inbox' = [inbox EXCEPT ![r] = [b EXCEPT
            !.items = [i \in DOMAIN b.items |->
                         IF i \in S THEN Pruned(b.items[i]) ELSE b.items[i]],
            !.floor = floor]]
      /\ UNCHANGED <<queue, source, job, copy>>

(* Mutant: the tombstones go and the floor stays. *)
PruneWithoutFloor(r, S) == Prune(r, S, inbox[r].floor)
PruneTombstones(r, S) ==
  Prune(r, S, Max({inbox[r].floor} \cup {inbox[r].items[i].seq : i \in S}))

InboxNext ==
  \/ CaptureEvent
  \/ \E op \in Ops : IngestProducerEvent(op)
  \/ \E e \in DOMAIN queue : LeaseLapses(e) \/ RetryFallsDue(e)
  \/ \E w \in Projectors, e \in DOMAIN queue : ClaimIntake(w, e)
  \/ \E w \in Projectors, r \in Recipients : LockRecipient(w, r)
  \/ \E w \in Projectors :
       \/ BeginProjection(w) \/ CommitProjection(w) \/ FailProjection(w)
       \/ RecordFailure(w) \/ CrashProjector(w)
  \/ DisableSource
  \/ RevokeSource
  \/ \E r \in Readers, v \in 1..MaxEvents : ViewResource(r, v)
  \/ \E r \in Readers :
       \/ SweepRecipient(r) \/ ListItems(r) \/ ListChanges(r) \/ BulkMarkRead(r)
  \/ \E r \in Readers, i \in 1..MaxEvents, p \in Patches : PatchItem(r, i, p)
  \/ \E r \in Recipients : \E S \in SUBSET (DOMAIN inbox[r].items) : PruneTombstones(r, S)

InboxSpec == InboxInit /\ [][InboxNext]_inboxVars

--------------------------------------------------------------------------------
(* Properties.                                                                   *)

(* The queue and the inboxes hold what their tables may: no two items of an      *)
(* inbox under one sequence number, none above the recipient's last, no item     *)
(* without its events, and a lock held only by a worker on its page.             *)
InboxTypeOK ==
  /\ \A e \in DOMAIN queue :
       /\ queue[e].state \in {"pending", "leased", "done", "dead"}
       /\ queue[e].attempts \in 0..MaxAttempts
       /\ queue[e].resume \in Recipients \cup {0}
       /\ queue[e].leased => queue[e].state = "leased"
  /\ \A r \in Recipients :
       LET b == inbox[r]
       IN  /\ b.lock # 0 => r \in job[b.lock].page
           /\ b.floor =< b.seq /\ b.viewed =< Activity
           /\ \A i, j \in DOMAIN b.items :
                /\ b.items[i].seq \in 1..b.seq
                /\ b.items[i].seq = b.items[j].seq => i = j
           /\ \A i \in DOMAIN b.items :
                b.items[i].gone \/ b.items[i].events \in (SUBSET DOMAIN queue) \ {{}}
           /\ copy[r].pos =< b.seq
           /\ \A g \in {"thread", "app"} : Cardinality(OpenIn(b, g)) =< 1

(* An event counts once in a recipient's inbox: workers that took one row over   *)
(* from each other, failed late or crashed before their commit neither write it  *)
(* twice nor bring back an item that was withdrawn meanwhile.                    *)
EachEventCountsOnce ==
  \A r \in Recipients : \A i \in DOMAIN inbox[r].items :
    LET b == inbox[r]
    IN  /\ b.items[i].count = Cardinality(b.items[i].events)
        /\ \A j \in DOMAIN b.items \ {i} : b.items[i].events \cap b.items[j].events = {}

(* A row of the queue is done only when its event reached every recipient, page  *)
(* by page, though a worker whose lease lapsed may set the row back or settle it *)
(* again (items may have been removed and deleted since).  A rule's event has no *)
(* exception.  One of an external source has two: the source was revoked, which  *)
(* closes its rows; or it was disabled and the event itself says rejected, so    *)
(* that an event that reads projected reached everybody all the same.            *)
DoneMeansEveryRecipient ==
  \A e \in DOMAIN queue : queue[e].state = "done" /\ queue[e].op \in {"rule", "publish"} =>
    \A r \in Recipients :
      \/ Received(inbox[r], e)
      \/ \E i \in DOMAIN inbox[r].items : inbox[r].items[i].gone
      \/ /\ queue[e].op = "publish"
         /\ source = "revoked" \/ (source = "disabled" /\ queue[e].event = "rejected")

(* An item the recipient has already viewed is not left unread, whichever of the *)
(* view and the projection committed first, unless they marked it unread.        *)
ViewedItemsAreRead ==
  \A r \in Recipients : \A i \in DOMAIN inbox[r].items :
    LET x == inbox[r].items[i]
    IN  Present(x) /\ x.read = "no" /\ ~x.marked /\ x.status = "active" /\ x.version # 0
          => x.version > inbox[r].viewed

(* A client that applies answers of listChanges holds exactly the items the      *)
(* server holds up to its position, unless its position is below the floor, when *)
(* it is told to start over: a deleted tombstone is never silently missed.       *)
CopyFollowsTheInbox ==
  \A r \in Recipients : ~copy[r].cold /\ ~BelowFloor(r) =>
    \A i \in DOMAIN inbox[r].items :
      LET x == inbox[r].items[i]
      IN  x.seq =< copy[r].pos =>
            copy[r].held[i] = IF Present(x) THEN Shown(x) ELSE Absent

(* A bulk mark-read reads nothing its sender has not seen: an item that an event *)
(* was folded into after the sender's position stays unread.                     *)
BulkReadsOnlyTheSeen ==
  [][\A r \in Recipients : \A i \in DOMAIN inbox[r].items :
       inbox[r].items[i].read = "no" /\ inbox'[r].items[i].read = "bulk" =>
         \/ copy[r].held[i].count = inbox[r].items[i].count
         \/ BelowFloor(r)]_inboxVars

================================================================================
