# wm-tower: a TLA+ model of its concurrent core

wm-tower ("Tower") is the server behind the Flight Deck apps: a TypeScript
service over PostgreSQL that keeps workspaces (channels, threads, messages,
tasks, documents, files), decides who may read what, lets devices pull
permission-filtered records, and turns events into inbox items and push alerts.
This directory models the parts of it whose correctness depends on the order in
which several actors act, checks them with TLC on small instances and proves
the most important facts with TLAPS for every instance.

Paths below are relative to the repository; `services/` is `src/services/`.

## 1. Inventory

| component | code | state it keeps | operations | what makes it hard |
|---|---|---|---|---|
| record log and authority | `schema/001_init.sql`, `additive-record-access-v1.sql` | one clock row per workspace (position, epoch, access revision), journal, current rows, heads, per-actor access keys | `emit`, `capture`, `reset`; pruning by operators | every domain write passes through it; moves write two entries; authority changes are not journal entries |
| record pages | `services/flightdeck-record-delta.ts`, `-access.ts`, `-visibility.ts`, `-sync-state.ts` | the cursor's `RecordSyncState` | one page of a snapshot, a delta or a catchup | a page may be cut anywhere; authority changes between pages; hand-over between keyset and journal order; certificates |
| record device checkpoints | `services/flightdeck-record-checkpoints.ts` | one registration per device cache, up to 512 page tokens | register, restart, retire, acknowledge, reclaim, expiry | lost and repeated replies, two copies of one cache, eviction, idle and retention boundaries |
| record cache adoption | `services/flightdeck-record-adoption.ts` | adoption sessions | start, inventory, repair, commit | compare-and-swap of a checkpoint while pages are read; lost responses |
| large records, priority records | `-record-large.ts`, `-record-priority.ts` | chunk cursors, auxiliary cursors | chunked and read-ahead reads | a source rewritten between chunks |
| notification intake | `notification-projector.ts`, `-producers.ts`, `-worker.ts` | intake queue, events | claim, project, fold, retry, maintenance | leases of crashed workers, resumed pages, idempotent folds |
| notification inbox | `notification-inbox.ts` | items, change sequence, tombstone floor, watermarks | changes, mark, view, sweep | racing views and item writes, resets below the floor |
| notification alerts | `notification-alerts.ts`, `-apns.ts`, `-registry.ts` | alert queue, attempts, transports | enqueue, claim, send, settle | one sender per alert, at-least-once after crashes, folds while an alert is sent |
| document editing | `document-edit-session.ts` | edit leases, document version | acquire, takeover, renew, save | lease expiry, takeover as a version barrier |
| encrypted records and checkouts | `records.ts` | version chains, checkout leases | sync, acquire, renew, release | compare-and-swap on versions, races for a lease |
| groups and keys | `groups.ts`, `user-workspace-keys.ts` | members, epochs, wrapped keys | add, remove, rotate | keys wrapped for an epoch that has gone |
| hosting credits, credit ledger | `hosting-billing.ts`, `hosting-stripe.ts`, `billing.ts` | accounts, ledgers, audited hours, orders | audit an hour, grant, settle an order | each hour and each order charged once; lazy expiry |
| feed reader | `feed-reader.ts` | subscriptions, item states, receipts | subscribe, patch, mark | repeated mutations, row versions |
| wapps, files, graph, learning, gateways, routes | see `PROJECT.json` | | | mostly sequential request handlers |

How they meet: a domain mutation commits a row and, in the same transaction, its
journal entry (`capture`) and an outbox event.  Grants, groups, scopes and
channels change what an actor's record-access keys are (`reset`).  Devices pull
record pages and acknowledge cursors; live streams only hint that there is
something to pull.  The intake worker projects outbox events into inbox items;
an item write enqueues alerts in its own transaction; the alert worker sends
them.  The two ledgers decide whether a workspace may write and are moved by
timers, by users and by outside payment services.

| module | component | proofs |
|---|---|---|
| `RecordLog`, `RecordPage`, `RecordSync` | record log, record pages, device checkpoints | `RecordSyncProofs` |
| `NotificationInbox` | notification intake, projection, inbox | `NotificationInboxProofs` |
| `AlertQueue`, `AlertDispatch` | notification alerts, registry | `AlertDispatchProofs` |
| `DocumentEditing` | documents, edit leases, recoveries, comments | `DocumentEditingProofs` |
| `SharedRecords` | encrypted records and checkouts | `SharedRecordsProofs` |
| `GroupKeys` | groups, epochs, wrapped keys | `GroupKeysProofs` |
| `HostingCredits`, `PrepaidLedger` | hosting credits, and the ledger they implement | `HostingCreditsProofs` |
| `CreditLedger` | the older MB-hour credits | `CreditLedgerProofs` |

`MCRecordSync`, `MCRecordCopies`, `MCAlertDispatch`, `MCDocuments`, `MCServices` and
`MCHosting` instantiate them for TLC.

What makes each part correct is listed as properties of the modules below and,
for what no property covers, as hazards in `PROJECT.json`.

## 2. The record modules

    RecordLog  <-  RecordPage  <-  RecordSync  <-  MCRecordSync, MCRecordCopies (TLC)
                                              <-  RecordSyncProofs (TLAPS)

An arrow reads "is extended by".  The modules are layers of one state machine,
because the code is: a page is read in one transaction that share-locks the
clock and is repeated when the clock moved meanwhile, so it is a function of the
committed log and of the cursor's state.

**RecordLog** is the workspace's committed log and the authority of one actor.
`journal` is the sequence of all entries ever written; entry `p` has position `p`,
so the clock's position is the journal's length, and `floor` says how much has
been pruned.  `head` is `flightdeck_pg_record_heads`; the rows whose head is an
upsert are `flightdeck_pg_record_current`.  `readable` is what
`flightdeck_pg_record_access` would yield for the actor's live grants.  Actions:
`WriteRow` (with `EmitMove` for a change of channel: a delete of the old image
and then the new image in one commit), `DeleteRow`, `ChangeAuthority`,
`LeaveWorkspace`, `JoinWorkspace`, `RebindIdentity`, `PruneJournal`.

**RecordPage** is one page.  `States` is `RecordSyncState`; `ObserveAccess` is
`observeRecordAccess`; `Opened` adds what a bounded page does to its target;
`CatchupScan`, `SnapshotScan` and `DeltaScan` are the three queries; `Stops` says
where a page may end; `AfterCatchup`, `AfterSnapshot`, `AfterDelta`, `Closed` are
the continuation; `Pages(st, bounded)` is the set of [state, page] results.

**RecordSync** adds the server's registration (`reg`) and tokens (`issued`,
`live`), and a device: a client database with possibly several copies (`cache`,
`held`), and replies on their way.  `Register`, `Restart`, `Retire`,
`ReclaimIdle`, `ReadPage`, `ReadNothing`, `Acknowledge` are the handlers, each
with every state change of the code; `ClientIdles` and `TokenExpires` are the
passing of time.  The device is external and modelled from the contract the
handlers assume: a page and its cursor are committed together and only if the
page was read from the copy's newest cursor (`ApplyPage`); a reply may come late
or never; a copy may be replaced by another one, such as a restored backup or a
tab that lags (`Replace`); any committed cursor may be acknowledged, late or
twice.

### Abstractions

* A row is its place in the (family, id) keyset order; its content is the journal
  position that wrote it.  A partition is one access key.
* The byte budget of a page is the choice of where a scan stops.  Oversized rows,
  actor sidecars and protocol v1 are left out.
* Which of several pending catchups is served first is left open; the code serves
  the first of the list.
* `lapsed` is a history variable: the partitions the device lost since it
  registered, or whose history a restart cut off.  Properties about tombstones
  exclude them, because the code promises nothing there: a row deleted while its
  partition was lost stays on the device after the partition is regained, since a
  catchup reads current rows only and the delta has passed the tombstone.

### Properties and what they are about

* `CursorsCoverTheLog`: whichever cursor a copy continues from, everything the
  copy lacks is ahead of it, in the journal, in the snapshot or in a catchup.
  This is what makes "delete nothing, replace by newer" a correct client.
* `LabelsAreSound`: no entry at or below a copy's label is newer than its
  content.  Adoption accepts labels on that ground.  The converse does not hold:
  an unbounded snapshot labels a row with the boundary even when it was written
  later, and a label that is too low only causes a repair.
* `RemovalsReachTheDevice`: a row that left a partition still held is gone from
  the copy or its tombstone is ahead of every cursor.
* `CertificatesAreComplete`: with a completed handover, every current readable row
  through the target is on the device.
* `CheckpointKeepsItsPlace` (action property): an acknowledgement never moves the
  checkpoint's journal or keyset position back.  Pending catchups are not part of
  it: the code compares how many pages were read, so a lagging copy that asks for
  smaller pages may have catchup rows repeated.
* `PullConverges` (liveness): once writes, grants and pruning have stopped, the
  copy has every current readable row.
* `TypeOK`.

### Runs

| run | instance | what it shows |
|---|---|---|
| `record_bounded` | first instance: 2 rows, 1 partition, 2 writes, 1 authority change, 4 pages, only bounded pages, one copy; second: 2 copies of the cache under one authority, 3 pages (2 after the second write) of which 2 are retained, 2 replies at once, bounded and unbounded | coverage and certificates across a gain or a loss in mid-round (four pages are a snapshot, its hand-over, a catchup and a delta page); late, repeated and racing acknowledgements, evicted tokens, replaced copies |
| `record_moves` | 1 row moving between 2 partitions, 3 entries, 1 authority change, 3 pages (the third with three entries only under one authority), bounded and unbounded | labels and tombstones; three entries are a write and a move (which writes two), or a write, a deletion and a new write |
| `record_lifecycle` | 1 row, every rare event, 1 retained token, a second copy of the cache while authority is unchanged, a rebinding before any pruning, one page after both a change of authority and pruning | pruning, idling, reclaiming, restart, retirement, membership, rebinding, expiry |
| `record_pull` | 1 row, 2 writes, pruning and restart, fairness | convergence |

The bounds are on positions (`MaxPosition`), authority changes (`MaxAccessRev`),
rebindings (`MaxEpoch`), pages per registration (`MaxIssued`) and replies under
way (`MaxReplies`).  Each instance reaches the states its mutants break: every
property is violated when one line of the code is changed in the way its mutant
says (an off-by-one of the boundary, a catchup cut off at the boundary, a
certificate that forgets pending catchups, a comparison of progress alone, and so
on).  Deadlock is not checked: when the bounds are used up and the device is up
to date nothing is left to do.

### Fairness

`LiveSpec` asks for weak fairness of the device's own loop (register, register
again when told to, ask for the page after the newest cursor, some reply
arrives).  That is what a client that stays online does; the server adds nothing
of its own, and no fairness is asked of writers, of acknowledgements, of expiry
or of pruning.

### Finding

`record_certificate` states what the contract says of a certificate and shows that
the code does otherwise: a row of a partition gained in mid-round, rewritten after
the gain was observed, is above the catchup's cutoff and above the extended
target; the certificate is given without it.  The row comes with the next round
(`CursorsCoverTheLog` holds).

Two further divergences from `docs/contract/record-device-checkpoints-v2.md` are
visible in the model and have no run: the removed row described under `lapsed`
above, and an empty delta page, which issues no token but repeats the old one with
the present checkpoint revision, so that a device whose acknowledgement conflicted
cannot acknowledge that position before something is written.

## 3. The alert modules

    AlertQueue  <-  AlertDispatch  <-  MCAlertDispatch (TLC)
                                   <-  AlertDispatchProofs (TLAPS)

**AlertQueue** is the durable queue of the push alerts of one recipient, with the
tables of everyone who writes it.  `alert` is `flightdeck_pg_notification_alerts`
by its unique key (item, transport, generation); `transport` is one row per
device token; `item` is an inbox item with its event count; `writer` is the
projector's open transaction.

| action | code |
|---|---|
| `WriteItem`, `FoldItem` | `writeItem` of the projector, under the recipient's lock; it ends by reading the transports that may be alerted (`Candidates`) |
| `EnqueueAlert` | the loop of `enqueueAlerts`: the newest alert of one candidate is read, perhaps a new one is inserted |
| `CommitWrite`, `AbortWrite` | item, alerts and hint commit together or not at all |
| `CloseItem`, `ReopenItem`, `LoseSubject`, `SweepInbox` | the inbox as far as alerts depend on it |
| `Register`, `Revoke`, `TransportLapses` | `putApnsTransport` (renewal, takeover, superseded token), `revokeTransport`, `removeEnrollment`, the end of a token's lease |
| `ChangeSettings` | a rule, permission, enrollment, membership or grant changes |

**AlertDispatch** adds the worker processes.  Each statement of `dispatchOne` that
touches shared rows is an action: `Claim`, `CheckTransport` and `CheckItem` (the
gate), `Mark` or `Skip` (the write-ahead mark), `Answer` (the provider),
`MarkStale`, `SuppressSiblings`, `Refund`, `Settle`.  Alerts of one batch run
concurrently, so each is a job of its own.  `Fail` is an error that
`processAlertBatch` catches, `Vanish` a crash or an error of the last settlement,
`LeaseExpires` the end of a lease, also under a worker that stalls.  `Prune` is
`pruneAlerts`.

### Abstractions

* Installation, enrollment, permission, membership, audience, source grant, record
  access and alert rules are one set, `allowed`, of (item, transport) pairs; how
  the rules are resolved is not modelled.  The provider is assumed configured:
  without it nothing is queued or claimed.
* Times are flags that turn when their moment comes: `due`, `held` and `late` of an
  alert, `current` of a token.  Nothing is assumed about how they are ordered.
* The provider is external: any class of `classifyApnsResult`, or no answer in time.
* A process stands for the `lease_owner` of a batch, which the code draws afresh for
  each batch.  A process never has two jobs on one alert, since the worker's timer
  does not start a batch while one is busy.
* A batch of claims is a set of single claims; the limit of eight is left out.
* Pruning waits two weeks; a job lives at most minutes, so `Prune` asks that no job
  is left.
* `spent` and `told` are history variables: calls begun less refusals booked, and
  how many events the last call announced.

### Properties

* `OneQueuedAlert`: at most one alert of an item waits for a device, the newest.
* `SettlementIsFinal`: sent, suppressed and dead are final, whoever answers late.
* `CallsGoToTheOwner`: when a call begins, the token is still the recipient's and was
  not revoked.  The gate read the token several statements earlier; what protects
  the call is that a takeover or a revocation also withdraws leased alerts.
* `AttemptsMatchCalls`: the attempt count is the number of calls, refunds included.
* `AlertsSettle` (liveness): every queued alert is settled.

### Runs

| run | instance | what it shows |
|---|---|---|
| `alert_folds` | 1 item with 2 events, 1 token, 2 workers, 1 fault, settings, reading, pruning | a fold against an alert in every state; lost leases, late answers and refunds |
| `alert_delivery` | 1 item, 1 token, 2 actors, 2 workers, 1 fault, reading, sweeping, and a token that is revoked, lapses, goes stale and is taken over; fairness | every alert is settled, and no call begins for a token that is no longer the recipient's |
| `alert_refold` (violation) | 1 worker, no faults | a fold nobody announces |

One token is enough for the properties of one alert.  What a stale token does to
the alerts of other items needs two items, which only the proofs cover.  Two attempts stand for
six, as the count is only compared with its limit.  Faults (crashes, caught
errors, stalls past a lease) are bounded by `MaxFaults`; one lets an alert be lost
by one worker while another takes it up.

### Fairness

`LiveSpec` asks for weak fairness of what the code's timers and the passing of
time provide: some worker claims what stays claimable, a running job takes its
next step, a lease nobody renews runs out, a backoff, a deadline and a breaker
elapse, an open item write commits or is rolled back.  No fairness is asked of
the provider's answers, of registrations, of readers or of pruning.  Faults are
finitely many; an alert whose workers crash for ever is not settled.

### Findings

* `alert_refold`: a leased alert counts as waiting, but its content may have been
  built before the fold; the device hears of the old count only.

No property bounds the attempts: the limit of six is compared only after a
transient answer, so crashes and errors after the mark can go past it, until the
deadline.

## 4. The notification intake and inbox

**NotificationInbox** is the road from a committed event to a client's copy of the
inbox.  `queue` is the intake with its events, `job` a worker's claim and open
transaction, `inbox` per recipient the cursor row (sequence, tombstone floor, lock),
the viewed watermark and the items, `copy` what a client has stored.

| action | code |
|---|---|
| `CaptureEvent`, `IngestProducerEvent` | the capture trigger; `ingestProducerEvent` of the producers, which reads the grant before its transaction, so a stopped source may get one more event in |
| `DisableSource`, `RevokeSource` | `setSourceStatus`: both stop a source for good (no request makes it active again), but only revoking removes its items and closes its rows |
| `ClaimIntake`, `LeaseLapses`, `RetryFallsDue` | `claimIntake`, with the passing of time it depends on |
| `BeginProjection`, `LockRecipient`, `CommitProjection` | `projectRuleEvent` and `projectExternalEvent`: one page of recipients, each under its lock, written (`Written`: fold, new item, or nothing) and settled in one transaction |
| `FailProjection`, `RecordFailure`, `CrashProjector` | the catch branch of `processIntakeBatch`, which settles by id alone, after the transaction is undone |
| `ViewResource`, `PatchItem`, `BulkMarkRead`, `SweepRecipient`, `ListItems`, `ListChanges` | the view bridge and `notification-inbox.ts` |
| `PruneTombstones` | `runMaintenance` |

Which rules apply to which actor is the set `Recipients`; dismissing and archiving
are one closing; hints carry no state.  Properties: `EachEventCountsOnce` and
`DoneMeansEveryRecipient` hold the queue against workers that took a row over from
one another, fail late or crash.  The rows that a disabled source leaves are still
claimed, and settled done without a write to any inbox; `DoneMeansEveryRecipient` says
that such an event is then recorded as rejected, so that a publish that is done and not
rejected has reached everyone unless its source was revoked.  `ViewedItemsAreRead` is about the one value that is
read before the commit, the watermark; `CopyFollowsTheInbox` is about the change
sequence, the sweep and the tombstone floor together; `BulkReadsOnlyTheSeen` (an
action property) is about folds between a client's position and its bulk request.

## 5. The ledgers

**HostingCredits** is the prepaid balance of a hosting customer.  A request is a
transaction that waits for row locks (`LockAccount`, `LockOrder`), reads the row when it
has it and commits or aborts; `tick` is a replica's run of `runHostingBillingTick`
under the advisory lock `singleton`.  Time is in half hours, so that a sample may be
taken in another hour than the one it is meant for.  Actions: `LinkHostedAccount`,
`GrantHostingCredit`, `CreateHostingCheckout` with `CreateSession` and `BindSession`
after its commit, `ReceiveWebhook` and `FulfillHostingCheckout`, `StartTick`,
`VisitWorkspace`, `MeterHour`, `AuditHostingHour`, `EndTick`; faults are `Abort`
(a failing statement or a crash) and `LoseSession` (the connection that holds the
advisory lock).  `DeadlockVictim` is the database's answer to a fulfilment, which locks
the order before the account, and a checkout, which locks them the other way round.

**PrepaidLedger** is the abstract specification: an append-only log of movements
whose keys are used once and a balance that is always the log's total.
`BalanceIsPrepaid` is the refinement: with the ledger's rows as entries and paid plus
promotional units as the balance, every step of `HostingCredits` posts movements or
stutters.  A promotional credit that lapses is one more movement, written by whoever
locks the account next.

Further properties: `EvidenceMatchesLedger` (hours, orders and movements agree),
`HoursHaveNoGap`, `FundsRestoreWrites`; and under fairness `HoursAreCaughtUp` and
`PaidOrdersAreCredited`.

**CreditLedger** is the older MB-hour ledger: accounts opened in two ways
(`OpenWithWorkspace`, or `OpenAccount` and `RecordGrant` as two statements), orders
(`CreateInvoice`, `RecordPurchase`, `PollPurchase`, `PollUnpaid`, `BeginSettlement`,
`CommitSettlement`), the hourly charge (`BeginAudit`, `CommitAudit`), grace
(`MarkDeleteEligible`, `ReadAccountState`, `RefreshAccountState`), `Crash`.
`CreditsAndChargesHappenOnce` and `BlockFollowsTheBalance` hold; the balance is not
always the total of the transactions, which is a finding:

* `credit_balance`: the settlement of an order locks the order, reads the account
  without a lock and writes back its sum; an hourly charge that commits in between is
  overwritten.  The run needs one order, one audit and two workers, no crash.

A grant that is recorded in a statement after the account's leaves the two apart when
the process dies between them; the property does not count a grant under way.

## 6. Documents, shared records and group keys

**DocumentEditing** is one document: its row, version snapshots, edit leases, recovery
versions, storage links and comments.  Handlers that lock the document row first are
one step; those that read something before the lock are two: `AskLease` and then
`AcquireLease`, `TakeOver` or `RefuseLease`; `StartMove` and `MoveDoc` or `MoveFails`;
`ReadForComment` and `CreateComment`.  Expiry is judged by each transaction's own
start, which `AskLease` remembers.  Properties: `OneEditor`, `TakeoverIsABarrier`,
`SupersededSessionStaysOut`, `HistoryIsComplete`, `CommentsFollowTheDocument`.

**SharedRecords** is one encrypted record of a checkout-required family.  A sync
validates in one step (`BeginSync`) and writes in another (`PersistRecordVersion`), at
READ COMMITTED; renewals and releases look at a checkout and then update it by id.
Properties: `VersionsFormOneChain`, `OneCheckout`, `WritesFollowTheCheckouts`,
`NextEditorFindsTheEnd`.  A checkout that loses the race for the unique index reads the
winner inside the aborted transaction, so it ends with an error and changes nothing.

**GroupKeys** is one group.  Adding a member is three statements that commit one by
one (`AddMembership`, `ReadCurrentEpoch`, `AddGroupMember`); a rotation reads the
highest epoch in an earlier statement of its transaction (`ReadMaxEpoch`), which at READ
COMMITTED leaves two rotations free to read the same one, and the transaction is split
again where others can see what it waits for (`RotateMembers`, `RotateGroupEpoch`).
Properties: `OneCurrentEpoch`, and `KeysOpenNoLaterEpoch`, which is all that remains of
a label that is read after the key was wrapped: a key may carry the label of a later
epoch than the one it opens, never of an earlier one.

### Runs of sections 4 to 6

The components of one of these runs share a database but no table, so `MCServices` and
`MCDocuments` let one of them move while the others stay as they began.

| run | instance | why it is enough |
|---|---|---|
| `services`, credit ledger | 1 workspace, 1 order, 2 workers, 3 hours, 1 crash | two requests meet at the account; the grant is used up by one charge, so every billing state and the end of grace occur |
| `services`, hosting | 1 customer, 1 workspace, 1 order, 1 grant, 2 connections, 1 replica, 2 whole hours, 1 fault | checkout, webhook, grant and tick meet at one row; the promotion lapses within the time; a reading of 3 charges what is left and exhausts it |
| `services`, inbox | 2 recipients on pages of 1, 2 events, 2 workers, 2 attempts, 2 faults or acts of a client; the events of one run are of one group, the source publishes one, and workers busy at once are busy with the same row | a resumed page, a fold and a takeover of a lease; the recipient who acts may do so on either page |
| `documents`, document | 3 versions, 3 leases, 2 editor sessions, 2 requests under way (1 beside a third lease) | an opened document, a takeover and a save on either side of it |
| `documents`, record | 2 editors, 2 requests, 2 versions, 2 checkouts | two syncs race for one version; a checkout lapses and is followed by another |
| `documents`, group | 2 people, 3 identities, 2 administrators, 2 epochs | one rotation against another, an addition or a removal; the third identity fails a constraint |
| `hosting_liveness` | 1 replica, 2 connections, fairness; from three initial states: all the time and a fault but no requests; two requests late; one request late and a fault | a tick or a fulfilment fails once and must be made up for; a checkout and a fulfilment deadlock |
| `credit_balance` (violation) | as the ledger above, no crash | the lost update |

The proofs of `RecordSync`, `NotificationInbox`, `SharedRecords`, `GroupKeys`,
`DocumentEditing`, `CreditLedger` and `HostingCredits` show that no bound of theirs hides a
case of a property they prove, such as several customers, replicas or orders at once, an
hour of which a batch audits many, pages of many rows or recipients, or workers on
different rows of events of both groups.  `MaxBusy` bounds requests, recoveries and
comments of a document together, `MaxMoves` the faults and the acts of clients.  Symmetry
is used for sessions, requests, workers and copies of a cache that no formula tells apart,
in runs of safety only.  Deadlock is not checked: when the bounds are used up nothing is
left to do.

### Fairness of the ledger

`HostingFairness` asks what the code and its surroundings provide: a request that was
begun goes on, PostgreSQL serves the waiters of a row in turn (strong fairness of the
locks, since a lock is taken and released again and again) and ends a deadlock, each
replica's timer starts ticks again, Stripe repeats the event of a paid session until it
is answered, and time passes.  Faults are finitely many; nothing is asked of customers.

## 7. Proofs

### The record modules

`RecordSyncProofs` holds for every value of the constants: any finite set of rows,
any partitions, devices and bounds, bounded and unbounded pages.

* `TypeCorrect`: `Spec => []TypeOK`.
* `CheckpointNeverMovesBack`: `Spec => CheckpointKeepsItsPlace`.

The argument for these two.  `TypeOK` is not inductive: a device picks the newest change of a
row on a page, which exists only if pages are finite; a device's cursors are
issued tokens only if replies name issued tokens; and an acknowledgement over the
initial state moves nothing back only because that state is the start of a
snapshot.  `IInv` adds these three facts.  `PageTypes` shows that a page read
yields a state of the right type and finitely many changes, by one lemma per step
of the page reader; a bounded delta page needs that its target is a position
(`OpenedType`).  `LargestExists` gives maxima of finite sets from the
well-foundedness of strict inclusion, since induction theorems that take an
operator cannot be instantiated.  `NextIInv` then has one lemma per action.
`NoRegress` shows that `stateDoesNotRegress` implies the order the property is
about, and `OnlyAcknowledgeMoves` that no other action gives a checkpoint.

* `SyncInvariance`: `Spec => []SyncInv`, the inductive invariant behind the next four.
* `LabelsStaySound`: `Spec => []LabelsAreSound`.
* `CursorsMissNothing`: `Spec => []CursorsCoverTheLog`.
* `CertificatesHold`: `Spec => []CertificatesAreComplete`.
* `RemovalsArrive`: `Spec => []RemovalsReachTheDevice`.

The argument.  None of the four is inductive, because a page is read at one time and
applied at another, with writes, moves, grants, losses and pruning in between, and
because a copy may go back to an older cursor.  `SyncInv` says what survives that.

* `LogInv`: a row's head is its latest entry, and a row that was in a partition and is
  not any more left it by a tombstone.  Every transaction only adds entries, and a head
  that changes becomes newer than all of them (`LogGrows`, `LogStepGrows`).
* `StatesInPlace`: a state that was handed out is behind the log and its authority, its
  authority is today's if its revision is, what it could read and today's actor cannot is
  lapsed, and a certificate is of a bounded delta with no catchup left.
* `RepliesDeliver`: a page under way brings what lies between its two cursors
  (`Delivers`).  A current row the second cursor may read is ahead of it, or on the page
  as its latest entry, or was neither new nor ahead for the first; the journal entries
  consumed on the way are all on the page; and each change on it is an entry of the log,
  under a version that no newer entry of the row is at or below, not superseded by what
  was consumed before.
* `DeviceInv`: each copy's labels fit the log, its newest cursor has consumed the most,
  every cursor has what the copy lacks ahead (rows, and tombstones in partitions never
  lost), and the newest cursor knows the partitions of the copy's rows.
* `ClosedIsEmpty`: a closed registration left no tokens and no pages, and copies only of
  what may have changed unseen.

`PageDelivers` is the heart: what a page read brings (`CatchupDelivers`,
`SnapshotDelivers`, `DeltaDelivers`, one per kind of page) satisfies `Delivers` when it is
read.  `ObserveQueues` is why a regained partition is not missed, and `SegmentMax` why a
scan that stopped early left only what comes later.  `GrowsDelivers` keeps a page under
way valid while the log grows, whatever happens to its rows.  `ApplyToRow` is the
step of one row of one copy: the device takes the change of the highest version or has a
label that none exceeds, and either way the next cursor covers it and the older cursors
still do.  `NextSyncInv` puts together one lemma per action, most by `StepAside` (nothing
handed out changes) or `CopiesChange` (only copies do).

The cursors are covered whether or not their history was pruned, so the theorem is
stronger than the property, which asks it only of cursors that the server would continue.

Only model-checked: `PullConverges` (liveness under fairness is outside the prover's
reach).

### The alert modules

`AlertDispatchProofs` holds for any items, tokens, actors and events, any finite set
of workers, and any bounds.

* `AlertsTyped`: `Spec => []TypeOK`.
* `OneAlertWaits`: `Spec => []OneQueuedAlert`.
* `AttemptsAreCalls`: `Spec => []AttemptsMatchCalls`.
* `SettledStaysSettled`: `Spec => SettlementIsFinal`.
* `TokenIsTheRecipients`: `Spec => CallsGoToTheOwner`.

None of the properties is inductive.  `AInv` adds what the code relies on without
saying so:

* `WriterHasRoom`: between the moment an item write reads the newest alert of a
  device and its commit, no lock-free step makes that reading wrong; alerts are
  only inserted by the writer, and a settled alert does not come back.
  `Predecessor` and `EnqueueLeavesRoom` show that the reading leaves room for one
  more generation.
* `AbsentIsIdle`: an alert without a row has no jobs, so no late refund meets a row
  pruned and inserted again.
* `CallsAreCounted`: the workers with a call under way, or refused and not yet
  booked, are at most as many as the attempts; this keeps the unguarded refund from
  taking the count below zero.
* `GateStillHolds`: a worker past the gate that still holds its alert has checked
  the token's present owner.  `TransportSteps` shows that a token changes hands or is
  revoked only together with the withdrawal of its alerts, `HoldSteps` that a
  worker comes to hold an alert only by claiming it.

`AlertSteps`, `AttemptSteps`, `JobSteps` and `JobMoves` say once, over all actions,
what a step may do to one alert or one job; the preservation lemmas cite them.

Only model-checked: `AlertsSettle`.

### Shared records

`SharedRecordsProofs` holds for any editors and requests, and any bounds.  `RecordsTyped`,
`OneChain`, `OneEditorHasTheRecord`, `RowsFollowCheckouts` and `TheEndIsFound` prove
`SharedTypeOK`, `VersionsFormOneChain`, `OneCheckout`, `WritesFollowTheCheckouts` and
`NextEditorFindsTheEnd`.  `SharedInv` adds what a sync under way may rely on
(`SyncsMayFollow`): its base is no newer than the head, and if it is the head, no row
was written under a later checkout nor one that ended its own.  So the unique index on
versions also decides between checkouts: a sync whose checkout has gone to somebody
else and been used fails on the version, not on the checkout.  `NewestIsOut` is why
there is one checkout, and steps are of two kinds, those that change checkouts
(`CheckoutsChange`, or a new one) and the one that writes a row.

### Group keys

`GroupKeysProofs` holds for any people, identities, administrators and number of epochs.
`GroupsTyped`, `OneEpochIsCurrent` and `KeysStayBehind` prove `GroupTypeOK`,
`OneCurrentEpoch` and `KeysOpenNoLaterEpoch`.  `GroupInv` adds `OneRotation` (one
uncommitted rotation at a time, since its epoch row makes the others wait),
`RequestsFollow` (what each request was given or read is the identity of an epoch that
still exists, at or below its label), `NoRequestsBefore` and `GoneForGood`.

### Documents

`DocumentEditingProofs` holds for any writers, sessions, channels, bodies, versions, leases
and requests.  `DocumentsTyped`, `ADocumentHasOneEditor`, `NothingCrossesATakeover`,
`SupersededStaysOut`, `EveryVersionIsKept` and `CommentsMoveAlong` prove `DocTypeOK`,
`OneEditor`, `TakeoverIsABarrier`, `SupersededSessionStaysOut`, `HistoryIsComplete` and
`CommentsFollowTheDocument`.  `DocInv` adds that a superseded lease is released, that no
lease is younger than the head (a takeover writes the version its lease is born at), that
a snapshot names a lease there is, and that a move only remembers recoveries that exist.
Steps fall into those that change leases, those that write a version and those that do
neither; each property is disturbed by one kind only.

### The credit ledger

`CreditLedgerProofs` holds for any workspaces, orders, workers, grants, prices and
thresholds.  `LedgerTyped`, `LedgerCountsOnce` and `RefusedWhenExhausted` prove
`CreditTypeOK`, `CreditsAndChargesHappenOnce` and `BlockFollowsTheBalance`.  `LedgerInv`
adds who may be in the middle of what: a row is locked by the one worker that works on
it, an order is recorded by one request only, and what a worker saw paid is paid.  That
the balance is the total of the transactions is not a theorem, as `credit_balance` shows.

### Hosting credits

`HostingCreditsProofs` holds for any customers, workspaces, orders, grants, connections
and replicas, and any prices, credits, readings, batches and times.

* `HostingIsPrepaid`: `HostingSpec => BalanceIsPrepaid`, the refinement of `PrepaidLedger`.
* `FundsLiftTheMark`: `HostingSpec => []FundsRestoreWrites`.
* `MeterLeavesNoGap`: `HostingSpec => []HoursHaveNoGap`.
* `EvidenceAndMoneyAgree`: `HostingSpec => []EvidenceMatchesLedger`.
* `HostingTyped`: `HostingSpec => []HostingTypeOK`.

The inductive invariant is built in layers, each proved from those below it.

* `BaseInv`: the types; a request that has read a row holds its lock and the row has not
  changed since; whatever a request, an order or a tick names exists.
* `MoneyInv`: the ledger of each account is a log that `PrepaidLedger` would accept
  (`GoodLog`: chained totals, keys used once) and ends in the account's balance; once a
  promotion has lapsed there is nothing promotional left.  `EntryExtends` says when one
  more entry keeps a log good, so each movement needs only that its key is new.  The
  refinement follows: a step that writes a ledger is a `MoneyStep` of the abstract log,
  every other step a stutter, since locked rows are what they were when they were read.
* `MeterInv`: whatever hour is on record, or is the next that a tick will audit, every
  hour between the enrolment and it is on record (`RecordedBefore`).  Of the tick this is
  said at each of its stages, from the list it was given to the request that waits for
  the account, because a tick that lost its advisory lock goes on beside its successor.
  What is recorded stays recorded, so a position read long ago is still one without a gap.
* `OrdersInv`: who may be working on an order.  Requests for one order are of one account,
  a fulfilment under way is of a paid session and of the order's account, and the ledger
  of an account has the order's key exactly if the order is its own and fulfilled.

Only model-checked: `HoursAreCaughtUp` and `PaidOrdersAreCredited` (liveness).

### The notification inbox

`NotificationInboxProofs` holds for any recipients, workers, page sizes, limits, kinds of
event and bounds.

* `EventsCountOnce`: `InboxSpec => []EachEventCountsOnce`.
* `DoneReachesAll`: `InboxSpec => []DoneMeansEveryRecipient`.
* `ViewsReadItems`: `InboxSpec => []ViewedItemsAreRead`.
* `CopiesFollow`: `InboxSpec => []CopyFollowsTheInbox`.
* `BulkReadsTheSeen`: `InboxSpec => BulkReadsOnlyTheSeen` (an action property).
* `InboxTyped`: `InboxSpec => []InboxTypeOK`.

Every writer of an inbox changes some items and numbers them anew, folds an event in,
appends an item, or prunes tombstones.  The first lemmas say, of one inbox and without
the rest of the state, that each of these keeps `BoxOK` (numbers and events of their own,
one open item of a group, counts that match, nothing unread below the watermark) and is a
`BoxMove`, which is what the other actors may rely on: what changes gets a number above
all that were given, and what is pruned keeps a number that the floor has passed.  The
numbers come from ranks (`RanksInOrder`: distinct keys have the ranks 1, 2, ... in their
order).  There is then one lemma per action, and the inductive invariant has these layers.

* `InboxTypes`, `BoxesOK` and `JobsOK`: the types, `BoxOK` of each inbox, and what a
  worker on its page may assume: the watermark it read is still the recipient's, because
  it holds the lock.
* `RowsReach`: an event has reached every recipient up to where its row, and every worker
  that ever claimed it, resumes.  A late commit may set a row back, but only to a place
  that was reached; a page reaches all that come before its last recipient (`PageIsNext`).
  Reached means received, pruned since, or of a revoked source, and no step undoes it.  A
  row that is done reached everyone or was turned away (`TurnedAway`: its source is stopped
  and the event recorded as rejected); that lasts until a worker that began before the
  source was stopped commits its page over it, and then the page decides again.
* `Places`: an assignment of events to items, no two the same, to pruned items an event
  that no worker has nor will have.  So an inbox has no more items than there are events
  (`ItemsFit`), which is what lets a client's copy hold them all.
* `CopiesOK`: `CopyFollowsTheInbox`, and that no position is ahead of the inbox.  By
  `BoxMove` nothing changes at or below a position but pruned tombstones, of which the
  copy holds nothing; a page of changes is downward closed in the sequence
  (`PageOfChanges`).

### Compositions

`documents` and `services` check three components each, as one specification in which a
behaviour of one is checked while the others stay as they began.  `SharedWorkIsAllThree`
(in `DocumentEditingProofs`) and `ServicesAreAllThree` (in `CreditLedgerProofs`) show that
such a composition implies the specification of each component, so every theorem about
one of them holds of what the runs check.  `SharedWorkTyped` and `ServicesTyped` conclude
`SharedWorkTypeOK` and `ServicesTypeOK`.  With them, every invariant that a passing run
checks is a theorem; the properties that are only model-checked are the four of liveness.

## 8. Plan

In this order:

1. `RecordAdoption` over RecordSync: sessions in phases inventory, repair and
   adopted; compare-and-swap commit against concurrent pages and acknowledgements;
   replay of a lost response.
2. `AlertRules`: the resolution of alert rules against a declarative reference.
3. `FeedReader`: receipts and row versions.  `Uploads`: prepare and complete against
   the object store.

## 9. Not modelled, and why

Request parsing, authentication and signatures are sequential and stateless.  Most of
the repository's lines are such: `openapi.ts` and `types.ts` are declarations, the
runtime schema is declarative apart from the constraints and triggers that the modules
rely on, and most handlers of `routes/flightdeck-pg.ts` and services of
`flightdeck-pg-api.ts` check their input and run one transaction, which reaches the
modules as an entry of the record log.  The knowledge graph, learning, wapp catalogue,
feed reader and files are separate stores whose handlers are single transactions or
plain reads and writes; they are candidates after the plan.  Live streams are
best-effort hints that no property may rely on.  The rules that compute an actor's
record access from grants and groups are abstracted to the set of readable partitions.
