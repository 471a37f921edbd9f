------------------------------ MODULE AlertQueue ------------------------------
(* The durable queue of push alerts of one recipient, and the tables its       *)
(* producers write: inbox items (a projector folds events into them), push     *)
(* transports (an APNs token that actors register, revoke and take over) and   *)
(* the recipient's settings.                                                   *)
(*                                                                             *)
(* The item write runs in one transaction under the recipient's cursor lock.   *)
(* It reads the transports first, then the newest alert of each in turn, and   *)
(* commits, with any number of lock-free steps of the registry and of the      *)
(* workers in between: writer holds what the open transaction has decided.     *)
(*                                                                             *)
(* Abstracted: the conditions read from the installation, the enrollment, the  *)
(* permission, the membership, the audience, the source grant and the alert    *)
(* rules are one set, allowed; a subject that was deleted, lost or revoked is  *)
(* an item's doomed flag; times are flags (due, late, current) that turn when  *)
(* their moment comes.                                                         *)
EXTENDS Integers, FiniteSets

CONSTANTS
    Items,          \* inbox items of the recipient
    Transports,     \* device tokens, one row each
    Actors,         \* who may register a token
    Recipient,      \* the owner of the items
    Workers,        \* dispatching processes
    NoWorker,       \* lease_owner IS NULL
    MaxEvents,      \* bound on the events folded into one item
    Events          \* which of the rarer events the instance includes

ASSUME ActorsAssumption == Recipient \in Actors
ASSUME WorkersAssumption == NoWorker \notin Workers /\ IsFiniteSet(Workers)
ASSUME MaxEventsAssumption == MaxEvents \in Nat
ASSUME EventsAssumption ==
    Events \subseteq {"registry", "settings", "reading", "sweep", "prune"}

VARIABLES
    item,       \* flightdeck_pg_notification_items
    transport,  \* flightdeck_pg_notification_transports
    alert,      \* flightdeck_pg_notification_alerts, by key
    allowed,    \* <<item, transport>> pairs every other condition lets through
    writer      \* the projector transaction holding the recipient's lock

queueVars == <<item, transport, alert, allowed, writer>>

States == {"none", "pending", "leased", "failed", "sent", "suppressed", "dead"}
Queued == {"pending", "leased", "failed"}
Settled == {"sent", "suppressed", "dead"}

\* (item_id, transport_id, generation); an item gets one generation per event
\* at most.
Keys == Items \X Transports \X (1..MaxEvents)

\* held: lease_until > NOW(); due: next_attempt_at <= NOW(); late: deadline_at
\* has passed.
Alerts == [state : States, owner : Workers \cup {NoWorker}, held : BOOLEAN,
           due : BOOLEAN, late : BOOLEAN, attempts : Nat]

NoAlert == [state |-> "none", owner |-> NoWorker, held |-> FALSE,
            due |-> FALSE, late |-> FALSE, attempts |-> 0]
NewAlert == [NoAlert EXCEPT !.state = "pending", !.due = TRUE]

\* events: event_count, 0 before the item exists; open: unread, not dismissed,
\* not archived; removed: tombstoned; doomed: the next sweep removes it.
ItemRows == [events : 0..MaxEvents, open : BOOLEAN, doomed : BOOLEAN, removed : BOOLEAN]

\* current: lease_expires_at > NOW().  A token nobody registered is a revoked row.
TransportRows == [status : {"active", "stale", "revoked"}, actor : Actors, current : BOOLEAN]

\* left: the candidates whose newest alert it has yet to read; adds: the alerts
\* it inserts.
Idle == [at |-> "idle"]
Writing == [at : {"writing"}, item : Items, row : ItemRows, refold : BOOLEAN,
            left : SUBSET Transports, adds : SUBSET Keys]

QueueInit ==
    /\ item = [i \in Items |-> [events |-> 0, open |-> FALSE, doomed |-> FALSE, removed |-> FALSE]]
    /\ transport \in [Transports -> [status : {"revoked"}, actor : Actors, current : {FALSE}]]
    /\ alert = [k \in Keys |-> NoAlert]
    /\ allowed = Items \X Transports
    /\ writer = Idle

\* n is a later generation of k's item and transport.
Later(n, k) == n[1] = k[1] /\ n[2] = k[2] /\ n[3] > k[3]
IsNewest(k) == \A n \in Keys : Later(n, k) => alert[n].state = "none"

Deliverable(t) ==
    transport[t].status = "active" /\ transport[t].current /\ transport[t].actor = Recipient

-----------------------------------------------------------------------------
(* The projector                                                              *)

\* An alert that is waiting or with a worker needs no sibling: it is rebuilt from
\* the item when it is sent.
PendingOnly(k) == alert[k].state = "pending"
NeedsNoSibling(k) == alert[k].state \in Queued

\* enqueueAlerts: the transports that may be alerted ...
Candidates(i, row) == {t \in Transports : row.open /\ Deliverable(t) /\ <<i, t>> \in allowed}

\* ... and, for one of them, its first alert; a fold asks for another when the
\* last one has left the queue.
Enqueued(t) ==
    {k \in Keys :
        /\ k[1] = writer.item /\ k[2] = t
        /\ alert[k].state = "none" /\ IsNewest(k)
        /\ \/ k[3] = 1
           \/ LET last == <<writer.item, t, k[3] - 1>>
              IN  writer.refold /\ alert[last].state # "none" /\ ~NeedsNoSibling(last)}

Write(i, row, refold) ==
    /\ writer = Idle
    /\ writer' = [at |-> "writing", item |-> i, row |-> row, refold |-> refold,
                  left |-> Candidates(i, row), adds |-> {}]
    /\ UNCHANGED <<item, transport, alert, allowed>>

\* A first event; the item is born read when its subject was viewed already.
WriteItem(i) ==
    /\ item[i].events = 0 /\ MaxEvents > 0
    /\ \E open \in (IF "reading" \in Events THEN BOOLEAN ELSE {TRUE}) :
           Write(i, [item[i] EXCEPT !.events = 1, !.open = open], FALSE)

\* A later event of the group folds into the open item.
FoldItem(i) ==
    /\ item[i].events \in 1..(MaxEvents - 1) /\ item[i].open /\ ~item[i].removed
    /\ Write(i, [item[i] EXCEPT !.events = @ + 1], TRUE)

EnqueueAlert(t) ==
    /\ writer # Idle /\ t \in writer.left
    /\ writer' = [writer EXCEPT !.left = @ \ {t}, !.adds = @ \cup Enqueued(t)]
    /\ UNCHANGED <<item, transport, alert, allowed>>

\* The item, its alerts and the hint commit together.
CommitWrite ==
    /\ writer # Idle /\ writer.left = {}
    /\ item' = [item EXCEPT ![writer.item] = [writer.row EXCEPT !.doomed = item[writer.item].doomed]]
    /\ alert' = [k \in Keys |-> IF k \in writer.adds THEN NewAlert ELSE alert[k]]
    /\ writer' = Idle
    /\ UNCHANGED <<transport, allowed>>

\* A failed enqueue or write rolls all of it back.
AbortWrite == writer # Idle /\ writer' = Idle /\ UNCHANGED <<item, transport, alert, allowed>>

-----------------------------------------------------------------------------
(* The inbox: every change of an item takes the recipient's lock              *)

CloseItem(i) ==
    /\ writer = Idle /\ item[i].events > 0 /\ ~item[i].removed /\ item[i].open
    /\ item' = [item EXCEPT ![i].open = FALSE]
    /\ UNCHANGED <<transport, alert, allowed, writer>>

ReopenItem(i) ==
    /\ writer = Idle /\ item[i].events > 0 /\ ~item[i].removed /\ ~item[i].open
    /\ item' = [item EXCEPT ![i].open = TRUE]
    /\ UNCHANGED <<transport, alert, allowed, writer>>

\* The subject of the item is deleted, or the recipient loses access to it.
LoseSubject(i) ==
    /\ item[i].events > 0 /\ ~item[i].removed /\ ~item[i].doomed
    /\ item' = [item EXCEPT ![i].doomed = TRUE]
    /\ UNCHANGED <<transport, alert, allowed, writer>>

Doomed == {i \in Items : item[i].doomed /\ ~item[i].removed}

\* sweepRecipient runs before every read of the inbox; it takes the lock only
\* when there is something to tombstone.
Swept == [i \in Items |-> IF i \in Doomed THEN [item[i] EXCEPT !.removed = TRUE] ELSE item[i]]

SweepInbox ==
    /\ Doomed # {} /\ writer = Idle
    /\ item' = Swept
    /\ UNCHANGED <<transport, alert, allowed, writer>>

-----------------------------------------------------------------------------
(* The registry                                                               *)

Suppress(S) ==
    [k \in Keys |-> IF k \in S
        THEN [alert[k] EXCEPT !.state = "suppressed", !.owner = NoWorker, !.held = FALSE]
        ELSE alert[k]]

\* suppressPending over the alerts no worker has claimed.
WithdrawnUnclaimed(T) == {k \in Keys : k[2] \in T /\ alert[k].state \in Queued \ {"leased"}}

\* suppressPending, which withdraws leased alerts too.
Withdrawn(T) == {k \in Keys : k[2] \in T /\ alert[k].state \in Queued}

\* putApnsTransport: a token another actor holds is refused while its row is
\* active and current; otherwise its row is rewritten in place, and its alerts
\* are withdrawn when it changes hands or installation (moved).  The
\* registration supersedes the installation's other token, if any.
Register(t, a, moved) ==
    /\ transport[t].actor = a \/ ~(transport[t].status = "active" /\ transport[t].current)
    /\ \E old \in {{}} \cup {{u} : u \in {v \in Transports \ {t} :
                                 transport[v].status = "active" /\ transport[v].actor = a}} :
          /\ alert' = Suppress(Withdrawn(old \cup
                          (IF moved \/ transport[t].actor # a THEN {t} ELSE {})))
          /\ transport' = [u \in Transports |->
                IF u = t THEN [status |-> "active", actor |-> a, current |-> TRUE]
                ELSE IF u \in old THEN [transport[u] EXCEPT !.status = "revoked"]
                ELSE transport[u]]
    /\ UNCHANGED <<item, allowed, writer>>

\* revokeTransport, and removeEnrollment of the last workspace.
Revoke(t) ==
    /\ transport[t].status = "active"
    /\ transport' = [transport EXCEPT ![t].status = "revoked"]
    /\ alert' = Suppress(Withdrawn({t}))
    /\ UNCHANGED <<item, allowed, writer>>

TransportLapses(t) ==
    /\ transport[t].current
    /\ transport' = [transport EXCEPT ![t].current = FALSE]
    /\ UNCHANGED <<item, alert, allowed, writer>>

\* A rule, a permission, an enrollment, a membership or a grant changes.
ChangeSettings(p) ==
    /\ allowed' = IF p \in allowed THEN allowed \ {p} ELSE allowed \cup {p}
    /\ UNCHANGED <<item, transport, alert, writer>>

-----------------------------------------------------------------------------
(* Time                                                                       *)

BackoffElapses(k) ==
    /\ alert[k].state = "failed" /\ ~alert[k].due
    /\ alert' = [alert EXCEPT ![k].due = TRUE]
    /\ UNCHANGED <<item, transport, allowed, writer>>

DeadlinePasses(k) ==
    /\ alert[k].state \in Queued /\ ~alert[k].late
    /\ alert' = [alert EXCEPT ![k].late = TRUE]
    /\ UNCHANGED <<item, transport, allowed, writer>>

QueueNext ==
    \/ \E i \in Items : WriteItem(i) \/ FoldItem(i)
    \/ \E t \in Transports : EnqueueAlert(t)
    \/ CommitWrite
    \/ "reading" \in Events /\ \E i \in Items : CloseItem(i) \/ ReopenItem(i)
    \/ "sweep" \in Events /\ \E i \in Items : LoseSubject(i)
    \/ SweepInbox
    \/ \E t \in Transports : Register(t, Recipient, FALSE)
    \/ "registry" \in Events /\ \E t \in Transports :
           \/ \E a \in Actors : Register(t, a, TRUE) \/ Register(t, a, FALSE)
           \/ Revoke(t) \/ TransportLapses(t)
    \/ "settings" \in Events /\ \E p \in Items \X Transports : ChangeSettings(p)
    \/ \E k \in Keys : BackoffElapses(k) \/ DeadlinePasses(k)

QueueTypeOK ==
    /\ item \in [Items -> ItemRows]
    /\ transport \in [Transports -> TransportRows]
    /\ alert \in [Keys -> Alerts]
    /\ allowed \subseteq Items \X Transports
    /\ writer \in Writing \cup {Idle}
=============================================================================
