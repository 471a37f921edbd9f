---------------------------- MODULE DocumentEditing ----------------------------
(* One Flight Deck document: its canonical head and version history, the edit   *)
(* leases and their takeover (document-edit-session.ts), the recovery versions  *)
(* that keep a body saved from a stale base, and the move to another channel    *)
(* (flightdeck-pg-api.ts, flightdeck-pg.ts).  Every transition of a lease and   *)
(* every canonical write locks the document row first, so it is one step;       *)
(* acquiring, moving and commenting read something before they have that lock   *)
(* and are two.  A body stands for a stored object with its title and hash.     *)
EXTENDS Integers, Sequences, FiniteSets

CONSTANTS
  Writers,         \* actors
  Sessions,        \* editor sessions, and NoSession where legacy clients take part
  NoSession,       \* a client without the session protocol
  Channels, Bodies,
  FirstChannel, FirstBody,   \* where and with what the document was created
  PatchChannels,   \* channels a metadata save may name
  OldBases,        \* bases of stale saves: former heads, NoBase for a client with none
  DocWorkers, MaxVersion, MaxLeases, MaxBusy

ASSUME DocumentAssumption ==
  /\ FirstChannel \in Channels /\ FirstBody \in Bodies
  /\ PatchChannels \subseteq Channels
  /\ OldBases \subseteq Nat
  /\ MaxVersion \in Nat \ {0} /\ MaxLeases \in Nat /\ MaxBusy \in Nat

VARIABLES
  doc,        \* the document row
  history,    \* its version snapshots: version -> what was saved, and how
  leases,     \* its edit leases, oldest first; a lease is named by its place
  recovery,   \* its recovery versions: idempotency key -> state
  links,      \* body -> the channel of its storage link
  comments,   \* the channels of its comments, deleted ones too, oldest first
  docWork     \* worker -> a request that has read but has not locked yet

docVars == <<doc, history, leases, recovery, links, comments, docWork>>

Versions == 1 .. MaxVersion
NoBase == 0                     \* base_available: false
NoLease == 0
Unlinked == [linked |-> FALSE]
LinkIn(ch) == [linked |-> TRUE, channel |-> ch]
Unused == [kind |-> "unused"]

(* The idempotency key of a recovery: the base it names and the body.           *)
RecoveryKeys == [base : OldBases, body : Bodies]
NoRecovery == [state |-> "none"]
Kept == {k \in RecoveryKeys : recovery[k] # NoRecovery}
(* One bound on the requests under way, the recoveries and the comments.        *)
Room ==
  Cardinality(Kept) + Len(comments)
    + Cardinality({p \in DocWorkers : docWork[p] # Unused}) < MaxBusy

(* A snapshot: what the head became, by which operation and with which lease.   *)
Snapshot(body, op, lease) == [body |-> body, op |-> op, lease |-> lease]

DocInit ==
  /\ doc = [version |-> 1, body |-> FirstBody, channel |-> FirstChannel,
            deleted |-> FALSE]
  /\ history = <<Snapshot(FirstBody, "created", NoLease)>>
  /\ leases = <<>>
  /\ recovery = [k \in RecoveryKeys |-> NoRecovery]
  /\ links = [b \in Bodies |-> IF b = FirstBody THEN LinkIn(FirstChannel)
                               ELSE Unlinked]
  /\ comments = <<>>
  /\ docWork = [p \in DocWorkers |-> Unused]

Works(p, next) == docWork' = [docWork EXCEPT ![p] = next]

(* Mutant: the snapshot is taken of the row as it was read.                     *)
BumpOldSnapshot(newBody, newChannel, gone, op, lease) ==
  /\ doc.version < MaxVersion
  /\ doc' = [version |-> doc.version + 1, body |-> newBody, channel |-> newChannel,
             deleted |-> gone]
  /\ history' = Append(history, Snapshot(doc.body, op, lease))

(* Every write of the head advances the version and, in the same transaction,   *)
(* keeps a snapshot under it; a snapshot that is there already stays.           *)
Bump(newBody, newChannel, gone, op, lease) ==
  /\ doc.version < MaxVersion
  /\ doc' = [version |-> doc.version + 1, body |-> newBody, channel |-> newChannel,
             deleted |-> gone]
  /\ history' = IF doc.version + 1 \in DOMAIN history THEN history
                ELSE Append(history, Snapshot(newBody, op, lease))

EnsureLink(body, ch) ==
  links' = IF links[body].linked THEN links ELSE [links EXCEPT ![body] = LinkIn(ch)]

--------------------------------------------------------------------------------
(* Leases.                                                                      *)

LeaseIds == 1 .. Len(leases)
Unreleased == {l \in LeaseIds : leases[l].state # "released"}
Expired == {l \in LeaseIds : leases[l].state = "expired"}
(* Mutant: a superseded session is looked for among unreleased leases.          *)
SupersededUnreleased(actor, session) ==
  session # NoSession /\ \E l \in Unreleased :
    /\ leases[l].holder = actor /\ leases[l].session = session
    /\ leases[l].superseded # 0
Superseded(actor, session) ==
  session # NoSession /\ \E l \in LeaseIds :
    /\ leases[l].holder = actor /\ leases[l].session = session
    /\ leases[l].superseded # 0

NewLease(actor, session, version, takeover) ==
  [holder |-> actor, session |-> session, state |-> "held", superseded |-> 0,
   born |-> version, takeover |-> takeover]

(* The transaction's clock stops when it starts, before it waits for the row.   *)
AskLease(p, actor, session, takeover, expected) ==
  /\ docWork[p] = Unused /\ Room
  /\ ~doc.deleted /\ Len(leases) < MaxLeases
  /\ IF takeover THEN session # NoSession /\ expected \in Unreleased
     ELSE expected = NoLease
  /\ Works(p, [kind |-> "acquire", actor |-> actor, session |-> session,
               takeover |-> takeover, expected |-> expected, expired |-> Expired])
  /\ UNCHANGED <<doc, history, leases, recovery, links, comments>>

ExpiredFor(p) == Expired \cap docWork[p].expired
(* Mutant: an actor's own lease, held on another device, is no conflict.        *)
ActiveForOthers(p) ==
  {l \in Unreleased \ ExpiredFor(p) :
     /\ leases[l].superseded = 0
     /\ docWork[p].takeover \/ leases[l].holder # docWork[p].actor}
ActiveFor(p) == {l \in Unreleased \ ExpiredFor(p) : leases[l].superseded = 0}
ReleasedExpired(p) ==
  [l \in LeaseIds |-> IF l \in ExpiredFor(p)
                      THEN [leases[l] EXCEPT !.state = "released"] ELSE leases[l]]

RefuseLease(p) ==
  /\ docWork[p].kind = "acquire"
  /\ \/ doc.deleted
     \/ Superseded(docWork[p].actor, docWork[p].session)
     \/ (~docWork[p].takeover /\ ActiveFor(p) # {})
     \/ /\ docWork[p].takeover
        /\ ~\E l \in ActiveFor(p) :
              /\ l = docWork[p].expected
              /\ leases[l].holder = docWork[p].actor
              /\ leases[l].session # docWork[p].session
  /\ Works(p, Unused)
  /\ UNCHANGED <<doc, history, leases, recovery, links, comments>>

AcquireLease(p) ==
  /\ docWork[p].kind = "acquire" /\ ~doc.deleted
  /\ ~docWork[p].takeover /\ ActiveFor(p) = {}
  /\ ~Superseded(docWork[p].actor, docWork[p].session)
  /\ Len(leases) < MaxLeases
  /\ leases' = Append(ReleasedExpired(p),
       NewLease(docWork[p].actor, docWork[p].session, doc.version, FALSE))
  /\ Works(p, Unused)
  /\ UNCHANGED <<doc, history, recovery, links, comments>>

(* The same actor's other session: every lease of the document is superseded    *)
(* and the head moves to a new version with the same body.                      *)
TakeOver(p) ==
  /\ docWork[p].kind = "acquire" /\ ~doc.deleted /\ docWork[p].takeover
  /\ ~Superseded(docWork[p].actor, docWork[p].session)
  /\ \E l \in ActiveFor(p) :
       /\ l = docWork[p].expected
       /\ leases[l].holder = docWork[p].actor
       /\ leases[l].session # docWork[p].session
  /\ Len(leases) < MaxLeases
  /\ Bump(doc.body, doc.channel, FALSE, "takeover", NoLease)
  /\ leases' = Append(
       [l \in LeaseIds |->
          [leases[l] EXCEPT !.state = "released", !.superseded = doc.version + 1]],
       NewLease(docWork[p].actor, docWork[p].session, doc.version + 1, TRUE))
  /\ Works(p, Unused)
  /\ UNCHANGED <<recovery, links, comments>>

Expire(l) ==
  /\ l \in LeaseIds /\ leases[l].state = "held"
  /\ leases' = [leases EXCEPT ![l].state = "expired"]
  /\ UNCHANGED <<doc, history, recovery, links, comments, docWork>>

(* A renewal that began in time, by its own transaction's clock, gives a lease  *)
(* that is neither released nor superseded a later end.                         *)
RenewLease(l) ==
  /\ l \in Expired /\ leases[l].superseded = 0
  /\ leases' = [leases EXCEPT ![l].state = "held"]
  /\ UNCHANGED <<doc, history, recovery, links, comments, docWork>>

ReleaseLease(l) ==
  /\ l \in Unreleased
  /\ leases' = [leases EXCEPT ![l].state = "released"]
  /\ UNCHANGED <<doc, history, recovery, links, comments, docWork>>

(* A client keeps the tokens it was given, long after they have lost their use. *)
(* Mutant: a token is good until its lease expires.                             *)
ValidUnexpired(l) == l \in LeaseIds /\ leases[l].state # "expired"
Valid(l) == l \in Unreleased \ Expired /\ leases[l].superseded = 0

--------------------------------------------------------------------------------
(* Saves.  A client saves from any version it once loaded, or from none.        *)

CanonicalBase(base) == base = doc.version /\ history[base].body = doc.body

SaveBody(l, base, body) ==
  /\ ~doc.deleted
  /\ base \in DOMAIN history /\ CanonicalBase(base)
  /\ Valid(l)
  /\ Bump(body, doc.channel, FALSE, "updated", l)
  /\ EnsureLink(body, doc.channel)
  /\ UNCHANGED <<leases, recovery, comments, docWork>>

(* No lease is asked of a save that cannot become the head: it is kept, once.   *)
SaveRecovery(base, body) ==
  /\ ~doc.deleted
  /\ base = NoBase \/ (base \in DOMAIN history /\ ~CanonicalBase(base))
  /\ LET k == [base |-> base, body |-> body] IN
       \/ recovery[k] # NoRecovery /\ UNCHANGED recovery
       \/ /\ recovery[k] = NoRecovery /\ Room
          /\ recovery' = [recovery EXCEPT
               ![k] = [state |-> "open", channel |-> doc.channel]]
  /\ EnsureLink(body, doc.channel)
  /\ UNCHANGED <<doc, history, leases, comments, docWork>>

(* A metadata save may also name a channel; the comments refer to the           *)
(* document's channel by a foreign key and keep it from leaving them.           *)
SaveMetadata(l, base, ch) ==
  /\ ~doc.deleted /\ Valid(l) /\ base = doc.version
  /\ ch = doc.channel \/ comments = <<>>
  /\ Bump(doc.body, ch, FALSE, "updated", l)
  /\ UNCHANGED <<leases, recovery, links, comments, docWork>>

Archive(base) ==
  /\ ~doc.deleted /\ base = doc.version
  /\ Bump(doc.body, doc.channel, FALSE, "updated", NoLease)
  /\ UNCHANGED <<leases, recovery, links, comments, docWork>>

PromoteRecovery(l, k, base) ==
  /\ ~doc.deleted /\ Valid(l)
  /\ recovery[k].state = "open"
  /\ base \in DOMAIN history /\ CanonicalBase(base)
  /\ Bump(k.body, doc.channel, FALSE, "promote", l)
  /\ recovery' = [recovery EXCEPT ![k] = [@ EXCEPT !.state = "promoted"]]
  /\ EnsureLink(k.body, doc.channel)
  /\ UNCHANGED <<leases, comments, docWork>>

(* A discard locks the recovery's row only: the document was read before, and   *)
(* may have been deleted since.                                                 *)
DiscardRecovery(k) ==
  /\ recovery[k].state = "open"
  /\ recovery' = [recovery EXCEPT ![k].state = "discarded"]
  /\ UNCHANGED <<doc, history, leases, links, comments, docWork>>

DeleteDoc ==
  /\ ~doc.deleted
  /\ Bump(doc.body, doc.channel, TRUE, "deleted", NoLease)
  /\ UNCHANGED <<leases, recovery, links, comments, docWork>>

--------------------------------------------------------------------------------
(* The move is one statement.  It sees the rows there were when it started, and *)
(* then waits for the document's.  The version is checked only if it was given. *)

StartMove(p, ch, base) ==
  /\ docWork[p] = Unused /\ Room
  /\ ~doc.deleted /\ ch # doc.channel /\ doc.version < MaxVersion
  /\ Works(p, [kind |-> "move", channel |-> ch, base |-> base,
               links |-> {b \in Bodies : links[b].linked},
               keys |-> Kept,
               comments |-> DOMAIN comments])
  /\ UNCHANGED <<doc, history, leases, recovery, links, comments>>

Movable(p) ==
  /\ docWork[p].kind = "move" /\ ~doc.deleted
  /\ docWork[p].base \in {NoBase, doc.version}

(* A comment that the statement did not see holds the document in its channel.  *)
HeldByComment(p) ==
  docWork[p].channel # doc.channel /\ ~(DOMAIN comments \subseteq docWork[p].comments)

MoveDoc(p) ==
  /\ Movable(p) /\ ~HeldByComment(p)
  /\ LET w == docWork[p] IN
       /\ Bump(doc.body, w.channel, FALSE, "updated", NoLease)
       /\ links' = [b \in Bodies |-> IF b \in w.links THEN LinkIn(w.channel)
                                     ELSE links[b]]
       /\ recovery' = [k \in RecoveryKeys |->
            IF k \in w.keys THEN [recovery[k] EXCEPT !.channel = w.channel]
            ELSE recovery[k]]
       /\ comments' = [i \in DOMAIN comments |-> w.channel]
  /\ Works(p, Unused)
  /\ UNCHANGED leases

(* Refused as stale, or undone because of the comment.                          *)
MoveFails(p) ==
  /\ docWork[p].kind = "move"
  /\ ~Movable(p) \/ HeldByComment(p)
  /\ Works(p, Unused)
  /\ UNCHANGED <<doc, history, leases, recovery, links, comments>>

(* A comment carries the channel that was read before its transaction.          *)
ReadForComment(p) ==
  /\ docWork[p] = Unused /\ ~doc.deleted /\ Room
  /\ Works(p, [kind |-> "comment", channel |-> doc.channel])
  /\ UNCHANGED <<doc, history, leases, recovery, links, comments>>

(* Mutant: no foreign key ties the comment's channel to the document's.         *)
CreateCommentUnbound(p) ==
  /\ docWork[p].kind = "comment"
  /\ comments' = IF ~doc.deleted THEN Append(comments, docWork[p].channel) ELSE comments
  /\ Works(p, Unused)
  /\ UNCHANGED <<doc, history, leases, recovery, links>>

CreateComment(p) ==
  /\ docWork[p].kind = "comment"
  /\ comments' = IF ~doc.deleted /\ docWork[p].channel = doc.channel
                 THEN Append(comments, doc.channel) ELSE comments
  /\ Works(p, Unused)
  /\ UNCHANGED <<doc, history, leases, recovery, links>>

--------------------------------------------------------------------------------
DocNext ==
  \/ \E p \in DocWorkers :
       \/ \E a \in Writers, s \in Sessions, t \in BOOLEAN,
            l \in {NoLease} \cup LeaseIds : AskLease(p, a, s, t, l)
       \/ \E ch \in Channels, base \in {NoBase, doc.version} : StartMove(p, ch, base)
       \/ AcquireLease(p) \/ TakeOver(p) \/ RefuseLease(p)
       \/ MoveDoc(p) \/ MoveFails(p) \/ ReadForComment(p) \/ CreateComment(p)
  \/ \E l \in LeaseIds :
       \/ Expire(l) \/ RenewLease(l) \/ ReleaseLease(l)
       \/ \E base \in Versions :
            \/ \E body \in Bodies : SaveBody(l, base, body)
            \/ \E ch \in PatchChannels \cup {doc.channel} : SaveMetadata(l, base, ch)
            \/ \E k \in RecoveryKeys : PromoteRecovery(l, k, base)
  \/ \E base \in Versions : Archive(base)
  \/ \E k \in RecoveryKeys : SaveRecovery(k.base, k.body) \/ DiscardRecovery(k)
  \/ DeleteDoc

DocSpec == DocInit /\ [][DocNext]_docVars

--------------------------------------------------------------------------------
(* Properties.                                                                  *)

LeaseRecords ==
  [holder : Writers, session : Sessions,
   state : {"held", "expired", "released"}, superseded : {0} \cup Versions,
   born : Versions, takeover : BOOLEAN]
Operations == {"created", "updated", "takeover", "promote", "deleted"}
RecoveryStates ==
  {NoRecovery} \cup [state : {"open", "promoted", "discarded"}, channel : Channels]
Work ==
  {Unused}
  \cup [kind : {"acquire"}, actor : Writers, session : Sessions,
        takeover : BOOLEAN, expected : Nat, expired : SUBSET Nat]
  \cup [kind : {"move"}, channel : Channels, base : {NoBase} \cup Versions,
        links : SUBSET Bodies, keys : SUBSET RecoveryKeys, comments : SUBSET Nat]
  \cup [kind : {"comment"}, channel : Channels]

DocTypeOK ==
  /\ doc \in [version : Versions, body : Bodies, channel : Channels, deleted : BOOLEAN]
  /\ history \in Seq([body : Bodies, op : Operations, lease : Nat])
  /\ leases \in Seq(LeaseRecords)
  /\ recovery \in [RecoveryKeys -> RecoveryStates]
  /\ links \in [Bodies -> {Unlinked} \cup [linked : {TRUE}, channel : Channels]]
  /\ comments \in Seq(Channels)
  /\ docWork \in [DocWorkers -> Work]

(* A document has one editor: two leases are never both unreleased, however     *)
(* acquisitions, takeovers, renewals and expiries interleave and although each  *)
(* request judges expiry by the time at which its own transaction began.        *)
OneEditor == \A l1, l2 \in Unreleased : l1 = l2

(* A takeover is a barrier in the history: no version from the takeover's on    *)
(* was written under a lease it superseded, and every lease granted before it   *)
(* was superseded by it or by an earlier takeover's successor chain.            *)
TakeoverIsABarrier ==
  \A v \in DOMAIN history :
    /\ history[v].lease # NoLease =>
         LET l == leases[history[v].lease] IN
           /\ l.born < v
           /\ l.superseded = 0 \/ v < l.superseded
    /\ history[v].op = "takeover" =>
         \A l \in LeaseIds :
           leases[l].born < v => leases[l].superseded # 0 /\ leases[l].superseded >= v

(* A superseded editor session is never given the document again, also after    *)
(* its successor has expired.  (The takeover's own session may hold an older    *)
(* lease that the takeover itself supersedes.)                                  *)
SupersededSessionStaysOut ==
  \A l1, l2 \in LeaseIds :
    /\ leases[l1].superseded # 0
    /\ leases[l1].session # NoSession
    /\ leases[l2].holder = leases[l1].holder
    /\ leases[l2].session = leases[l1].session
    => \/ leases[l2].born < leases[l1].superseded
       \/ leases[l2].born = leases[l1].superseded /\ leases[l2].takeover

(* Whatever moved the head (a save, a promotion, a takeover, a move that waited *)
(* for it, a deletion), every version has its snapshot and the last one shows   *)
(* the body that is the head.                                                   *)
HistoryIsComplete ==
  /\ Len(history) = doc.version
  /\ history[doc.version].body = doc.body
  /\ history[doc.version].op = "deleted" <=> doc.deleted

(* The comments are in the document's channel, also when one is written while   *)
(* the document moves.                                                          *)
CommentsFollowTheDocument ==
  \A i \in DOMAIN comments : comments[i] = doc.channel
================================================================================
