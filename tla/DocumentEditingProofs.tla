------------------------- MODULE DocumentEditingProofs -------------------------
(* Theorems about DocumentEditing for every number of writers, sessions,        *)
(* channels, bodies, versions, leases and requests.  The inductive invariant    *)
(* adds to the properties that a superseded lease is released, that no lease is *)
(* younger than the head, that a snapshot names a lease there is, and that a    *)
(* move only remembers recoveries that exist.  At the end, the composition with *)
(* shared records and groups that MCDocuments checks.                           *)
EXTENDS MCDocuments, SharedRecordsProofs, GroupKeysProofs, SequenceTheorems, TLAPS

Heads == [version : Versions, body : Bodies, channel : Channels, deleted : BOOLEAN]
Snapshots == [body : Bodies, op : Operations, lease : Nat]

(* The head, its history and its leases.                                        *)
EditTypeOK ==
  /\ doc \in Heads
  /\ history \in Seq(Snapshots)
  /\ leases \in Seq(LeaseRecords)

LeasesAreSettled ==
  \A l \in LeaseIds :
    /\ leases[l].born <= doc.version
    /\ leases[l].superseded # 0 => leases[l].state = "released"

SnapshotsNameLeases ==
  \A v \in DOMAIN history : history[v].lease \in {NoLease} \cup LeaseIds

EditInv ==
  /\ EditTypeOK
  /\ HistoryIsComplete
  /\ LeasesAreSettled
  /\ SnapshotsNameLeases
  /\ OneEditor
  /\ TakeoverIsABarrier
  /\ SupersededSessionStaysOut

--------------------------------------------------------------------------------
(* The kinds of steps the head and the leases take.                             *)

HeadStays == doc' = doc /\ history' = history

(* A lease that goes on is the same lease, and unreleased only if it was.       *)
GoesOn(l) ==
  /\ leases'[l] \in LeaseRecords
  /\ leases'[l].holder = leases[l].holder /\ leases'[l].session = leases[l].session
  /\ leases'[l].born = leases[l].born /\ leases'[l].takeover = leases[l].takeover
  /\ leases'[l].superseded = leases[l].superseded
  /\ leases[l].state = "released" => leases'[l].state = "released"

LeasesGoOn ==
  /\ leases' \in Seq(LeaseRecords) /\ Len(leases') = Len(leases)
  /\ \A l \in LeaseIds : GoesOn(l)

(* A new lease of this head, when no other is left, to a session that no        *)
(* takeover put out.                                                            *)
LeaseIsGiven ==
  /\ leases' \in Seq(LeaseRecords) /\ Len(leases') = Len(leases) + 1
  /\ \A l \in LeaseIds : GoesOn(l) /\ leases'[l].state = "released"
  /\ LET new == leases'[Len(leases) + 1] IN
       /\ new.superseded = 0 /\ new.born = doc.version
       /\ ~Superseded(new.holder, new.session)

(* The head advances, under a valid lease or under none.                        *)
HeadAdvances ==
  /\ ~doc.deleted
  /\ \E body \in Bodies, ch \in Channels, gone \in BOOLEAN,
        op \in Operations \ {"created", "takeover"}, l \in {NoLease} \cup LeaseIds :
       /\ op = "deleted" <=> gone
       /\ l # NoLease => Valid(l)
       /\ Bump(body, ch, gone, op, l)
  /\ leases' = leases

(* A takeover supersedes every lease and gives a new one of a new head.         *)
HeadIsTakenOver ==
  /\ ~doc.deleted
  /\ Bump(doc.body, doc.channel, FALSE, "takeover", NoLease)
  /\ leases' \in Seq(LeaseRecords) /\ Len(leases') = Len(leases) + 1
  /\ \A l \in LeaseIds :
       /\ leases'[l].holder = leases[l].holder /\ leases'[l].session = leases[l].session
       /\ leases'[l].born = leases[l].born
       /\ leases'[l].state = "released" /\ leases'[l].superseded = doc.version + 1
  /\ LET new == leases'[Len(leases) + 1] IN
       /\ new.superseded = 0 /\ new.born = doc.version + 1 /\ new.takeover
       /\ ~Superseded(new.holder, new.session)

EditStep ==
  \/ HeadStays /\ (LeasesGoOn \/ LeaseIsGiven)
  \/ HeadAdvances
  \/ HeadIsTakenOver

--------------------------------------------------------------------------------
(* What every kind of step preserves.                                           *)

LEMMA HeadTyped ==
  ASSUME EditInv
  PROVE  /\ doc.version \in Nat \ {0} /\ doc.version <= MaxVersion
         /\ Len(history) = doc.version /\ DOMAIN history = 1 .. doc.version
         /\ Len(leases) \in Nat /\ DOMAIN leases = LeaseIds
         /\ \A v \in DOMAIN history : history[v] \in Snapshots
         /\ \A l \in LeaseIds : leases[l] \in LeaseRecords
BY DocumentAssumption
DEF EditInv, EditTypeOK, HistoryIsComplete, Heads, Versions, LeaseIds

(* A version is added to the history, and nothing in it changes.                *)
LEMMA HistoryGrows ==
  ASSUME EditInv, NEW body \in Bodies, NEW ch \in Channels, NEW gone \in BOOLEAN,
         NEW op \in Operations, NEW l \in Nat, Bump(body, ch, gone, op, l)
  PROVE  /\ doc' \in Heads /\ doc'.version = doc.version + 1 /\ doc'.body = body
         /\ doc'.channel = ch /\ doc'.deleted = gone
         /\ history' \in Seq(Snapshots) /\ Len(history') = doc.version + 1
         /\ DOMAIN history' = 1 .. doc.version + 1
         /\ history'[doc.version + 1] = Snapshot(body, op, l)
         /\ \A v \in 1 .. doc.version : history'[v] = history[v]
<1>1. history \in Seq(Snapshots)
  BY DEF EditInv, EditTypeOK
<1>2. doc.version + 1 \notin DOMAIN history
  BY HeadTyped
<1>3. history' = Append(history, Snapshot(body, op, l))
  BY <1>2 DEF Bump
<1>4. Snapshot(body, op, l) \in Snapshots
  BY DEF Snapshot, Snapshots
<1>5. /\ history' \in Seq(Snapshots) /\ Len(history') = doc.version + 1
      /\ history'[doc.version + 1] = Snapshot(body, op, l)
      /\ \A v \in 1 .. doc.version : history'[v] = history[v]
  BY <1>1, <1>3, <1>4, HeadTyped, AppendProperties
<1>6. DOMAIN history' = 1 .. doc.version + 1
  BY <1>5
<1>7. /\ doc' = [version |-> doc.version + 1, body |-> body, channel |-> ch,
                 deleted |-> gone]
      /\ doc.version + 1 \in Versions
  BY HeadTyped, DocumentAssumption DEF Bump, Versions
<1>8. doc' \in Heads
  BY <1>7 DEF Heads
<1> QED BY <1>5, <1>6, <1>7, <1>8

LEMMA LeasesChange ==
  ASSUME EditInv, HeadStays, LeasesGoOn
  PROVE  EditInv'
<1>1. /\ Len(leases') = Len(leases) /\ LeaseIds' = LeaseIds
      /\ \A l \in LeaseIds : GoesOn(l) /\ leases[l] \in LeaseRecords
  BY HeadTyped DEF LeasesGoOn, LeaseIds
<1>2. EditTypeOK' /\ HistoryIsComplete'
  BY DEF EditInv, EditTypeOK, HistoryIsComplete, HeadStays, LeasesGoOn
<1>3. LeasesAreSettled'
  BY <1>1 DEF EditInv, LeasesAreSettled, GoesOn, HeadStays
<1>4. SnapshotsNameLeases'
  BY <1>1 DEF EditInv, SnapshotsNameLeases, HeadStays
<1>5. OneEditor'
  BY <1>1 DEF EditInv, OneEditor, Unreleased, GoesOn
<1>6. TakeoverIsABarrier'
  <2>1. \A v \in DOMAIN history :
          history[v].lease # NoLease =>
            /\ history[v].lease \in LeaseIds
            /\ leases'[history[v].lease].born = leases[history[v].lease].born
            /\ leases'[history[v].lease].superseded = leases[history[v].lease].superseded
    BY <1>1 DEF EditInv, SnapshotsNameLeases, GoesOn
  <2>2. \A l \in LeaseIds : /\ leases'[l].born = leases[l].born
                            /\ leases'[l].superseded = leases[l].superseded
    BY <1>1 DEF GoesOn
  <2> QED BY <1>1, <2>1, <2>2 DEF EditInv, TakeoverIsABarrier, HeadStays
<1>7. SupersededSessionStaysOut'
  BY <1>1 DEF EditInv, SupersededSessionStaysOut, GoesOn
<1> QED BY <1>2, <1>3, <1>4, <1>5, <1>6, <1>7 DEF EditInv

(* A new lease is one more id.                                                  *)
LEMMA OneMoreLease ==
  ASSUME EditInv, leases' \in Seq(LeaseRecords), Len(leases') = Len(leases) + 1
  PROVE  /\ LeaseIds' = LeaseIds \cup {Len(leases) + 1}
         /\ Len(leases) + 1 \notin LeaseIds
         /\ \A l \in LeaseIds' : leases'[l] \in LeaseRecords
BY HeadTyped DEF LeaseIds

LEMMA LeaseGiven ==
  ASSUME EditInv, HeadStays, LeaseIsGiven
  PROVE  EditInv'
<1> DEFINE n == Len(leases) + 1
<1>1. /\ LeaseIds' = LeaseIds \cup {n} /\ n \notin LeaseIds
      /\ \A l \in LeaseIds' : leases'[l] \in LeaseRecords
  BY OneMoreLease DEF LeaseIsGiven
<1>2. /\ \A l \in LeaseIds : GoesOn(l) /\ leases'[l].state = "released"
      /\ leases'[n].superseded = 0 /\ leases'[n].born = doc.version
      /\ ~Superseded(leases'[n].holder, leases'[n].session)
  BY DEF LeaseIsGiven
<1> HIDE DEF n
<1>3. EditTypeOK' /\ HistoryIsComplete'
  BY DEF EditInv, EditTypeOK, HistoryIsComplete, HeadStays, LeaseIsGiven
<1>4. LeasesAreSettled'
  BY <1>1, <1>2, HeadTyped DEF EditInv, LeasesAreSettled, GoesOn, HeadStays
<1>5. SnapshotsNameLeases'
  BY <1>1 DEF EditInv, SnapshotsNameLeases, HeadStays
<1>6. OneEditor'
  BY <1>1, <1>2 DEF OneEditor, Unreleased
<1>7. TakeoverIsABarrier'
  <2>1. ASSUME NEW v \in DOMAIN history
        PROVE  history[v].lease # NoLease =>
                 LET l == leases'[history[v].lease] IN
                   l.born < v /\ (l.superseded = 0 \/ v < l.superseded)
    BY <1>2 DEF EditInv, SnapshotsNameLeases, TakeoverIsABarrier, GoesOn
  <2>2. ASSUME NEW v \in DOMAIN history, history[v].op = "takeover",
               NEW l \in LeaseIds', leases'[l].born < v
        PROVE  leases'[l].superseded # 0 /\ leases'[l].superseded >= v
    <3>1. CASE l \in LeaseIds
      BY <1>2, <2>2, <3>1 DEF EditInv, TakeoverIsABarrier, GoesOn
    <3>2. CASE l = n
      <4>1. v \in 1 .. doc.version /\ doc.version \in Nat
        BY HeadTyped
      <4> QED BY <1>2, <2>2, <3>2, <4>1
    <3> QED BY <1>1, <3>1, <3>2
  <2> QED BY <2>1, <2>2 DEF TakeoverIsABarrier, HeadStays
<1>8. SupersededSessionStaysOut'
  <2> SUFFICES ASSUME NEW l1 \in LeaseIds', NEW l2 \in LeaseIds',
                      leases'[l1].superseded # 0,
                      leases'[l1].session # NoSession,
                      leases'[l2].holder = leases'[l1].holder,
                      leases'[l2].session = leases'[l1].session
               PROVE  \/ leases'[l2].born < leases'[l1].superseded
                      \/ /\ leases'[l2].born = leases'[l1].superseded
                         /\ leases'[l2].takeover
    BY DEF SupersededSessionStaysOut
  <2>1. l1 \in LeaseIds
    BY <1>1, <1>2
  <2>2. l2 # n
    BY <1>2, <2>1 DEF Superseded, GoesOn
  <2> QED BY <1>1, <1>2, <2>1, <2>2 DEF EditInv, SupersededSessionStaysOut, GoesOn
<1> QED BY <1>3, <1>4, <1>5, <1>6, <1>7, <1>8 DEF EditInv

LEMMA Advanced ==
  ASSUME EditInv, HeadAdvances
  PROVE  EditInv'
<1>1. PICK body \in Bodies, ch \in Channels, gone \in BOOLEAN,
           op \in Operations \ {"created", "takeover"}, l \in {NoLease} \cup LeaseIds :
        /\ op = "deleted" <=> gone
        /\ l # NoLease => Valid(l)
        /\ Bump(body, ch, gone, op, l)
  BY DEF HeadAdvances
<1>2. leases' = leases /\ LeaseIds' = LeaseIds
  BY DEF HeadAdvances, LeaseIds
<1>3. l \in Nat /\ op \in Operations
  BY HeadTyped DEF LeaseIds, NoLease
<1> DEFINE n == doc.version + 1
<1>4. /\ doc' \in Heads /\ doc'.version = n /\ doc'.body = body
      /\ doc'.deleted = gone
      /\ history' \in Seq(Snapshots) /\ Len(history') = n
      /\ DOMAIN history' = 1 .. n
      /\ history'[n] = Snapshot(body, op, l)
      /\ \A v \in 1 .. doc.version : history'[v] = history[v]
  BY <1>1, <1>3, HistoryGrows
<1>5. doc.version \in Nat /\ n \in Nat /\ DOMAIN history = 1 .. doc.version
      /\ 1 .. n = (1 .. doc.version) \cup {n}
  BY HeadTyped
<1> HIDE DEF n
<1>6. EditTypeOK'
  BY <1>2, <1>4 DEF EditInv, EditTypeOK
<1>7. HistoryIsComplete'
  BY <1>1, <1>4 DEF HistoryIsComplete, Snapshot
<1>8. LeasesAreSettled'
  <2>1. \A k \in LeaseIds : leases[k].born \in Nat
    BY HeadTyped, DocumentAssumption DEF LeaseRecords, Versions
  <2> QED BY <1>2, <1>4, <2>1, HeadTyped DEF EditInv, LeasesAreSettled, n
<1>9. SnapshotsNameLeases'
  BY <1>2, <1>4, <1>5 DEF EditInv, SnapshotsNameLeases, Snapshot
<1>10. OneEditor' /\ SupersededSessionStaysOut'
  BY <1>2 DEF EditInv, OneEditor, Unreleased, SupersededSessionStaysOut
<1>11. TakeoverIsABarrier'
  <2>1. ASSUME NEW v \in 1 .. doc.version
        PROVE  /\ history'[v].lease # NoLease =>
                    LET k == leases'[history'[v].lease] IN
                      k.born < v /\ (k.superseded = 0 \/ v < k.superseded)
               /\ history'[v].op = "takeover" =>
                    \A k \in LeaseIds' : leases'[k].born < v =>
                      leases'[k].superseded # 0 /\ leases'[k].superseded >= v
    BY <1>2, <1>4, <1>5 DEF EditInv, TakeoverIsABarrier
  <2>2. history'[n].op # "takeover" /\ history'[n].lease = l
    BY <1>4 DEF Snapshot
  <2>3. l # NoLease => leases'[l].born < n /\ leases'[l].superseded = 0
    <3> HAVE l # NoLease
    <3>1. l \in LeaseIds /\ leases[l].superseded = 0 /\ leases[l].born <= doc.version
      BY <1>1 DEF Valid, EditInv, LeasesAreSettled
    <3>2. leases[l].born \in Nat
      BY <3>1, HeadTyped, DocumentAssumption DEF LeaseRecords, Versions
    <3> QED BY <1>2, <3>1, <3>2, HeadTyped DEF n
  <2> QED BY <1>4, <1>5, <2>1, <2>2, <2>3 DEF TakeoverIsABarrier
<1> QED BY <1>6, <1>7, <1>8, <1>9, <1>10, <1>11 DEF EditInv

LEMMA TakenOver ==
  ASSUME EditInv, HeadIsTakenOver
  PROVE  EditInv'
<1> DEFINE n == doc.version + 1
           m == Len(leases) + 1
<1>1. /\ doc.body \in Bodies /\ doc.channel \in Channels
      /\ "takeover" \in Operations /\ NoLease \in Nat
  BY DEF EditInv, EditTypeOK, Heads, Operations, NoLease
<1>2. /\ doc' \in Heads /\ doc'.version = n /\ doc'.body = doc.body
      /\ doc'.deleted = FALSE
      /\ history' \in Seq(Snapshots) /\ Len(history') = n
      /\ DOMAIN history' = 1 .. n
      /\ history'[n] = Snapshot(doc.body, "takeover", NoLease)
      /\ \A v \in 1 .. doc.version : history'[v] = history[v]
  <2>1. Bump(doc.body, doc.channel, FALSE, "takeover", NoLease)
    BY DEF HeadIsTakenOver
  <2> QED BY <1>1, <2>1, HistoryGrows
<1>3. doc.version \in Nat /\ n \in Nat /\ n # 0 /\ DOMAIN history = 1 .. doc.version
      /\ 1 .. n = (1 .. doc.version) \cup {n}
  BY HeadTyped
<1>4. /\ LeaseIds' = LeaseIds \cup {m} /\ m \notin LeaseIds
      /\ \A l \in LeaseIds' : leases'[l] \in LeaseRecords
  BY OneMoreLease DEF HeadIsTakenOver
<1>5. \A l \in LeaseIds :
        /\ leases'[l].holder = leases[l].holder /\ leases'[l].session = leases[l].session
        /\ leases'[l].born = leases[l].born
        /\ leases'[l].state = "released" /\ leases'[l].superseded = n
        /\ leases[l].born \in Nat /\ leases[l].born <= doc.version
  <2>1. \A l \in LeaseIds : leases[l].born \in Nat /\ leases[l].born <= doc.version
    BY HeadTyped, DocumentAssumption DEF LeaseRecords, Versions, EditInv, LeasesAreSettled
  <2> QED BY <2>1 DEF HeadIsTakenOver
<1>6. /\ leases'[m].superseded = 0 /\ leases'[m].born = n /\ leases'[m].takeover
      /\ ~Superseded(leases'[m].holder, leases'[m].session)
  BY DEF HeadIsTakenOver
<1>7. \A l \in LeaseIds : leases[l].born < n
  BY <1>3, <1>5
<1> HIDE DEF n, m
<1>8. EditTypeOK'
  BY <1>2 DEF EditInv, EditTypeOK, HeadIsTakenOver
<1>9. HistoryIsComplete'
  BY <1>2 DEF HistoryIsComplete, Snapshot
<1>10. LeasesAreSettled'
  BY <1>2, <1>3, <1>4, <1>5, <1>6, <1>7 DEF LeasesAreSettled
<1>11. SnapshotsNameLeases'
  BY <1>2, <1>3, <1>4 DEF EditInv, SnapshotsNameLeases, Snapshot
<1>12. OneEditor'
  BY <1>4, <1>5 DEF OneEditor, Unreleased
<1>13. TakeoverIsABarrier'
  <2>1. ASSUME NEW v \in 1 .. n
        PROVE  v < n \/ v = n
    BY <1>3
  <2>2. ASSUME NEW v \in 1 .. n
        PROVE  history'[v].lease # NoLease =>
                 LET l == leases'[history'[v].lease] IN
                   l.born < v /\ (l.superseded = 0 \/ v < l.superseded)
    <3>1. CASE v = n
      BY <1>2, <3>1 DEF Snapshot
    <3>2. CASE v # n
      <4>1. v \in 1 .. doc.version /\ v < n /\ history'[v] = history[v]
        BY <1>2, <1>3, <2>1, <3>2
      <4> QED BY <1>3, <1>5, <4>1 DEF EditInv, SnapshotsNameLeases, TakeoverIsABarrier
    <3> QED BY <3>1, <3>2
  <2>3. ASSUME NEW v \in 1 .. n, NEW l \in LeaseIds', leases'[l].born < v
        PROVE  leases'[l].superseded # 0 /\ leases'[l].superseded >= v
    <3>1. l # m
      BY <1>3, <1>6, <2>1, <2>3
    <3> QED BY <1>3, <1>4, <1>5, <2>1, <3>1
  <2> QED BY <1>2, <2>2, <2>3 DEF TakeoverIsABarrier
<1>14. SupersededSessionStaysOut'
  <2> SUFFICES ASSUME NEW l1 \in LeaseIds', NEW l2 \in LeaseIds',
                      leases'[l1].superseded # 0
               PROVE  \/ leases'[l2].born < leases'[l1].superseded
                      \/ /\ leases'[l2].born = leases'[l1].superseded
                         /\ leases'[l2].takeover
    BY DEF SupersededSessionStaysOut
  <2>1. leases'[l1].superseded = n
    BY <1>4, <1>5, <1>6
  <2> QED BY <1>4, <1>5, <1>6, <1>7, <2>1
<1> QED BY <1>8, <1>9, <1>10, <1>11, <1>12, <1>13, <1>14 DEF EditInv

LEMMA EditStepKeeps ==
  ASSUME EditInv, EditStep
  PROVE  EditInv'
BY LeasesChange, LeaseGiven, Advanced, TakenOver DEF EditStep

--------------------------------------------------------------------------------
(* Everything else the document keeps.                                          *)

(* A move only remembers recoveries there are, and they stay.                   *)
MovesRememberRecoveries ==
  \A p \in DocWorkers : docWork[p].kind = "move" => docWork[p].keys \subseteq Kept

Linked == {Unlinked} \cup [linked : {TRUE}, channel : Channels]

DocInv ==
  /\ DocTypeOK
  /\ EditInv
  /\ MovesRememberRecoveries
  /\ CommentsFollowTheDocument

Acquiring == [kind : {"acquire"}, actor : Writers, session : Sessions,
              takeover : BOOLEAN, expected : Nat, expired : SUBSET Nat]
Moving == [kind : {"move"}, channel : Channels, base : {NoBase} \cup Versions,
           links : SUBSET Bodies, keys : SUBSET RecoveryKeys, comments : SUBSET Nat]
Commenting == [kind : {"comment"}, channel : Channels]

LEMMA WorkByKind ==
  ASSUME NEW w \in Work
  PROVE  /\ w.kind = "acquire" => w \in Acquiring
         /\ w.kind = "move" => w \in Moving
         /\ w.kind = "comment" => w \in Commenting
BY DEF Work, Unused, Acquiring, Moving, Commenting

(* The requests that go on are the ones there were, one of them changed.        *)
WorkGoesOn ==
  /\ docWork' \in [DocWorkers -> Work]
  /\ \A p \in DocWorkers : docWork'[p].kind = "move" =>
       docWork'[p] = docWork[p] \/ docWork'[p].keys \subseteq Kept

LEMMA WorkChanges ==
  ASSUME DocTypeOK, NEW p, NEW next \in Work, Works(p, next),
         next.kind = "move" => next.keys \subseteq Kept
  PROVE  WorkGoesOn
BY DEF DocTypeOK, Works, WorkGoesOn

LEMMA WorkStays ==
  ASSUME DocTypeOK, docWork' = docWork
  PROVE  WorkGoesOn
BY DEF DocTypeOK, WorkGoesOn

LEMMA UnusedIsWork == Unused \in Work /\ Unused.kind # "move"
BY DEF Work, Unused

(* Recoveries are never forgotten.                                              *)
RecoveryGoesOn ==
  /\ recovery' \in [RecoveryKeys -> RecoveryStates]
  /\ \A k \in RecoveryKeys : recovery[k] # NoRecovery => recovery'[k] # NoRecovery

CommentsFollow ==
  /\ comments' \in Seq(Channels)
  /\ \A i \in DOMAIN comments' : comments'[i] = doc'.channel

RestStep ==
  /\ RecoveryGoesOn
  /\ links' \in [Bodies -> Linked]
  /\ CommentsFollow
  /\ WorkGoesOn

LEMMA StepKeeps ==
  ASSUME DocInv, EditStep, RestStep
  PROVE  DocInv'
<1>1. EditInv'
  BY EditStepKeeps DEF DocInv
<1>2. DocTypeOK'
  BY <1>1 DEF DocTypeOK, EditInv, EditTypeOK, Heads, Snapshots, RestStep,
              RecoveryGoesOn, CommentsFollow, WorkGoesOn, Linked
<1>3. MovesRememberRecoveries'
  BY DEF DocInv, MovesRememberRecoveries, Kept, RestStep, RecoveryGoesOn, WorkGoesOn
<1>4. CommentsFollowTheDocument'
  BY DEF CommentsFollowTheDocument, RestStep, CommentsFollow
<1> QED BY <1>1, <1>2, <1>3, <1>4 DEF DocInv

--------------------------------------------------------------------------------
(* What the actions leave alone.                                                *)

LEMMA RecoveryStays ==
  ASSUME DocInv, recovery' = recovery
  PROVE  RecoveryGoesOn
BY DEF DocInv, DocTypeOK, RecoveryGoesOn

LEMMA LinksStay ==
  ASSUME DocInv, links' = links
  PROVE  links' \in [Bodies -> Linked]
BY DEF DocInv, DocTypeOK, Linked

LEMMA LinkEnsured ==
  ASSUME DocInv, NEW body \in Bodies, EnsureLink(body, doc.channel)
  PROVE  links' \in [Bodies -> Linked]
<1>1. doc.channel \in Channels
  BY DEF DocInv, DocTypeOK
<1>2. LinkIn(doc.channel) \in Linked /\ links \in [Bodies -> Linked]
  BY <1>1 DEF LinkIn, Linked, DocInv, DocTypeOK
<1> QED BY <1>2 DEF EnsureLink

LEMMA CommentsStay ==
  ASSUME DocInv, comments' = comments, doc'.channel = doc.channel
  PROVE  CommentsFollow
BY DEF DocInv, DocTypeOK, CommentsFollowTheDocument, CommentsFollow

LEMMA HeadAndLeasesStay ==
  ASSUME DocInv, doc' = doc, history' = history, leases' = leases
  PROVE  EditStep
<1>1. LeasesGoOn
  BY HeadTyped DEF DocInv, EditInv, EditTypeOK, LeasesGoOn, GoesOn
<1> QED BY <1>1 DEF EditStep, HeadStays

(* A request that only reads, or gives up.                                      *)
LEMMA OnlyWork ==
  ASSUME DocInv, WorkGoesOn,
         UNCHANGED <<doc, history, leases, recovery, links, comments>>
  PROVE  DocInv'
<1>1. EditStep
  BY HeadAndLeasesStay
<1>2. RestStep
  BY RecoveryStays, LinksStay, CommentsStay DEF RestStep
<1> QED BY <1>1, <1>2, StepKeeps

(* One lease changes its state only.                                            *)
LEMMA OneLeaseChanges ==
  ASSUME DocInv, NEW l \in LeaseIds, NEW state \in {"held", "expired", "released"},
         leases[l].state = "released" => state = "released",
         leases' = [leases EXCEPT ![l].state = state],
         UNCHANGED <<doc, history, recovery, links, comments, docWork>>
  PROVE  DocInv'
<1>1. EditInv /\ leases \in Seq(LeaseRecords) /\ l \in 1 .. Len(leases)
  BY DEF DocInv, EditInv, EditTypeOK, LeaseIds
<1>2. [leases[l] EXCEPT !.state = state] \in LeaseRecords
  BY <1>1, HeadTyped DEF LeaseRecords
<1>3. leases' = [leases EXCEPT ![l] = [leases[l] EXCEPT !.state = state]]
  OBVIOUS
<1>4. leases' \in Seq(LeaseRecords) /\ Len(leases') = Len(leases)
  BY <1>1, <1>2, <1>3, ExceptSeq
<1>5. \A k \in LeaseIds : GoesOn(k)
  BY <1>1, <1>2, <1>3, HeadTyped DEF GoesOn, LeaseRecords
<1>6. EditStep
  BY <1>4, <1>5 DEF EditStep, HeadStays, LeasesGoOn
<1>7. RestStep
  BY RecoveryStays, LinksStay, CommentsStay, WorkStays DEF RestStep, DocInv
<1> QED BY <1>6, <1>7, StepKeeps

--------------------------------------------------------------------------------
(* The actions on leases.                                                       *)

LEMMA LeaseAsked ==
  ASSUME DocInv, NEW p \in DocWorkers, NEW actor \in Writers, NEW session \in Sessions,
         NEW takeover \in BOOLEAN, NEW expected \in {NoLease} \cup LeaseIds,
         AskLease(p, actor, session, takeover, expected)
  PROVE  DocInv'
<1> DEFINE w == [kind |-> "acquire", actor |-> actor, session |-> session,
                 takeover |-> takeover, expected |-> expected, expired |-> Expired]
<1>1. w \in Acquiring
  BY HeadTyped DEF DocInv, Acquiring, NoLease, LeaseIds, Expired
<1>2. w \in Work /\ w.kind # "move"
  BY <1>1 DEF Acquiring, Work
<1>3. WorkGoesOn
  BY <1>2, WorkChanges DEF AskLease, DocInv
<1> QED BY <1>3, OnlyWork DEF AskLease

LEMMA LeaseRefused ==
  ASSUME DocInv, NEW p \in DocWorkers, RefuseLease(p)
  PROVE  DocInv'
<1>1. WorkGoesOn
  BY WorkChanges, UnusedIsWork DEF RefuseLease, DocInv
<1> QED BY <1>1, OnlyWork DEF RefuseLease

(* What an expired lease is released to, for a request.                         *)
LEMMA ReleasedGoOn ==
  ASSUME DocInv, NEW p
  PROVE  /\ ReleasedExpired(p) \in Seq(LeaseRecords)
         /\ Len(ReleasedExpired(p)) = Len(leases)
         /\ \A l \in LeaseIds :
              /\ ReleasedExpired(p)[l] \in LeaseRecords
              /\ ReleasedExpired(p)[l] =
                   IF l \in ExpiredFor(p) THEN [leases[l] EXCEPT !.state = "released"]
                   ELSE leases[l]
<1>1. /\ Len(leases) \in Nat
      /\ \A l \in LeaseIds : leases[l] \in LeaseRecords
  BY HeadTyped DEF DocInv
<1>2. \A l \in LeaseIds :
        /\ ReleasedExpired(p)[l] \in LeaseRecords
        /\ ReleasedExpired(p)[l] =
             IF l \in ExpiredFor(p) THEN [leases[l] EXCEPT !.state = "released"]
             ELSE leases[l]
  BY <1>1 DEF ReleasedExpired, LeaseRecords
<1>3. ReleasedExpired(p) = [l \in 1 .. Len(leases) |-> ReleasedExpired(p)[l]]
  BY DEF ReleasedExpired, LeaseIds
<1>4. \A l \in 1 .. Len(leases) : ReleasedExpired(p)[l] \in LeaseRecords
  BY <1>2 DEF LeaseIds
<1>5. /\ ReleasedExpired(p) \in Seq(LeaseRecords)
      /\ Len(ReleasedExpired(p)) = Len(leases)
  BY <1>1, <1>3, <1>4
<1> QED BY <1>2, <1>5

LEMMA LeaseAppended ==
  ASSUME DocInv, NEW s \in Seq(LeaseRecords), Len(s) = Len(leases),
         NEW new \in LeaseRecords, leases' = Append(s, new)
  PROVE  /\ leases' \in Seq(LeaseRecords) /\ Len(leases') = Len(leases) + 1
         /\ leases'[Len(leases) + 1] = new
         /\ \A l \in LeaseIds : leases'[l] = s[l]
<1>1. Len(leases) \in Nat
  BY HeadTyped DEF DocInv
<1> QED BY <1>1, AppendProperties DEF LeaseIds

LEMMA LeaseAcquired ==
  ASSUME DocInv, NEW p \in DocWorkers, AcquireLease(p)
  PROVE  DocInv'
<1> DEFINE new == NewLease(docWork[p].actor, docWork[p].session, doc.version, FALSE)
           n == Len(leases) + 1
<1>1. docWork[p] \in Acquiring
  BY WorkByKind DEF AcquireLease, DocInv, DocTypeOK
<1>2. new \in LeaseRecords
  BY <1>1 DEF NewLease, LeaseRecords, Acquiring, DocInv, DocTypeOK
<1>3. Len(leases) \in Nat /\ \A l \in LeaseIds : leases[l] \in LeaseRecords
  BY HeadTyped DEF DocInv
<1>4. leases' = Append(ReleasedExpired(p), new)
  BY DEF AcquireLease
<1>5. /\ leases' \in Seq(LeaseRecords) /\ Len(leases') = n /\ leases'[n] = new
      /\ \A l \in LeaseIds : leases'[l] = ReleasedExpired(p)[l]
  BY <1>2, <1>4, ReleasedGoOn, LeaseAppended
<1>6. ASSUME NEW l \in LeaseIds
      PROVE  GoesOn(l) /\ leases'[l].state = "released"
  <2>1. CASE l \in ExpiredFor(p)
    <3>1. /\ leases'[l] = [leases[l] EXCEPT !.state = "released"]
          /\ leases'[l] \in LeaseRecords /\ leases[l] \in LeaseRecords
      BY <1>3, <1>5, <2>1, ReleasedGoOn
    <3> QED BY <3>1 DEF GoesOn, LeaseRecords
  <2>2. CASE l \notin ExpiredFor(p)
    <3>1. leases[l].state = "released"
      <4>1. l \notin ActiveFor(p)
        BY DEF AcquireLease
      <4> QED BY <2>2, <4>1 DEF ActiveFor, Unreleased, DocInv, EditInv, LeasesAreSettled
    <3> QED BY <1>3, <1>5, <2>2, <3>1, ReleasedGoOn DEF GoesOn
  <2> QED BY <2>1, <2>2
<1>7. /\ new.superseded = 0 /\ new.born = doc.version
      /\ new.holder = docWork[p].actor /\ new.session = docWork[p].session
  BY DEF NewLease
<1>8. LeaseIsGiven
  BY <1>5, <1>6, <1>7 DEF LeaseIsGiven, AcquireLease
<1>9. EditStep
  BY <1>8 DEF EditStep, HeadStays, AcquireLease
<1>10. RestStep
  <2>1. WorkGoesOn
    BY WorkChanges, UnusedIsWork DEF AcquireLease, DocInv
  <2> QED BY <2>1, RecoveryStays, LinksStay, CommentsStay DEF RestStep, AcquireLease
<1> QED BY <1>9, <1>10, StepKeeps

LEMMA TakeOverTakes ==
  ASSUME DocInv, NEW p \in DocWorkers, TakeOver(p)
  PROVE  DocInv'
<1> DEFINE v == doc.version + 1
           new == NewLease(docWork[p].actor, docWork[p].session, v, TRUE)
           n == Len(leases) + 1
           out == [l \in LeaseIds |->
                     [leases[l] EXCEPT !.state = "released", !.superseded = v]]
<1>1. docWork[p] \in Acquiring
  BY WorkByKind DEF TakeOver, DocInv, DocTypeOK
<1>2. v \in Versions
  <2>1. doc.version < MaxVersion
    BY DEF TakeOver, Bump
  <2>2. doc.version \in Nat
    BY HeadTyped DEF DocInv
  <2> QED BY <2>1, <2>2, DocumentAssumption DEF Versions
<1>3. new \in LeaseRecords
  BY <1>1, <1>2 DEF NewLease, LeaseRecords, Acquiring
<1>4. Len(leases) \in Nat /\ \A l \in LeaseIds : leases[l] \in LeaseRecords
  BY HeadTyped DEF DocInv
<1>5. \A l \in LeaseIds :
        /\ out[l] \in LeaseRecords
        /\ out[l].holder = leases[l].holder /\ out[l].session = leases[l].session
        /\ out[l].born = leases[l].born
        /\ out[l].state = "released" /\ out[l].superseded = v
  BY <1>2, <1>4 DEF LeaseRecords
<1>6. out \in Seq(LeaseRecords) /\ Len(out) = Len(leases)
  <2>1. out = [l \in 1 .. Len(leases) |-> out[l]]
    BY DEF LeaseIds
  <2>2. \A l \in 1 .. Len(leases) : out[l] \in LeaseRecords
    BY <1>5 DEF LeaseIds
  <2> HIDE DEF out
  <2> QED BY <1>4, <2>1, <2>2
<1>7. leases' = Append(out, new)
  BY DEF TakeOver
<1> HIDE DEF out
<1>8. /\ leases' \in Seq(LeaseRecords) /\ Len(leases') = n /\ leases'[n] = new
      /\ \A l \in LeaseIds : leases'[l] = out[l]
  BY <1>3, <1>6, <1>7, LeaseAppended
<1>9. /\ new.superseded = 0 /\ new.born = v /\ new.takeover
      /\ new.holder = docWork[p].actor /\ new.session = docWork[p].session
  BY DEF NewLease
<1>10. HeadIsTakenOver
  <2>1. /\ ~doc.deleted /\ Bump(doc.body, doc.channel, FALSE, "takeover", NoLease)
        /\ ~Superseded(new.holder, new.session)
    BY <1>9 DEF TakeOver
  <2> HIDE DEF new
  <2> QED BY <1>5, <1>8, <1>9, <2>1 DEF HeadIsTakenOver
<1>11. EditStep
  BY <1>10 DEF EditStep
<1>12. RestStep
  <2>1. WorkGoesOn
    BY WorkChanges, UnusedIsWork DEF TakeOver, DocInv
  <2>2. doc'.channel = doc.channel
    BY DEF TakeOver, Bump
  <2> QED BY <2>1, <2>2, RecoveryStays, LinksStay, CommentsStay DEF RestStep, TakeOver
<1> QED BY <1>11, <1>12, StepKeeps

LEMMA LeaseMoves ==
  ASSUME DocInv, NEW l \in LeaseIds, Expire(l) \/ RenewLease(l) \/ ReleaseLease(l)
  PROVE  DocInv'
BY OneLeaseChanges DEF Expire, RenewLease, ReleaseLease, Expired, Unreleased


--------------------------------------------------------------------------------
(* The actions on the head.                                                     *)

LEMMA HeadAdvancing ==
  ASSUME DocInv, ~doc.deleted, leases' = leases,
         NEW body \in Bodies, NEW ch \in Channels, NEW gone \in BOOLEAN,
         NEW op \in {"updated", "promote", "deleted"},
         NEW l \in {NoLease} \cup LeaseIds,
         op = "deleted" <=> gone, l # NoLease => Valid(l), Bump(body, ch, gone, op, l)
  PROVE  EditStep /\ doc'.channel = ch
<1>1. op \in Operations \ {"created", "takeover"}
  BY DEF Operations
<1>2. HeadAdvances
  BY <1>1 DEF HeadAdvances
<1> QED BY <1>2 DEF EditStep, Bump

(* The document's own body and channel are a body and a channel.                *)
LEMMA HeadHasItsParts ==
  ASSUME DocInv
  PROVE  doc.body \in Bodies /\ doc.channel \in Channels
BY DEF DocInv, DocTypeOK

LEMMA BodySaved ==
  ASSUME DocInv, NEW l \in LeaseIds, NEW base, NEW body \in Bodies,
         SaveBody(l, base, body)
  PROVE  DocInv'
<1>1. EditStep /\ doc'.channel = doc.channel
  BY HeadAdvancing, HeadHasItsParts DEF SaveBody
<1>2. links' \in [Bodies -> Linked]
  BY LinkEnsured DEF SaveBody
<1>3. RestStep
  BY <1>1, <1>2, RecoveryStays, CommentsStay, WorkStays DEF RestStep, SaveBody, DocInv
<1> QED BY <1>1, <1>3, StepKeeps

LEMMA RecoveryStatesAre ==
  ASSUME DocInv, NEW k \in RecoveryKeys
  PROVE  /\ recovery[k] \in RecoveryStates
         /\ recovery[k] # NoRecovery =>
              recovery[k] \in [state : {"open", "promoted", "discarded"},
                               channel : Channels]
         /\ recovery[k].state = "open" => recovery[k] # NoRecovery
BY DEF DocInv, DocTypeOK, RecoveryStates, NoRecovery

(* One recovery becomes another state of a recovery.                            *)
LEMMA OneRecoveryChanges ==
  ASSUME DocInv, NEW k \in RecoveryKeys,
         NEW new \in [state : {"open", "promoted", "discarded"}, channel : Channels],
         recovery' = [recovery EXCEPT ![k] = new]
  PROVE  RecoveryGoesOn
<1>1. new \in RecoveryStates /\ new # NoRecovery
  BY DEF RecoveryStates, NoRecovery
<1> QED BY <1>1 DEF DocInv, DocTypeOK, RecoveryGoesOn

LEMMA RecoverySaved ==
  ASSUME DocInv, NEW k \in RecoveryKeys, SaveRecovery(k.base, k.body)
  PROVE  DocInv'
<1>1. k.body \in Bodies /\ k = [base |-> k.base, body |-> k.body]
  BY DEF RecoveryKeys
<1>2. RecoveryGoesOn
  <2>1. CASE recovery' = recovery
    BY <2>1, RecoveryStays
  <2>2. CASE recovery' # recovery
    <3>1. recovery' = [recovery EXCEPT ![k] = [state |-> "open", channel |-> doc.channel]]
      BY <1>1, <2>2 DEF SaveRecovery
    <3>2. [state |-> "open", channel |-> doc.channel]
            \in [state : {"open", "promoted", "discarded"}, channel : Channels]
      BY HeadHasItsParts
    <3> QED BY <3>1, <3>2, OneRecoveryChanges
  <2> QED BY <2>1, <2>2
<1>3. links' \in [Bodies -> Linked]
  BY <1>1, LinkEnsured DEF SaveRecovery
<1>4. EditStep
  BY HeadAndLeasesStay DEF SaveRecovery
<1>5. RestStep
  BY <1>2, <1>3, CommentsStay, WorkStays DEF RestStep, SaveRecovery, DocInv
<1> QED BY <1>4, <1>5, StepKeeps

LEMMA MetadataSaved ==
  ASSUME DocInv, NEW l \in LeaseIds, NEW base,
         NEW ch \in PatchChannels \cup {doc.channel}, SaveMetadata(l, base, ch)
  PROVE  DocInv'
<1>1. ch \in Channels
  BY HeadHasItsParts, DocumentAssumption
<1>2. EditStep /\ doc'.channel = ch
  BY <1>1, HeadAdvancing, HeadHasItsParts DEF SaveMetadata
<1>3. CommentsFollow
  <2>1. CASE ch = doc.channel
    BY <1>2, <2>1, CommentsStay DEF SaveMetadata
  <2>2. CASE comments = <<>>
    BY <2>2 DEF SaveMetadata, CommentsFollow
  <2> QED BY <2>1, <2>2 DEF SaveMetadata
<1>4. RestStep
  BY <1>3, RecoveryStays, LinksStay, WorkStays DEF RestStep, SaveMetadata, DocInv
<1> QED BY <1>2, <1>4, StepKeeps

LEMMA Archived ==
  ASSUME DocInv, NEW base, Archive(base)
  PROVE  DocInv'
<1>1. EditStep /\ doc'.channel = doc.channel
  BY HeadAdvancing, HeadHasItsParts DEF Archive
<1>2. RestStep
  BY <1>1, RecoveryStays, LinksStay, CommentsStay, WorkStays
  DEF RestStep, Archive, DocInv
<1> QED BY <1>1, <1>2, StepKeeps

LEMMA RecoveryPromoted ==
  ASSUME DocInv, NEW l \in LeaseIds, NEW k \in RecoveryKeys, NEW base,
         PromoteRecovery(l, k, base)
  PROVE  DocInv'
<1>1. k.body \in Bodies
  BY DEF RecoveryKeys
<1>2. EditStep /\ doc'.channel = doc.channel
  BY <1>1, HeadAdvancing, HeadHasItsParts DEF PromoteRecovery
<1>3. RecoveryGoesOn
  <2>1. recovery[k] \in [state : {"open", "promoted", "discarded"}, channel : Channels]
    BY RecoveryStatesAre DEF PromoteRecovery
  <2>2. [recovery[k] EXCEPT !.state = "promoted"]
          \in [state : {"open", "promoted", "discarded"}, channel : Channels]
    BY <2>1
  <2> QED BY <2>2, OneRecoveryChanges DEF PromoteRecovery
<1>4. links' \in [Bodies -> Linked]
  BY <1>1, LinkEnsured DEF PromoteRecovery
<1>5. RestStep
  BY <1>2, <1>3, <1>4, CommentsStay, WorkStays DEF RestStep, PromoteRecovery, DocInv
<1> QED BY <1>2, <1>5, StepKeeps

LEMMA RecoveryDiscarded ==
  ASSUME DocInv, NEW k \in RecoveryKeys, DiscardRecovery(k)
  PROVE  DocInv'
<1>1. RecoveryGoesOn
  <2>1. recovery[k] \in [state : {"open", "promoted", "discarded"}, channel : Channels]
    BY RecoveryStatesAre DEF DiscardRecovery
  <2>2. [recovery[k] EXCEPT !.state = "discarded"]
          \in [state : {"open", "promoted", "discarded"}, channel : Channels]
    BY <2>1
  <2>3. recovery' = [recovery EXCEPT ![k] = [recovery[k] EXCEPT !.state = "discarded"]]
    BY DEF DiscardRecovery
  <2> QED BY <2>2, <2>3, OneRecoveryChanges
<1>2. EditStep
  BY HeadAndLeasesStay DEF DiscardRecovery
<1>3. RestStep
  BY <1>1, LinksStay, CommentsStay, WorkStays DEF RestStep, DiscardRecovery, DocInv
<1> QED BY <1>2, <1>3, StepKeeps

LEMMA Deleted ==
  ASSUME DocInv, DeleteDoc
  PROVE  DocInv'
<1>1. EditStep /\ doc'.channel = doc.channel
  BY HeadAdvancing, HeadHasItsParts DEF DeleteDoc
<1>2. RestStep
  BY <1>1, RecoveryStays, LinksStay, CommentsStay, WorkStays
  DEF RestStep, DeleteDoc, DocInv
<1> QED BY <1>1, <1>2, StepKeeps

--------------------------------------------------------------------------------
(* The move and the comments.                                                   *)

LEMMA MoveStarted ==
  ASSUME DocInv, NEW p \in DocWorkers, NEW ch \in Channels,
         NEW base \in {NoBase, doc.version}, StartMove(p, ch, base)
  PROVE  DocInv'
<1> DEFINE w == [kind |-> "move", channel |-> ch, base |-> base,
                 links |-> {b \in Bodies : links[b].linked},
                 keys |-> Kept, comments |-> DOMAIN comments]
<1>1. w \in Moving /\ w.keys \subseteq Kept
  <2>1. base \in {NoBase} \cup Versions
    BY DEF DocInv, DocTypeOK
  <2>2. Kept \in SUBSET RecoveryKeys
    BY DEF Kept
  <2>3. DOMAIN comments \in SUBSET Nat
    BY DEF DocInv, DocTypeOK
  <2> QED BY <2>1, <2>2, <2>3 DEF Moving
<1>2. w \in Work
  BY <1>1 DEF Moving, Work
<1>3. WorkGoesOn
  BY <1>1, <1>2, WorkChanges DEF StartMove, DocInv
<1> QED BY <1>3, OnlyWork DEF StartMove

LEMMA Moved ==
  ASSUME DocInv, NEW p \in DocWorkers, MoveDoc(p)
  PROVE  DocInv'
<1> DEFINE w == docWork[p]
<1>1. w \in Moving /\ w.kind = "move" /\ ~doc.deleted
  BY WorkByKind DEF MoveDoc, Movable, DocInv, DocTypeOK
<1>2. w.channel \in Channels /\ w.keys \subseteq Kept
  BY <1>1 DEF Moving, DocInv, MovesRememberRecoveries
<1>3. EditStep /\ doc'.channel = w.channel
  BY <1>1, <1>2, HeadAdvancing, HeadHasItsParts DEF MoveDoc
<1>4. RecoveryGoesOn
  <2>1. recovery' = [k \in RecoveryKeys |->
            IF k \in w.keys THEN [recovery[k] EXCEPT !.channel = w.channel]
            ELSE recovery[k]]
    BY DEF MoveDoc
  <2>2. ASSUME NEW k \in RecoveryKeys
        PROVE  /\ recovery'[k] \in RecoveryStates
               /\ recovery[k] # NoRecovery => recovery'[k] # NoRecovery
    <3>1. CASE k \in w.keys
      <4>1. recovery[k] \in [state : {"open", "promoted", "discarded"},
                             channel : Channels]
        BY <1>2, <3>1, RecoveryStatesAre DEF Kept
      <4>2. recovery'[k] \in [state : {"open", "promoted", "discarded"},
                              channel : Channels]
        BY <1>2, <2>1, <3>1, <4>1
      <4> QED BY <4>2 DEF RecoveryStates, NoRecovery
    <3>2. CASE k \notin w.keys
      BY <2>1, <3>2, RecoveryStatesAre
    <3> QED BY <3>1, <3>2
  <2> QED BY <2>1, <2>2 DEF RecoveryGoesOn
<1>5. links' \in [Bodies -> Linked]
  <2>1. links' = [b \in Bodies |-> IF b \in w.links THEN LinkIn(w.channel) ELSE links[b]]
    BY DEF MoveDoc
  <2>2. LinkIn(w.channel) \in Linked
    BY <1>2 DEF LinkIn, Linked
  <2>3. \A b \in Bodies : links[b] \in Linked
    BY DEF DocInv, DocTypeOK, Linked
  <2> QED BY <2>1, <2>2, <2>3
<1>6. CommentsFollow
  <2>1. comments' = [i \in DOMAIN comments |-> w.channel]
    BY DEF MoveDoc
  <2>2. Len(comments) \in Nat /\ DOMAIN comments = 1 .. Len(comments)
    BY DEF DocInv, DocTypeOK
  <2>3. comments' \in Seq(Channels)
    BY <1>2, <2>1, <2>2
  <2> QED BY <1>3, <2>1, <2>3 DEF CommentsFollow
<1>7. WorkGoesOn
  BY WorkChanges, UnusedIsWork DEF MoveDoc, DocInv
<1>8. RestStep
  BY <1>4, <1>5, <1>6, <1>7 DEF RestStep
<1> QED BY <1>3, <1>8, StepKeeps

LEMMA MoveGivenUp ==
  ASSUME DocInv, NEW p \in DocWorkers, MoveFails(p)
  PROVE  DocInv'
<1>1. WorkGoesOn
  BY WorkChanges, UnusedIsWork DEF MoveFails, DocInv
<1> QED BY <1>1, OnlyWork DEF MoveFails

LEMMA CommentAsked ==
  ASSUME DocInv, NEW p \in DocWorkers, ReadForComment(p)
  PROVE  DocInv'
<1> DEFINE w == [kind |-> "comment", channel |-> doc.channel]
<1>1. w \in Commenting
  BY HeadHasItsParts DEF Commenting
<1>2. w \in Work /\ w.kind # "move"
  BY <1>1 DEF Commenting, Work
<1>3. WorkGoesOn
  BY <1>2, WorkChanges DEF ReadForComment, DocInv
<1> QED BY <1>3, OnlyWork DEF ReadForComment

LEMMA CommentCreated ==
  ASSUME DocInv, NEW p \in DocWorkers, CreateComment(p)
  PROVE  DocInv'
<1>1. doc' = doc
  BY DEF CreateComment
<1>2. CommentsFollow
  <2>1. CASE comments' = comments
    BY <1>1, <2>1, CommentsStay
  <2>2. CASE comments' # comments
    <3>1. comments' = Append(comments, doc.channel)
      BY <2>2 DEF CreateComment
    <3>2. /\ comments \in Seq(Channels) /\ doc.channel \in Channels
          /\ \A i \in DOMAIN comments : comments[i] = doc.channel
      BY DEF DocInv, DocTypeOK, CommentsFollowTheDocument
    <3>3. /\ comments' \in Seq(Channels)
          /\ \A i \in 1 .. Len(comments) + 1 : comments'[i] = doc.channel
          /\ Len(comments') = Len(comments) + 1
      BY <3>1, <3>2, AppendProperties
    <3>4. DOMAIN comments' = 1 .. Len(comments) + 1
      BY <3>3
    <3> QED BY <1>1, <3>3, <3>4 DEF CommentsFollow
  <2> QED BY <2>1, <2>2
<1>3. EditStep
  BY HeadAndLeasesStay DEF CreateComment
<1>4. RestStep
  <2>1. WorkGoesOn
    BY WorkChanges, UnusedIsWork DEF CreateComment, DocInv
  <2> QED BY <1>2, <2>1, RecoveryStays, LinksStay DEF RestStep, CreateComment
<1> QED BY <1>3, <1>4, StepKeeps

--------------------------------------------------------------------------------
LEMMA DocInit0 == DocInit => DocInv
<1> SUFFICES ASSUME DocInit PROVE DocInv
  OBVIOUS
<1> USE DEF DocInit
<1>1. DocTypeOK
  <2>1. doc \in [version : Versions, body : Bodies, channel : Channels, deleted : BOOLEAN]
    BY DocumentAssumption DEF Versions
  <2>2. history \in Seq([body : Bodies, op : Operations, lease : Nat])
    BY DocumentAssumption DEF Snapshot, Operations, NoLease
  <2>3. recovery \in [RecoveryKeys -> RecoveryStates]
    BY DEF RecoveryStates
  <2>4. links \in [Bodies -> {Unlinked} \cup [linked : {TRUE}, channel : Channels]]
    BY DocumentAssumption DEF LinkIn
  <2>5. docWork \in [DocWorkers -> Work]
    BY UnusedIsWork
  <2>6. leases \in Seq(LeaseRecords) /\ comments \in Seq(Channels)
    OBVIOUS
  <2> QED BY <2>1, <2>2, <2>3, <2>4, <2>5, <2>6 DEF DocTypeOK
<1>2. LeaseIds = {} /\ DOMAIN history = {1} /\ Len(history) = 1
      /\ history[1] = Snapshot(FirstBody, "created", NoLease)
  BY DEF LeaseIds
<1>3. EditInv
  <2>1. EditTypeOK
    BY <1>1 DEF DocTypeOK, EditTypeOK, Heads, Snapshots
  <2>2. HistoryIsComplete
    BY <1>2 DEF HistoryIsComplete, Snapshot
  <2>3. TakeoverIsABarrier
    BY <1>2 DEF TakeoverIsABarrier, Snapshot
  <2>4. LeasesAreSettled /\ SnapshotsNameLeases /\ OneEditor /\ SupersededSessionStaysOut
    BY <1>2 DEF LeasesAreSettled, SnapshotsNameLeases, OneEditor, Unreleased,
                SupersededSessionStaysOut, Snapshot
  <2> QED BY <2>1, <2>2, <2>3, <2>4 DEF EditInv
<1>4. MovesRememberRecoveries /\ CommentsFollowTheDocument
  BY UnusedIsWork DEF MovesRememberRecoveries, CommentsFollowTheDocument
<1> QED BY <1>1, <1>3, <1>4 DEF DocInv

LEMMA DocStutter == DocInv /\ UNCHANGED docVars => DocInv'
<1> SUFFICES ASSUME DocInv, UNCHANGED docVars PROVE DocInv'
  OBVIOUS
<1>1. WorkGoesOn
  BY WorkStays DEF DocInv, docVars
<1> QED BY <1>1, OnlyWork DEF docVars

LEMMA DocStep == DocInv /\ DocNext => DocInv'
<1> SUFFICES ASSUME DocInv, DocNext PROVE DocInv'
  OBVIOUS
<1>1. ASSUME NEW p \in DocWorkers, NEW a \in Writers, NEW s \in Sessions,
             NEW t \in BOOLEAN, NEW l \in {NoLease} \cup LeaseIds, AskLease(p, a, s, t, l)
      PROVE  DocInv'
  BY <1>1, LeaseAsked
<1>2. ASSUME NEW p \in DocWorkers, NEW ch \in Channels,
             NEW base \in {NoBase, doc.version}, StartMove(p, ch, base)
      PROVE  DocInv'
  BY <1>2, MoveStarted
<1>3. ASSUME NEW p \in DocWorkers,
             AcquireLease(p) \/ TakeOver(p) \/ RefuseLease(p)
      PROVE  DocInv'
  BY <1>3, LeaseAcquired, TakeOverTakes, LeaseRefused
<1>4. ASSUME NEW p \in DocWorkers,
             MoveDoc(p) \/ MoveFails(p) \/ ReadForComment(p) \/ CreateComment(p)
      PROVE  DocInv'
  BY <1>4, Moved, MoveGivenUp, CommentAsked, CommentCreated
<1>5. ASSUME NEW l \in LeaseIds, Expire(l) \/ RenewLease(l) \/ ReleaseLease(l)
      PROVE  DocInv'
  BY <1>5, LeaseMoves
<1>6. ASSUME NEW l \in LeaseIds, NEW base \in Versions, NEW body \in Bodies,
             SaveBody(l, base, body)
      PROVE  DocInv'
  BY <1>6, BodySaved
<1>7. ASSUME NEW l \in LeaseIds, NEW base \in Versions,
             NEW ch \in PatchChannels \cup {doc.channel}, SaveMetadata(l, base, ch)
      PROVE  DocInv'
  BY <1>7, MetadataSaved
<1>8. ASSUME NEW l \in LeaseIds, NEW base \in Versions, NEW k \in RecoveryKeys,
             PromoteRecovery(l, k, base)
      PROVE  DocInv'
  BY <1>8, RecoveryPromoted
<1>9. ASSUME NEW base \in Versions, Archive(base)
      PROVE  DocInv'
  BY <1>9, Archived
<1>10. ASSUME NEW k \in RecoveryKeys, SaveRecovery(k.base, k.body) \/ DiscardRecovery(k)
       PROVE  DocInv'
  BY <1>10, RecoverySaved, RecoveryDiscarded
<1>11. ASSUME DeleteDoc
       PROVE  DocInv'
  BY <1>11, Deleted
<1> QED BY <1>1, <1>2, <1>3, <1>4, <1>5, <1>6, <1>7, <1>8, <1>9, <1>10, <1>11 DEF DocNext

LEMMA DocInvariant == DocSpec => []DocInv
<1>1. DocInv /\ [DocNext]_docVars => DocInv'
  BY DocStep, DocStutter
<1> QED BY DocInit0, <1>1, PTL DEF DocSpec

(* The tables of a document hold what their columns allow.                      *)
THEOREM DocumentsTyped == DocSpec => []DocTypeOK
<1>1. DocInv => DocTypeOK
  BY DEF DocInv
<1> QED BY DocInvariant, <1>1, PTL

(* A document has one editor, however many requests for it cross and by         *)
(* whichever clock each of them judges expiry.                                  *)
THEOREM ADocumentHasOneEditor == DocSpec => []OneEditor
<1>1. DocInv => OneEditor
  BY DEF DocInv, EditInv
<1> QED BY DocInvariant, <1>1, PTL

(* No version from a takeover's on was written under a lease it superseded, and *)
(* the takeover superseded every lease there was.                               *)
THEOREM NothingCrossesATakeover == DocSpec => []TakeoverIsABarrier
<1>1. DocInv => TakeoverIsABarrier
  BY DEF DocInv, EditInv
<1> QED BY DocInvariant, <1>1, PTL

(* A session that a takeover put out is never given the document again.         *)
THEOREM SupersededStaysOut == DocSpec => []SupersededSessionStaysOut
<1>1. DocInv => SupersededSessionStaysOut
  BY DEF DocInv, EditInv
<1> QED BY DocInvariant, <1>1, PTL

(* Every version of a document has its snapshot, and the last is the head.      *)
THEOREM EveryVersionIsKept == DocSpec => []HistoryIsComplete
<1>1. DocInv => HistoryIsComplete
  BY DEF DocInv, EditInv
<1> QED BY DocInvariant, <1>1, PTL

(* The comments of a document are in its channel, also when it moves while one  *)
(* is being written.                                                            *)
THEOREM CommentsMoveAlong == DocSpec => []CommentsFollowTheDocument
<1>1. DocInv => CommentsFollowTheDocument
  BY DEF DocInv
<1> QED BY DocInvariant, <1>1, PTL

--------------------------------------------------------------------------------
(* Documents, shared records and groups together: MCDocuments.                  *)

(* What the three do together is what each does by itself, so that every        *)
(* theorem about one of them is a theorem about their composition.              *)
LEMMA SharedWorkIsAllThree == SharedWorkSpec => DocSpec /\ SharedSpec /\ GroupSpec
<1>1. SharedWorkInit => DocInit /\ SharedInit /\ GroupInit
  BY DEF SharedWorkInit
<1>2. [SharedWorkNext]_<<docVars, sharedVars, groupVars>>
        => [DocNext]_docVars /\ [SharedNext]_sharedVars /\ [GroupNext]_groupVars
  BY DEF SharedWorkNext
<1> QED BY <1>1, <1>2, PTL DEF SharedWorkSpec, DocSpec, SharedSpec, GroupSpec

(* In the composition the rows of all three have the types of their tables, and *)
(* a request holds only what its kind of request reads.                         *)
THEOREM SharedWorkTyped == SharedWorkSpec => []SharedWorkTypeOK
<1>1. DocTypeOK /\ SharedTypeOK /\ GroupTypeOK => SharedWorkTypeOK
  BY DEF SharedWorkTypeOK
<1> QED BY <1>1, SharedWorkIsAllThree, DocumentsTyped, RecordsTyped, GroupsTyped, PTL
================================================================================
