-------------------------- MODULE SharedRecordsProofs --------------------------
(* Theorems about SharedRecords for every number of editors, requests, versions *)
(* and checkouts.  The inductive invariant SharedInv adds to the properties     *)
(* what a sync that is under way may still rely on: its base is no newer than   *)
(* the head, and if it is the head, no row was written under a checkout later   *)
(* than its own, nor one that ended its own.                                    *)
EXTENDS SharedRecords, SequenceTheorems, TLAPS

CheckoutRecords == [holder : Editors, state : {"out", "in", "expired"},
                    lapsed : BOOLEAN, found : 0 .. MaxRows]
Rows == [version : 1 .. MaxRows, checkout : Nat, ends : BOOLEAN]

(* Only the newest checkout can be out.                                         *)
NewestIsOut == \A c \in CheckoutIds : checkouts[c].state = "out" => c = Len(checkouts)

RowsNameCheckouts ==
  \A i \in DOMAIN versions :
    /\ versions[i].checkout \in 0 .. Len(checkouts)
    /\ versions[i].ends => versions[i].checkout \in CheckoutIds

(* The rows written so far leave room for one more under checkout c.            *)
NoneAfter(c) ==
  \A i \in DOMAIN versions :
    versions[i].checkout <= c /\ (versions[i].ends => versions[i].checkout # c)

MayFollow(r) ==
  /\ r.base \in 0 .. Len(versions) /\ r.base < MaxRows
  /\ r.checkout \in 0 .. Len(checkouts)
  /\ r.consume => r.checkout \in CheckoutIds
  /\ r.base = Len(versions) /\ r.checkout # NoCheckout => NoneAfter(r.checkout)
SyncsMayFollow ==
  \A p \in Handlers : handler[p].kind = "sync" => MayFollow(handler[p])

SharedInv ==
  /\ SharedTypeOK
  /\ VersionsFormOneChain
  /\ NewestIsOut
  /\ RowsNameCheckouts
  /\ SyncsMayFollow
  /\ WritesFollowTheCheckouts
  /\ NextEditorFindsTheEnd

--------------------------------------------------------------------------------
(* The two kinds of steps: those that change the checkouts and leave the rows   *)
(* alone, and the one that writes a row.                                        *)

(* A checkout that is changed keeps its holder and what it found, and is never  *)
(* given out again.                                                             *)
Keeps(c) ==
  /\ checkouts'[c].found = checkouts[c].found
  /\ checkouts'[c].state = "out" => checkouts[c].state = "out"
  /\ checkouts[c].state = "in" => checkouts'[c].state = "in"

(* The same checkouts, some of them closed or renewed.                          *)
CheckoutsChange ==
  /\ versions' = versions
  /\ checkouts' \in Seq(CheckoutRecords) /\ Len(checkouts') = Len(checkouts)
  /\ \A c \in CheckoutIds : Keeps(c)

(* One new checkout, given when none was live.                                  *)
CheckoutIsGiven ==
  /\ versions' = versions
  /\ checkouts' \in Seq(CheckoutRecords) /\ Len(checkouts') = Len(checkouts) + 1
  /\ checkouts'[Len(checkouts) + 1].found = Latest
  /\ \A c \in CheckoutIds : Keeps(c) /\ checkouts'[c].state # "out"

(* A sync goes on with what it read, or has just read it.                       *)
Requests ==
  {Waiting}
  \cup [kind : {"renew", "release"}, checkout : Nat]
  \cup [kind : {"sync"}, base : 0 .. MaxRows, checkout : Nat, consume : BOOLEAN]
RequestsGoOn ==
  /\ handler' \in [Handlers -> Requests]
  /\ \A p \in Handlers : handler'[p].kind = "sync" =>
       handler'[p] = handler[p] \/ MayFollow(handler'[p])

LEMMA LatestIsTheLength ==
  ASSUME SharedTypeOK, VersionsFormOneChain
  PROVE  Latest = Len(versions) /\ Len(versions) \in 0 .. MaxRows
<1>1. CASE versions = <<>>
  BY <1>1, SharedAssumption DEF Latest
<1>2. CASE versions # <<>>
  <2>1. /\ versions \in Seq(Rows) /\ Len(versions) \in Nat /\ Len(versions) # 0
        /\ DOMAIN versions = 1 .. Len(versions)
    BY <1>2 DEF SharedTypeOK, Rows
  <2>2. versions[Len(versions)] \in Rows /\ versions[Len(versions)].version = Len(versions)
    BY <2>1 DEF VersionsFormOneChain
  <2> QED BY <1>2, <2>1, <2>2 DEF Latest, Rows
<1> QED BY <1>1, <1>2

(* One checkout is closed or renewed.                                           *)
LEMMA OneChanges ==
  ASSUME SharedTypeOK, versions' = versions, NEW c,
         NEW new, c \in CheckoutIds => new \in CheckoutRecords,
         checkouts' = [checkouts EXCEPT ![c] = new],
         c \in CheckoutIds =>
           /\ new.found = checkouts[c].found
           /\ new.state = "out" => checkouts[c].state = "out"
           /\ checkouts[c].state = "in" => new.state = "in"
  PROVE  CheckoutsChange
<1>1. checkouts \in Seq(CheckoutRecords) /\ Len(checkouts) \in Nat
      /\ DOMAIN checkouts = CheckoutIds
  BY DEF SharedTypeOK, CheckoutRecords, CheckoutIds
<1>2. checkouts' \in Seq(CheckoutRecords) /\ Len(checkouts') = Len(checkouts)
  <2>1. CASE c \in CheckoutIds
    BY <2>1, <1>1, ExceptSeq DEF CheckoutIds
  <2>2. CASE c \notin CheckoutIds
    <3>1. checkouts' = checkouts
      BY <2>2, <1>1
    <3> QED BY <3>1, <1>1
  <2> QED BY <2>1, <2>2
<1>3. \A d \in CheckoutIds : checkouts'[d] = (IF d = c THEN new ELSE checkouts[d])
  BY <1>1
<1> QED BY <1>2, <1>3 DEF CheckoutsChange, Keeps

LEMMA SweptCloses ==
  ASSUME SharedTypeOK
  PROVE  /\ Swept \in Seq(CheckoutRecords) /\ Len(Swept) = Len(checkouts)
         /\ \A c \in CheckoutIds :
              /\ Swept[c].found = checkouts[c].found
              /\ Swept[c].state = "out" => Live(c)
              /\ checkouts[c].state = "in" => Swept[c].state = "in"
<1>1. checkouts \in Seq(CheckoutRecords) /\ Len(checkouts) \in Nat
  BY DEF SharedTypeOK, CheckoutRecords
<1>2. \A c \in CheckoutIds : checkouts[c] \in CheckoutRecords
  BY <1>1 DEF CheckoutIds
<1>3. \A c \in CheckoutIds :
        /\ Swept[c] \in CheckoutRecords
        /\ Swept[c].found = checkouts[c].found
        /\ Swept[c].state = "out" => Live(c)
        /\ checkouts[c].state = "in" => Swept[c].state = "in"
  BY <1>2 DEF Swept, CheckoutRecords, Live, Out
<1>4. Swept = [c \in 1 .. Len(checkouts) |-> Swept[c]]
  BY DEF Swept, CheckoutIds
<1>5. Swept \in Seq(CheckoutRecords) /\ Len(Swept) = Len(checkouts)
  BY <1>1, <1>3, <1>4 DEF CheckoutIds
<1> QED BY <1>3, <1>5

LEMMA RowsStay ==
  ASSUME SharedInv, CheckoutsChange \/ CheckoutIsGiven, RequestsGoOn
  PROVE  SharedInv'
<1> USE DEF SharedInv
<1>1. /\ checkouts \in Seq(CheckoutRecords) /\ Len(checkouts) \in Nat
      /\ versions \in Seq(Rows) /\ Len(versions) \in Nat
      /\ DOMAIN versions = 1 .. Len(versions)
  BY DEF SharedTypeOK, CheckoutRecords, Rows
<1>2. \A i \in DOMAIN versions : versions[i] \in Rows
  BY <1>1
<1>3. /\ versions' = versions
      /\ checkouts' \in Seq(CheckoutRecords) /\ Len(checkouts') \in Nat
      /\ Len(checkouts) <= Len(checkouts')
      /\ \A c \in CheckoutIds : c \in CheckoutIds' /\ Keeps(c)
  BY <1>1 DEF CheckoutsChange, CheckoutIsGiven, CheckoutIds
<1>4. SharedTypeOK'
  BY <1>1, <1>3 DEF SharedTypeOK, RequestsGoOn, Requests, CheckoutRecords, Rows
<1>5. VersionsFormOneChain' /\ WritesFollowTheCheckouts'
  BY <1>3 DEF VersionsFormOneChain, WritesFollowTheCheckouts
<1>6. NewestIsOut'
  <2>1. CASE CheckoutsChange
    BY <2>1, <1>1 DEF NewestIsOut, CheckoutsChange, CheckoutIds, Keeps
  <2>2. CASE CheckoutIsGiven
    BY <2>2, <1>1 DEF NewestIsOut, CheckoutIsGiven, CheckoutIds
  <2> QED BY <2>1, <2>2
<1>7. RowsNameCheckouts'
  BY <1>1, <1>2, <1>3 DEF RowsNameCheckouts, Rows, CheckoutIds
<1>8. ASSUME NEW r, MayFollow(r)
      PROVE  MayFollow(r)'
  BY <1>1, <1>3, <1>8 DEF MayFollow, NoneAfter, CheckoutIds
<1>9. SyncsMayFollow'
  BY <1>8 DEF SyncsMayFollow, RequestsGoOn
<1>10. NextEditorFindsTheEnd'
  <2> SUFFICES ASSUME NEW i \in DOMAIN versions, versions[i].ends
               PROVE  /\ checkouts'[versions[i].checkout].state = "in"
                      /\ \A c \in versions[i].checkout + 1 .. Len(checkouts') :
                           checkouts'[c].found >= i
    BY <1>3 DEF NextEditorFindsTheEnd
  <2>1. versions[i].checkout \in CheckoutIds
    BY DEF RowsNameCheckouts
  <2>2. checkouts'[versions[i].checkout].state = "in"
    BY <2>1, <1>3 DEF NextEditorFindsTheEnd, Keeps
  <2>3. ASSUME NEW c \in versions[i].checkout + 1 .. Len(checkouts')
        PROVE  checkouts'[c].found >= i
    <3>1. CASE c \in CheckoutIds
      <4>1. checkouts[c].found >= i
        BY <3>1, <2>1, <2>3, <1>1 DEF NextEditorFindsTheEnd, CheckoutIds
      <4> QED BY <3>1, <4>1, <1>3 DEF Keeps
    <3>2. CASE c \notin CheckoutIds
      <4>1. CheckoutIsGiven /\ c = Len(checkouts) + 1
        BY <3>2, <2>1, <2>3, <1>1 DEF CheckoutsChange, CheckoutIsGiven, CheckoutIds
      <4>2. checkouts'[c].found = Latest
        BY <4>1 DEF CheckoutIsGiven
      <4> QED BY <4>2, <1>1, LatestIsTheLength
    <3> QED BY <3>1, <3>2
  <2> QED BY <2>2, <2>3
<1> QED BY <1>4, <1>5, <1>6, <1>7, <1>9, <1>10

--------------------------------------------------------------------------------
(* The sync that writes: a new version can only succeed the head.               *)

LEMMA ARowIsWritten ==
  ASSUME SharedInv, NEW p \in Handlers, PersistRecordVersion(p)
  PROVE  SharedInv'
<1> USE DEF SharedInv
<1> DEFINE r == handler[p]
           n == Len(versions)
           new == Row(r.base + 1, r.checkout, r.consume)
<1>1. /\ checkouts \in Seq(CheckoutRecords) /\ Len(checkouts) \in Nat
      /\ versions \in Seq(Rows) /\ n \in Nat /\ DOMAIN versions = 1 .. n
      /\ r \in Requests /\ r.kind = "sync"
  BY DEF SharedTypeOK, CheckoutRecords, Rows, Requests, PersistRecordVersion
<1>2. /\ r.base \in 0 .. MaxRows /\ r.checkout \in Nat /\ r.consume \in BOOLEAN
      /\ MayFollow(r)
  BY <1>1 DEF Requests, Waiting, SyncsMayFollow
<1>3. r.base = n
  <2>1. \A i \in 1 .. n : i # r.base + 1
    BY <1>1 DEF PersistRecordVersion, IsNewVersion, VersionsFormOneChain
  <2>2. r.base \in 0 .. n
    BY <1>2 DEF MayFollow
  <2>3. r.base + 1 \notin 1 .. n
    BY <2>1
  <2> QED BY <2>2, <2>3, <1>1
<1>4. new \in Rows /\ new.version = n + 1 /\ new.checkout = r.checkout
      /\ new.ends = r.consume
  BY <1>2, <1>3, SharedAssumption DEF Row, Rows, MayFollow
<1>5. /\ versions' = Append(versions, new)
      /\ handler' = [handler EXCEPT ![p] = Waiting]
  BY DEF PersistRecordVersion, Does
<1>6. /\ versions' \in Seq(Rows) /\ Len(versions') = n + 1
      /\ DOMAIN versions' = 1 .. n + 1
      /\ versions'[n + 1] = new
      /\ \A i \in 1 .. n : versions'[i] = versions[i]
  BY <1>1, <1>4, <1>5
<1>7. /\ checkouts' \in Seq(CheckoutRecords) /\ Len(checkouts') = Len(checkouts)
      /\ \A c \in CheckoutIds : Keeps(c)
      /\ r.consume => /\ checkouts'[r.checkout].state = "in"
                      /\ checkouts[r.checkout].state = "out"
                      /\ r.checkout \in CheckoutIds
  <2>1. CASE r.consume
    <3>1. /\ r.checkout \in CheckoutIds /\ checkouts[r.checkout].state = "out"
          /\ checkouts' = [checkouts EXCEPT ![r.checkout].state = "in"]
      BY <2>1 DEF PersistRecordVersion, ConsumesCheckout, Out
    <3>2. checkouts[r.checkout] \in CheckoutRecords
      BY <3>1, <1>1 DEF CheckoutIds
    <3> DEFINE in == [checkouts[r.checkout] EXCEPT !.state = "in"]
    <3>3. in \in CheckoutRecords /\ in.state = "in" /\ in.found = checkouts[r.checkout].found
      BY <3>2 DEF CheckoutRecords
    <3>4. checkouts' = [checkouts EXCEPT ![r.checkout] = in]
      BY <3>1
    <3> HIDE DEF in
    <3>5. /\ checkouts' \in Seq(CheckoutRecords) /\ Len(checkouts') = Len(checkouts)
          /\ \A d \in CheckoutIds :
               checkouts'[d] = IF d = r.checkout THEN in ELSE checkouts[d]
      BY <1>1, <3>1, <3>3, <3>4, ExceptSeq DEF CheckoutIds
    <3> QED BY <3>1, <3>3, <3>5 DEF Keeps
  <2>2. CASE ~r.consume
    <3>1. checkouts' = checkouts
      BY <2>2 DEF PersistRecordVersion, ConsumesCheckout
    <3> QED BY <3>1, <2>2, <1>1 DEF Keeps
  <2> QED BY <2>1, <2>2
<1>8. SharedTypeOK'
  <2>1. handler' \in [Handlers -> Requests]
    BY <1>5 DEF SharedTypeOK, Requests
  <2> QED BY <2>1, <1>6, <1>7 DEF SharedTypeOK, Requests, CheckoutRecords, Rows
<1>9. VersionsFormOneChain'
  BY <1>1, <1>4, <1>6 DEF VersionsFormOneChain
<1>10. NewestIsOut'
  BY <1>1, <1>7 DEF NewestIsOut, CheckoutIds, Keeps
<1>11. RowsNameCheckouts'
  BY <1>1, <1>2, <1>4, <1>6, <1>7 DEF RowsNameCheckouts, CheckoutIds, MayFollow
<1>12. SyncsMayFollow'
  <2> SUFFICES ASSUME NEW q \in Handlers, handler'[q].kind = "sync"
               PROVE  MayFollow(handler[q])'
    BY DEF SyncsMayFollow
  <2>1. handler'[q] = handler[q] /\ MayFollow(handler[q])
    BY <1>5 DEF SharedTypeOK, Waiting, SyncsMayFollow
  <2>2. /\ handler[q].base \in 0 .. n /\ handler[q].base < MaxRows
        /\ handler[q].checkout \in 0 .. Len(checkouts)
        /\ handler[q].consume => handler[q].checkout \in CheckoutIds
    BY <2>1 DEF MayFollow
  <2>3. CheckoutIds' = CheckoutIds
    BY <1>7 DEF CheckoutIds
  <2> QED BY <2>1, <2>2, <2>3, <1>1, <1>6, <1>7 DEF MayFollow
<1>13. WritesFollowTheCheckouts'
  <2> SUFFICES ASSUME NEW i \in 1 .. n + 1, NEW j \in 1 .. n + 1, i < j,
                      versions'[i].checkout # NoCheckout,
                      versions'[j].checkout # NoCheckout
               PROVE  \/ versions'[i].checkout < versions'[j].checkout
                      \/ /\ versions'[i].checkout = versions'[j].checkout
                         /\ ~versions'[i].ends
    BY <1>6 DEF WritesFollowTheCheckouts
  <2>1. CASE j \in 1 .. n
    BY <2>1, <1>1, <1>6 DEF WritesFollowTheCheckouts
  <2>2. CASE j = n + 1
    <3>1. i \in 1 .. n /\ versions'[i] = versions[i] /\ versions[i].checkout \in Nat
          /\ versions'[j].checkout = r.checkout
      <4>1. i \in 1 .. n /\ versions[i] \in Rows
        BY <2>2, <1>1
      <4> QED BY <4>1, <2>2, <1>4, <1>6 DEF Rows
    <3>2. NoneAfter(r.checkout)
      BY <3>1, <1>2, <1>3 DEF MayFollow
    <3> QED BY <3>1, <3>2, <1>1, <1>2 DEF NoneAfter
  <2> QED BY <2>1, <2>2, <1>1
<1>14. NextEditorFindsTheEnd'
  <2> SUFFICES ASSUME NEW i \in 1 .. n + 1, versions'[i].ends
               PROVE  /\ checkouts'[versions'[i].checkout].state = "in"
                      /\ \A c \in versions'[i].checkout + 1 .. Len(checkouts) :
                           checkouts'[c].found >= i
    BY <1>6, <1>7 DEF NextEditorFindsTheEnd
  <2>1. CASE i \in 1 .. n
    <3>1. versions'[i] = versions[i] /\ versions[i].checkout \in CheckoutIds
      BY <2>1, <1>1, <1>6 DEF RowsNameCheckouts
    <3>2. /\ checkouts[versions[i].checkout].state = "in"
          /\ \A c \in versions[i].checkout + 1 .. Len(checkouts) : checkouts[c].found >= i
      BY <3>1, <2>1, <1>1 DEF NextEditorFindsTheEnd
    <3>3. \A c \in versions[i].checkout + 1 .. Len(checkouts) : c \in CheckoutIds
      BY <3>1, <1>1 DEF CheckoutIds
    <3> QED BY <3>1, <3>2, <3>3, <1>7 DEF Keeps
  <2>2. CASE i = n + 1
    <3>1. versions'[i].checkout = r.checkout /\ r.consume
      BY <2>2, <1>4, <1>6
    <3>2. r.checkout = Len(checkouts)
      BY <3>1, <1>7 DEF NewestIsOut
    <3> QED BY <3>1, <3>2, <1>1, <1>7
  <2> QED BY <2>1, <2>2, <1>1
<1> QED BY <1>8, <1>9, <1>10, <1>11, <1>12, <1>13, <1>14

--------------------------------------------------------------------------------
LEMMA SharedStarts == SharedInit => SharedInv
<1> SUFFICES ASSUME SharedInit PROVE SharedInv
  OBVIOUS
<1>1. versions = <<>> /\ checkouts = <<>> /\ \A p \in Handlers : handler[p].kind # "sync"
  BY DEF SharedInit, Waiting
<1>2. SharedTypeOK
  BY DEF SharedInit, SharedTypeOK
<1> QED BY <1>1, <1>2 DEF SharedInv, VersionsFormOneChain, NewestIsOut, RowsNameCheckouts,
     SyncsMayFollow, WritesFollowTheCheckouts, NextEditorFindsTheEnd, CheckoutIds

LEMMA SharedSteps == SharedInv /\ [SharedNext]_sharedVars => SharedInv'
<1> SUFFICES ASSUME SharedInv, [SharedNext]_sharedVars PROVE SharedInv'
  OBVIOUS
<1>1. /\ checkouts \in Seq(CheckoutRecords) /\ Len(checkouts) \in Nat
      /\ \A c \in CheckoutIds : checkouts[c] \in CheckoutRecords
      /\ handler \in [Handlers -> Requests]
  <2>1. checkouts \in Seq(CheckoutRecords) /\ handler \in [Handlers -> Requests]
    BY DEF SharedInv, SharedTypeOK, CheckoutRecords, Requests
  <2> QED BY <2>1 DEF CheckoutIds
<1>2. handler' = handler => RequestsGoOn
  BY <1>1 DEF RequestsGoOn
<1>3. ASSUME NEW p \in Handlers, NEW next \in Requests, Does(p, next),
             next.kind = "sync" => MayFollow(next)
      PROVE  RequestsGoOn
  BY <1>1, <1>3 DEF RequestsGoOn, Does
<1>4. ASSUME NEW p \in Handlers, Does(p, Waiting)
      PROVE  RequestsGoOn
  BY <1>3, <1>4 DEF Waiting, Requests
<1>5. versions' = versions /\ checkouts' = checkouts => CheckoutsChange
  BY <1>1 DEF CheckoutsChange, Keeps
<1>6. ASSUME NEW a \in Editors, AcquireRecordCheckout(a)
      PROVE  SharedInv'
  <2>1. NewCheckout(a) \in CheckoutRecords
    BY LatestIsTheLength DEF NewCheckout, CheckoutRecords, SharedInv
  <2>2. CheckoutIsGiven
    BY <1>1, <1>6, <2>1, SweptCloses
    DEF SharedInv, CheckoutIsGiven, AcquireRecordCheckout, Keeps, NewCheckout, CheckoutIds
  <2> QED BY <1>2, <1>6, <2>2, RowsStay DEF AcquireRecordCheckout
<1>7. ASSUME NEW c \in CheckoutIds, Lapse(c)
      PROVE  SharedInv'
  <2>1. CheckoutsChange
    <3> DEFINE c1 == c
               new == [checkouts[c1] EXCEPT !.lapsed = TRUE]
    <3>1. versions' = versions /\ checkouts' = [checkouts EXCEPT ![c1] = new]
      BY <1>7 DEF Lapse
    <3>2. c1 \in CheckoutIds =>
            /\ new \in CheckoutRecords /\ new.found = checkouts[c1].found
            /\ new.state = "out" => checkouts[c1].state = "out"
            /\ checkouts[c1].state = "in" => new.state = "in"
      BY <1>1 DEF CheckoutRecords
    <3> HIDE DEF c1, new
    <3> QED BY <3>1, <3>2, OneChanges DEF SharedInv
  <2> QED BY <1>2, <1>7, <2>1, RowsStay DEF Lapse
<1>8. ASSUME NEW c \in CheckoutIds, ReleaseLapsed(c)
      PROVE  SharedInv'
  <2>1. CheckoutsChange
    BY <1>1, <1>8, SweptCloses
    DEF SharedInv, CheckoutsChange, ReleaseLapsed, Keeps, Live, Out
  <2> QED BY <1>2, <1>8, <2>1, RowsStay DEF ReleaseLapsed
<1>9. ASSUME NEW p \in Handlers, NEW c \in CheckoutIds, LookAtCheckout(p, c)
      PROVE  SharedInv'
  <2>1. PICK kind \in {"renew", "release"} : Does(p, [kind |-> kind, checkout |-> c])
    BY <1>9 DEF LookAtCheckout
  <2>2. RequestsGoOn
    BY <1>1, <1>3, <2>1 DEF Requests, CheckoutIds
  <2> QED BY <1>5, <1>9, <2>2, RowsStay DEF LookAtCheckout
<1>10. ASSUME NEW p \in Handlers, RenewRecordCheckout(p)
       PROVE  SharedInv'
  <2>1. CheckoutsChange
    <3> DEFINE c1 == handler[p].checkout
               new == [checkouts[c1] EXCEPT !.lapsed = FALSE]
    <3>1. versions' = versions /\ checkouts' = [checkouts EXCEPT ![c1] = new]
      BY <1>10 DEF RenewRecordCheckout
    <3>2. c1 \in CheckoutIds =>
            /\ new \in CheckoutRecords /\ new.found = checkouts[c1].found
            /\ new.state = "out" => checkouts[c1].state = "out"
            /\ checkouts[c1].state = "in" => new.state = "in"
      BY <1>1 DEF CheckoutRecords
    <3> HIDE DEF c1, new
    <3> QED BY <3>1, <3>2, OneChanges DEF SharedInv
  <2> QED BY <1>4, <1>10, <2>1, RowsStay DEF RenewRecordCheckout
<1>11. ASSUME NEW p \in Handlers, ReleaseRecordCheckout(p)
       PROVE  SharedInv'
  <2>1. CheckoutsChange
    <3> DEFINE c1 == handler[p].checkout
               new == [checkouts[c1] EXCEPT !.state = "in"]
    <3>1. versions' = versions /\ checkouts' = [checkouts EXCEPT ![c1] = new]
      BY <1>11 DEF ReleaseRecordCheckout
    <3>2. c1 \in CheckoutIds =>
            /\ new \in CheckoutRecords /\ new.found = checkouts[c1].found
            /\ new.state = "out" => checkouts[c1].state = "out"
            /\ checkouts[c1].state = "in" => new.state = "in"
      BY <1>1 DEF CheckoutRecords
    <3> HIDE DEF c1, new
    <3> QED BY <3>1, <3>2, OneChanges DEF SharedInv
  <2> QED BY <1>4, <1>11, <2>1, RowsStay DEF ReleaseRecordCheckout
<1>12. ASSUME NEW p \in Handlers, NEW a \in Editors,
              NEW c \in {NoCheckout} \cup CheckoutIds,
              NEW force \in BOOLEAN, NEW consume \in BOOLEAN,
              BeginSync(p, a, c, force, consume)
       PROVE  SharedInv'
  <2> DEFINE r == [kind |-> "sync", base |-> Latest, checkout |-> c,
                   consume |-> consume]
  <2>1. Latest = Len(versions) /\ Len(versions) \in 0 .. MaxRows /\ Latest < MaxRows
    BY <1>12, LatestIsTheLength DEF SharedInv, BeginSync
  <2>2. r \in Requests
    BY <1>1, <2>1 DEF Requests, NoCheckout, CheckoutIds
  <2>3. ASSUME c # NoCheckout
        PROVE  NoneAfter(c)
    <3>1. checkouts[c].state = "out" /\ c = Len(checkouts)
      BY <1>12, <2>3 DEF BeginSync, Live, Out, SharedInv, NewestIsOut
    <3>2. \A i \in DOMAIN versions : versions[i].checkout <= c
      BY <3>1, <1>1 DEF SharedInv, RowsNameCheckouts
    <3>3. \A i \in DOMAIN versions : versions[i].ends => versions[i].checkout # c
      BY <3>1 DEF SharedInv, NextEditorFindsTheEnd
    <3> QED BY <3>2, <3>3 DEF NoneAfter
  <2>4. MayFollow(r)
    BY <1>1, <1>12, <2>1, <2>3 DEF MayFollow, BeginSync, NoCheckout, CheckoutIds
  <2>5. RequestsGoOn
    BY <1>3, <1>12, <2>2, <2>4 DEF BeginSync
  <2> QED BY <1>5, <1>12, <2>5, RowsStay DEF BeginSync
<1>13. ASSUME NEW p \in Handlers, RollBackSync(p)
       PROVE  SharedInv'
  BY <1>4, <1>5, <1>13, RowsStay DEF RollBackSync
<1>14. CASE UNCHANGED sharedVars
  BY <1>2, <1>5, <1>14, RowsStay DEF sharedVars
<1> QED BY <1>6, <1>7, <1>8, <1>9, <1>10, <1>11, <1>12, <1>13, <1>14, ARowIsWritten
        DEF SharedNext

LEMMA SharedAlways == SharedSpec => []SharedInv
BY SharedStarts, SharedSteps, PTL DEF SharedSpec

(* Types, for every number of editors, requests, versions and checkouts.        *)
THEOREM RecordsTyped == SharedSpec => []SharedTypeOK
<1>1. SharedInv => SharedTypeOK
  BY DEF SharedInv
<1> QED BY <1>1, SharedAlways, PTL

(* However many syncs read the same head, the rows are one chain of versions.   *)
THEOREM OneChain == SharedSpec => []VersionsFormOneChain
<1>1. SharedInv => VersionsFormOneChain
  BY DEF SharedInv
<1> QED BY <1>1, SharedAlways, PTL

(* The record is never out twice, whatever late renewals and releases write.    *)
THEOREM OneEditorHasTheRecord == SharedSpec => []OneCheckout
<1>1. SharedInv => OneCheckout
  BY DEF SharedInv, NewestIsOut, OneCheckout, Out
<1> QED BY <1>1, SharedAlways, PTL

(* No row is written under a checkout once a later one has written or its own   *)
(* last row has: the syncs that validated it earlier have lost the head.        *)
THEOREM RowsFollowCheckouts == SharedSpec => []WritesFollowTheCheckouts
<1>1. SharedInv => WritesFollowTheCheckouts
  BY DEF SharedInv
<1> QED BY <1>1, SharedAlways, PTL

(* Whoever is given the record next has found the version that ended the last   *)
(* checkout.                                                                    *)
THEOREM TheEndIsFound == SharedSpec => []NextEditorFindsTheEnd
<1>1. SharedInv => NextEditorFindsTheEnd
  BY DEF SharedInv
<1> QED BY <1>1, SharedAlways, PTL
================================================================================
