----------------------------- MODULE SharedRecords -----------------------------
(* One encrypted record of a checkout-required family (records.ts): its chain   *)
(* of versions and the checkouts that lend it to one editor at a time.          *)
(* Transactions run at READ COMMITTED, so a sync validates its checkout and its *)
(* base in one step and writes in another, and what it validated may be gone;   *)
(* the unique indexes decide then.  A refusal (no membership of the write       *)
(* group, no access to the prior version, a version conflict), an error and an  *)
(* idempotent repeat change nothing: they end the request.                      *)
EXTENDS Integers, Sequences

CONSTANTS
  Editors,
  Handlers,       \* requests under way at once
  MaxRows, MaxCheckouts

ASSUME SharedAssumption == MaxRows \in Nat /\ MaxCheckouts \in Nat

VARIABLES
  versions,       \* the record's rows, in the order of their commits
  checkouts,      \* its checkouts, oldest first; a checkout is named by its place
  handler         \* request -> what it has read

sharedVars == <<versions, checkouts, handler>>

NoCheckout == 0
Waiting == [kind |-> "waiting"]
CheckoutIds == 1 .. Len(checkouts)

(* A row: its place in the chain, the checkout it was written under (NoCheckout *)
(* for a repair, and maybe for the first), and whether it ended that checkout.  *)
Row(version, checkout, ends) ==
  [version |-> version, checkout |-> checkout, ends |-> ends]

Latest == IF versions = <<>> THEN 0 ELSE versions[Len(versions)].version
Out(c) == c \in CheckoutIds /\ checkouts[c].state = "out"
Live(c) == Out(c) /\ ~checkouts[c].lapsed
Does(p, next) == handler' = [handler EXCEPT ![p] = next]

SharedInit ==
  /\ versions = <<>> /\ checkouts = <<>>
  /\ handler = [p \in Handlers |-> Waiting]

--------------------------------------------------------------------------------
(* Checkouts.                                                                   *)

(* A checkout, with the version there was when it was given. *)
NewCheckout(a) ==
  [holder |-> a, state |-> "out", lapsed |-> FALSE, found |-> Latest]
(* Whoever asks for the record first closes the checkout that has run out. *)
Swept == [c \in CheckoutIds |->
  IF Out(c) /\ ~Live(c) THEN [checkouts[c] EXCEPT !.state = "expired"]
  ELSE checkouts[c]]

(* The unique index on active checkouts makes the last look and the insert one  *)
(* step; an own checkout that is still live is given again, unchanged.          *)
AcquireRecordCheckout(a) ==
  /\ ~\E c \in CheckoutIds : Live(c)
  /\ Len(checkouts) < MaxCheckouts
  /\ checkouts' = Append(Swept, NewCheckout(a))
  /\ UNCHANGED <<versions, handler>>

Lapse(c) ==
  /\ Live(c)
  /\ checkouts' = [checkouts EXCEPT ![c].lapsed = TRUE]
  /\ UNCHANGED <<versions, handler>>

(* A renewal or a release looks at the checkout and then updates it by its id   *)
(* alone; somebody else may have closed it between the two.                     *)
LookAtCheckout(p, c) ==
  /\ handler[p] = Waiting /\ Live(c)
  /\ \E kind \in {"renew", "release"} : Does(p, [kind |-> kind, checkout |-> c])
  /\ UNCHANGED <<versions, checkouts>>

ReleaseLapsed(c) ==
  /\ Out(c) /\ ~Live(c)
  /\ checkouts' = Swept
  /\ UNCHANGED <<versions, handler>>

(* Mutant: a renewal gives the checkout out again. *)
RenewReopens(p) ==
  /\ handler[p].kind = "renew"
  /\ checkouts' = [checkouts EXCEPT ![handler[p].checkout].lapsed = FALSE,
                                    ![handler[p].checkout].state = "out"]
  /\ Does(p, Waiting)
  /\ UNCHANGED versions

RenewRecordCheckout(p) ==
  /\ handler[p].kind = "renew"
  /\ checkouts' = [checkouts EXCEPT ![handler[p].checkout].lapsed = FALSE]
  /\ Does(p, Waiting)
  /\ UNCHANGED versions

ReleaseRecordCheckout(p) ==
  /\ handler[p].kind = "release"
  /\ checkouts' = [checkouts EXCEPT ![handler[p].checkout].state = "in"]
  /\ Does(p, Waiting)
  /\ UNCHANGED versions

--------------------------------------------------------------------------------
(* Sync.                                                                        *)

(* Mutant: any checkout the writer ever had will do. *)
BeginSyncOnce(p, a, c, force, consume) ==
  /\ handler[p] = Waiting /\ Latest < MaxRows
  /\ IF c = NoCheckout THEN (force \/ Latest = 0) /\ ~consume
     ELSE ~force /\ checkouts[c].holder = a
  /\ Does(p, [kind |-> "sync", base |-> Latest, checkout |-> c, consume |-> consume])
  /\ UNCHANGED <<versions, checkouts>>

(* A repair (force_write) needs no checkout and leaves it alone; the first      *)
(* version may go without one, every later one needs the writer's own.          *)
BeginSync(p, a, c, force, consume) ==
  /\ handler[p] = Waiting /\ Latest < MaxRows
  /\ IF c = NoCheckout THEN (force \/ Latest = 0) /\ ~consume
     ELSE ~force /\ Live(c) /\ checkouts[c].holder = a
  /\ Does(p, [kind |-> "sync", base |-> Latest, checkout |-> c, consume |-> consume])
  /\ UNCHANGED <<versions, checkouts>>

(* Mutant: nothing keeps two successors of one version apart. *)
AnyVersion(v) == TRUE
IsNewVersion(v) == \A i \in DOMAIN versions : versions[i].version # v

(* Mutant: the checkout is ended without a look at its state. *)
ConsumesAnyway(r) ==
  IF r.consume THEN checkouts' = [checkouts EXCEPT ![r.checkout].state = "in"]
  ELSE UNCHANGED checkouts
ConsumesCheckout(r) ==
  IF r.consume
  THEN /\ Out(r.checkout)
       /\ checkouts' = [checkouts EXCEPT ![r.checkout].state = "in"]
  ELSE UNCHANGED checkouts

PersistRecordVersion(p) ==
  /\ handler[p].kind = "sync"
  /\ LET r == handler[p] IN
       /\ IsNewVersion(r.base + 1)
       /\ ConsumesCheckout(r)
       /\ versions' = Append(versions, Row(r.base + 1, r.checkout, r.consume))
  /\ Does(p, Waiting)

(* The insert or the consumption fails, or the request is refused: the whole    *)
(* transaction is undone.                                                       *)
RollBackSync(p) ==
  /\ handler[p].kind = "sync"
  /\ Does(p, Waiting)
  /\ UNCHANGED <<versions, checkouts>>

SharedNext ==
  \/ \E a \in Editors : AcquireRecordCheckout(a)
  \/ \E c \in CheckoutIds : Lapse(c) \/ ReleaseLapsed(c)
  \/ \E p \in Handlers :
       \/ \E c \in CheckoutIds : LookAtCheckout(p, c)
       \/ RenewRecordCheckout(p) \/ ReleaseRecordCheckout(p)
       \/ \E a \in Editors, c \in {NoCheckout} \cup CheckoutIds,
            force, consume \in BOOLEAN : BeginSync(p, a, c, force, consume)
       \/ PersistRecordVersion(p) \/ RollBackSync(p)

SharedSpec == SharedInit /\ [][SharedNext]_sharedVars

--------------------------------------------------------------------------------
(* Properties.                                                                  *)

SharedTypeOK ==
  /\ versions \in Seq([version : 1 .. MaxRows, checkout : Nat, ends : BOOLEAN])
  /\ checkouts \in Seq([holder : Editors, state : {"out", "in", "expired"},
                        lapsed : BOOLEAN, found : 0 .. MaxRows])
  /\ handler \in [Handlers ->
       {Waiting}
       \cup [kind : {"renew", "release"}, checkout : Nat]
       \cup [kind : {"sync"}, base : 0 .. MaxRows, checkout : Nat,
             consume : BOOLEAN]]

(* However many syncs of the record run at once, its rows are one chain: every  *)
(* version succeeds the one committed just before it.                           *)
VersionsFormOneChain ==
  \A i \in DOMAIN versions : versions[i].version = i

(* Nobody has the record while somebody else has it, although renewals and      *)
(* releases write a checkout that may have been closed since they looked at it. *)
OneCheckout == \A c1, c2 \in CheckoutIds : Out(c1) /\ Out(c2) => c1 = c2

(* The chain follows the checkouts, although a sync writes after its checkout   *)
(* may have lapsed: once a version was written under a later checkout none      *)
(* appears under an earlier one, and the version that ends one is its last.     *)
WritesFollowTheCheckouts ==
  \A i, j \in DOMAIN versions :
    LET first == versions[i]
        second == versions[j]
    IN (i < j /\ first.checkout # NoCheckout /\ second.checkout # NoCheckout) =>
         \/ first.checkout < second.checkout
         \/ first.checkout = second.checkout /\ ~first.ends

(* src/openapi.ts: a lock-managed write releases its checkout in the commit     *)
(* that accepts it.  So whoever has the record next found that version there.   *)
NextEditorFindsTheEnd ==
  \A i \in DOMAIN versions : versions[i].ends =>
    /\ checkouts[versions[i].checkout].state = "in"
    /\ \A c \in versions[i].checkout + 1 .. Len(checkouts) : checkouts[c].found >= i
================================================================================
