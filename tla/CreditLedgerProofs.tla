--------------------------- MODULE CreditLedgerProofs ---------------------------
(* Theorems about CreditLedger for every number of workspaces, orders and        *)
(* workers, every grant, price and threshold.  The inductive invariant           *)
(* LedgerInv adds to the properties who may be in the middle of what: a row is   *)
(* locked by the one worker that works on it, an order is recorded by one        *)
(* request only, and what a worker saw paid is paid.  At the end, the            *)
(* composition with hosting credits and the inbox that MCServices checks.        *)
EXTENDS MCServices, HostingCreditsProofs, NotificationInboxProofs, FiniteSetTheorems, SequenceTheorems, TLAPS

Accounts == [balance : Int, state : BillingStates, depleted : ClockTimes \cup {NotSet},
             deleteAt : 0 .. MaxClock + Grace \cup {NotSet}]
Records == [key : EntryKeys, amount : Int, before : Int]
InvoiceStates == {"none", "pending", "paid", "expired"}
InvoiceRows == [space : Spaces \cup {NoWorker}, status : InvoiceStates]

Granting == [kind : {"grant"}, space : Spaces]
Ordering == [kind : {"order"}, space : Spaces, order : Purchases,
             status : {"pending", "paid"}]
Polling == [kind : {"poll"}, order : Purchases, status : InvoiceStates]
Settling == [kind : {"settle"}, order : Purchases, balance : Int]
Auditing == [kind : {"audit"}, space : Spaces, hour : ClockTimes]
Refreshing == [kind : {"refresh"}, space : Spaces]
Workings == {Resting} \cup Granting \cup Ordering \cup Polling \cup Settling
        \cup Auditing \cup Refreshing

LedgerTypes ==
  /\ clock \in ClockTimes /\ crashes \in 0 .. MaxCrashes
  /\ account \in [Spaces -> {NoAccount} \cup Accounts]
  /\ entries \in [Spaces -> Seq(Records)]
  /\ audited \in [Spaces -> SUBSET ClockTimes]
  /\ purchase \in [Purchases -> InvoiceRows]
  /\ invoice \in [Purchases -> InvoiceStates]
  /\ accountHeld \in [Spaces -> Workers \cup {NoWorker}]
  /\ purchaseHeld \in [Purchases -> Workers \cup {NoWorker}]
  /\ work \in [Workers -> Workings]

AuditsFor(p, s) == work[p].kind = "audit" /\ work[p].space = s
Settles(p, o) == work[p].kind = "settle" /\ work[p].order = o
OrdersFor(p, o) == work[p].kind = "order" /\ work[p].order = o
Polls(p, o) == work[p].kind = "poll" /\ work[p].order = o

(* A row is locked by the worker that works on it, and by that one only.        *)
LocksAreWork ==
  /\ \A p \in Workers, s \in Spaces : accountHeld[s] = p <=> AuditsFor(p, s)
  /\ \A p \in Workers, o \in Purchases : purchaseHeld[o] = p <=> Settles(p, o)

(* How far an order has come, and what its workers know of it.                  *)
OrderInOrder(o) ==
  /\ purchase[o].status # "none" => purchase[o].space \in Spaces
  /\ invoice[o] = "none" =>
       purchase[o].status = "none" /\ \A p \in Workers : ~OrdersFor(p, o)
  /\ \A p \in Workers : OrdersFor(p, o) => purchase[o].status = "none"
  /\ \A p, q \in Workers : OrdersFor(p, o) /\ OrdersFor(q, o) => p = q
  /\ \A p \in Workers : Polls(p, o) =>
       /\ purchase[o].status # "none" /\ work[p].status # "none"
       /\ work[p].status = "paid" => invoice[o] = "paid"
  /\ \A p \in Workers : Settles(p, o) =>
       /\ purchase[o].status \notin {"none", "paid"} /\ invoice[o] = "paid"
OrdersInOrder == \A o \in Purchases : OrderInOrder(o)

LedgerInv ==
  /\ LedgerTypes
  /\ LocksAreWork
  /\ OrdersInOrder
  /\ CreditsAndChargesHappenOnce
  /\ BlockFollowsTheBalance

--------------------------------------------------------------------------------
(* The transactions of a workspace.                                             *)

LEMMA FoundIsFinite ==
  ASSUME LedgerTypes, NEW s \in Spaces, NEW key
  PROVE  IsFiniteSet(EntriesFor(s, key)) /\ Len(entries[s]) + 1 \notin EntriesFor(s, key)
<1>1. Len(entries[s]) \in Nat
  BY DEF LedgerTypes
<1>2. IsFiniteSet(1 .. Len(entries[s]))
  BY <1>1, FS_Interval
<1>3. EntriesFor(s, key) \in SUBSET (1 .. Len(entries[s]))
  BY DEF EntriesFor
<1>4. IsFiniteSet(EntriesFor(s, key))
  BY <1>2, <1>3, FS_Subset
<1> QED BY <1>1, <1>3, <1>4

LEMMA EntryAdded ==
  ASSUME LedgerTypes, NEW s \in Spaces, NEW e \in Records,
         entries' = [entries EXCEPT ![s] = Append(@, e)]
  PROVE  /\ \A r \in Spaces : \A key :
              EntriesFor(r, key)' =
                IF r = s /\ e.key = key THEN EntriesFor(r, key) \cup {Len(entries[s]) + 1}
                ELSE EntriesFor(r, key)
         /\ \A r \in Spaces : \A key :
              e.key # key => EntriesFor(r, key)' = EntriesFor(r, key)
<1> SUFFICES ASSUME NEW r \in Spaces, NEW key
             PROVE  EntriesFor(r, key)' =
                      IF r = s /\ e.key = key
                      THEN EntriesFor(r, key) \cup {Len(entries[s]) + 1}
                      ELSE EntriesFor(r, key)
  OBVIOUS
<1>1. /\ entries[s] \in Seq(Records) /\ Len(entries[s]) \in Nat
      /\ entries'[s] = Append(entries[s], e)
      /\ r # s => entries'[r] = entries[r]
  BY DEF LedgerTypes
<1>2. /\ Len(entries'[s]) = Len(entries[s]) + 1
      /\ entries'[s][Len(entries[s]) + 1] = e
      /\ \A i \in 1 .. Len(entries[s]) : entries'[s][i] = entries[s][i]
  BY <1>1, AppendProperties
<1>3. CASE r = s
  <2>1. 1 .. Len(entries'[s]) = (1 .. Len(entries[s])) \cup {Len(entries[s]) + 1}
    BY <1>1, <1>2
  <2> QED BY <1>2, <1>3, <2>1 DEF EntriesFor
<1>4. CASE r # s
  BY <1>1, <1>4 DEF EntriesFor
<1> QED BY <1>3, <1>4

LEMMA OneMoreEntry ==
  ASSUME LedgerTypes, NEW s \in Spaces, NEW e \in Records,
         entries' = [entries EXCEPT ![s] = Append(@, e)]
  PROVE  entries' \in [Spaces -> Seq(Records)]
BY AppendProperties DEF LedgerTypes

(* The grant is at most one more transaction, and of neither kind below.        *)
Granted(s) == entries' = [entries EXCEPT ![s] = @ \o GrantEntries]

LEMMA GrantIsAnEntry ==
  ASSUME LedgerTypes, NEW s \in Spaces, Granted(s)
  PROVE  /\ entries' \in [Spaces -> Seq(Records)]
         /\ \A r \in Spaces : \A o \in Purchases :
              EntriesFor(r, <<"purchase", o>>)' = EntriesFor(r, <<"purchase", o>>)
         /\ \A r \in Spaces : \A h \in ClockTimes :
              EntriesFor(r, <<"hour", h>>)' = EntriesFor(r, <<"hour", h>>)
<1> DEFINE e == Transaction(<<"grant">>, Grant, 0)
<1>1. /\ entries \in [Spaces -> Seq(Records)] /\ entries[s] \in Seq(Records)
  BY DEF LedgerTypes
<1>2. e \in Records /\ e.key = <<"grant">>
  BY CreditAssumption DEF Transaction, Records, EntryKeys
<1>3. CASE Grant > 0
  <2>1. GrantEntries = <<e>>
    BY <1>3 DEF GrantEntries
  <2>2. entries[s] \o <<e>> = Append(entries[s], e)
    BY <1>1, <1>2
  <2> HIDE DEF e
  <2>3. entries' = [entries EXCEPT ![s] = Append(@, e)]
    BY <2>1, <2>2 DEF Granted
  <2>4. \A o : e.key # <<"purchase", o>> /\ e.key # <<"hour", o>>
    BY <1>2
  <2>5. entries' \in [Spaces -> Seq(Records)]
    BY <1>2, <2>3, OneMoreEntry
  <2>6. \A r \in Spaces : \A key : e.key # key => EntriesFor(r, key)' = EntriesFor(r, key)
    BY <1>2, <2>3, EntryAdded
  <2> QED BY <2>4, <2>5, <2>6
<1>4. CASE ~(Grant > 0)
  <2>1. entries' = entries
    BY <1>1, <1>4 DEF Granted, GrantEntries
  <2> QED BY <1>1, <2>1 DEF EntriesFor
<1> QED BY <1>3, <1>4

--------------------------------------------------------------------------------
(* What a step may leave alone.                                                 *)

LEMMA JobByKind ==
  ASSUME NEW w \in Workings
  PROVE  /\ w.kind = "grant" => w \in Granting
         /\ w.kind = "order" => w \in Ordering
         /\ w.kind = "poll" => w \in Polling
         /\ w.kind = "settle" => w \in Settling
         /\ w.kind = "audit" => w \in Auditing
         /\ w.kind = "refresh" => w \in Refreshing
BY DEF Workings, Resting, Granting, Ordering, Polling, Settling, Auditing, Refreshing

LEMMA JobsAre ==
  /\ Resting \in Workings /\ Resting.kind = "rest"
  /\ \A w \in Granting \cup Ordering \cup Polling \cup Settling \cup Auditing
              \cup Refreshing : w \in Workings
BY DEF Workings, Resting

LEMMA OneWorks ==
  ASSUME LedgerTypes, NEW p \in Workers, NEW next \in Workings, Becomes(p, next)
  PROVE  /\ work' \in [Workers -> Workings] /\ work'[p] = next
         /\ \A q \in Workers : q # p => work'[q] = work[q]
BY DEF LedgerTypes, Becomes

(* A worker that holds no lock before or after.                                 *)
LEMMA LocksStay ==
  ASSUME LedgerInv, NEW p \in Workers, NEW next \in Workings, Becomes(p, next),
         work[p].kind \notin {"audit", "settle"}, next.kind \notin {"audit", "settle"},
         UNCHANGED held
  PROVE  LocksAreWork'
BY OneWorks DEF LedgerInv, LocksAreWork, AuditsFor, Settles, held

(* A worker ends its transaction.                                               *)
LEMMA LedgerUnlocked ==
  ASSUME LedgerInv, NEW p \in Workers, Becomes(p, Resting), LetsGo(p)
  PROVE  /\ LocksAreWork'
         /\ accountHeld' \in [Spaces -> Workers \cup {NoWorker}]
         /\ purchaseHeld' \in [Purchases -> Workers \cup {NoWorker}]
<1>1. /\ work'[p] = Resting /\ \A q \in Workers : q # p => work'[q] = work[q]
  BY OneWorks, JobsAre DEF LedgerInv
<1>2. /\ accountHeld' = [s \in Spaces |-> IF accountHeld[s] = p THEN NoWorker
                                          ELSE accountHeld[s]]
      /\ purchaseHeld' = [o \in Purchases |-> IF purchaseHeld[o] = p THEN NoWorker
                                              ELSE purchaseHeld[o]]
  BY DEF LetsGo, FreeOf, LedgerInv, LedgerTypes
<1>3. p # NoWorker /\ NoWorker \notin Workers
  BY CreditAssumption
<1>4. /\ accountHeld' \in [Spaces -> Workers \cup {NoWorker}]
      /\ purchaseHeld' \in [Purchases -> Workers \cup {NoWorker}]
  BY <1>2 DEF LedgerInv, LedgerTypes
<1>5. LocksAreWork'
  BY <1>1, <1>2, <1>3, JobsAre DEF LedgerInv, LocksAreWork, AuditsFor, Settles
<1> QED BY <1>4, <1>5

(* The orders are as they were, and a worker takes up none of them.             *)
LEMMA PurchasesStay ==
  ASSUME LedgerInv, NEW p \in Workers, NEW next \in Workings, Becomes(p, next),
         next.kind \notin {"order", "poll", "settle"}, UNCHANGED <<purchase, invoice>>
  PROVE  OrdersInOrder'
BY OneWorks DEF LedgerInv, OrdersInOrder, OrderInOrder, OrdersFor, Polls, Settles

EntriesStay ==
  /\ \A r \in Spaces : \A o \in Purchases :
       EntriesFor(r, <<"purchase", o>>)' = EntriesFor(r, <<"purchase", o>>)
  /\ \A r \in Spaces : \A h \in ClockTimes :
       EntriesFor(r, <<"hour", h>>)' = EntriesFor(r, <<"hour", h>>)

PaidStays ==
  \A o \in Purchases :
    /\ purchase[o].status = "paid" => purchase'[o] = purchase[o]
    /\ invoice[o] = "paid" => invoice'[o] = "paid"

LEMMA EntriesUntouched ==
  ASSUME UNCHANGED entries
  PROVE  EntriesStay
BY DEF EntriesStay, EntriesFor

LEMMA HappensOnce ==
  ASSUME LedgerInv, EntriesStay, PaidStays, audited' = audited
  PROVE  CreditsAndChargesHappenOnce'
BY DEF LedgerInv, CreditsAndChargesHappenOnce, EntriesStay, PaidStays

LEMMA PaidUntouched ==
  ASSUME UNCHANGED <<purchase, invoice>>
  PROVE  PaidStays
BY DEF PaidStays

(* One account is written, with the state its balance asks for.                 *)
Fits(newRow) == newRow.balance <= 0 <=> newRow.state \in Blocking

LEMMA AccountWritten ==
  ASSUME LedgerInv, NEW s \in Spaces, NEW newRow \in Accounts, Fits(newRow),
         account' = [account EXCEPT ![s] = newRow]
  PROVE  /\ account' \in [Spaces -> {NoAccount} \cup Accounts]
         /\ BlockFollowsTheBalance'
<1>1. account \in [Spaces -> {NoAccount} \cup Accounts]
  BY DEF LedgerInv, LedgerTypes
<1>2. account' \in [Spaces -> {NoAccount} \cup Accounts]
  BY <1>1
<1>3. \A r \in Spaces : account'[r] = IF r = s THEN newRow ELSE account[r]
  BY <1>1
<1> QED BY <1>2, <1>3 DEF LedgerInv, BlockFollowsTheBalance, OpenAccountOf, Fits

LEMMA AccountsStay ==
  ASSUME LedgerInv, UNCHANGED account
  PROVE  BlockFollowsTheBalance'
BY DEF LedgerInv, BlockFollowsTheBalance, OpenAccountOf

LEMMA StatesFit ==
  ASSUME NEW balance \in Int
  PROVE  /\ StateFor(balance) \in BillingStates
         /\ balance <= 0 <=> StateFor(balance) \in Blocking
BY CreditAssumption DEF StateFor, BillingStates, Blocking

LEMMA NewAccountFits ==
  ASSUME LedgerTypes
  PROVE  NewAccount \in Accounts /\ Fits(NewAccount)
<1>1. clock \in 0 .. MaxClock /\ Grant \in Nat /\ Grace \in Nat /\ MaxClock \in Nat
  BY CreditAssumption DEF LedgerTypes, ClockTimes
<1>2. NewAccount.depleted \in ClockTimes \cup {NotSet}
  BY <1>1 DEF NewAccount, ClockTimes
<1>3. NewAccount.deleteAt \in 0 .. MaxClock + Grace \cup {NotSet}
  BY <1>1 DEF NewAccount, NotSet
<1>4. NewAccount.balance = Grant /\ NewAccount.state = StateFor(Grant)
  BY DEF NewAccount
<1>5. Fits(NewAccount) /\ NewAccount.state \in BillingStates
  BY <1>1, <1>4, StatesFit DEF Fits
<1>6. NewAccount \in Accounts
  BY <1>1, <1>2, <1>3, <1>4, <1>5 DEF NewAccount, Accounts
<1> QED BY <1>5, <1>6

--------------------------------------------------------------------------------
(* Opening an account.                                                          *)

LEMMA OpenedWithWorkspace ==
  ASSUME LedgerInv, NEW s \in Spaces, OpenWithWorkspace(s)
  PROVE  LedgerInv'
<1> USE DEF OpenWithWorkspace
<1>1. Granted(s)
  BY DEF Granted
<1>2. LedgerTypes
  BY DEF LedgerInv
<1>3. EntriesStay /\ entries' \in [Spaces -> Seq(Records)]
  BY <1>1, <1>2, GrantIsAnEntry DEF EntriesStay
<1>4. account' \in [Spaces -> {NoAccount} \cup Accounts] /\ BlockFollowsTheBalance'
  BY <1>2, NewAccountFits, AccountWritten
<1>5. LedgerTypes'
  BY <1>2, <1>3, <1>4 DEF LedgerTypes, held
<1>6. LocksAreWork' /\ OrdersInOrder'
  BY DEF LedgerInv, LocksAreWork, OrdersInOrder, OrderInOrder, AuditsFor, Settles, OrdersFor,
         Polls, held
<1>7. CreditsAndChargesHappenOnce'
  BY <1>3, HappensOnce, PaidUntouched
<1> QED BY <1>4, <1>5, <1>6, <1>7 DEF LedgerInv

LEMMA AccountOpened ==
  ASSUME LedgerInv, NEW p \in Workers, NEW s \in Spaces, OpenAccount(p, s)
  PROVE  LedgerInv'
<1> DEFINE next == IF Grant > 0 THEN [kind |-> "grant", space |-> s] ELSE Resting
<1> USE DEF OpenAccount
<1>1. next \in Workings /\ next.kind \in {"grant", "rest"}
  BY JobsAre DEF Granting
<1>2. LedgerTypes /\ work[p].kind = "rest"
  BY JobsAre DEF LedgerInv
<1>3. account' \in [Spaces -> {NoAccount} \cup Accounts] /\ BlockFollowsTheBalance'
  BY <1>2, NewAccountFits, AccountWritten
<1>4. Becomes(p, next)
  OBVIOUS
<1> HIDE DEF next
<1>5. LedgerTypes'
  BY <1>1, <1>2, <1>3, <1>4, OneWorks DEF LedgerTypes, held
<1>6. LocksAreWork' /\ OrdersInOrder'
  BY <1>1, <1>2, <1>4, LocksStay, PurchasesStay
<1>7. CreditsAndChargesHappenOnce'
  BY HappensOnce, PaidUntouched, EntriesUntouched
<1> QED BY <1>3, <1>5, <1>6, <1>7 DEF LedgerInv

LEMMA GrantRecorded ==
  ASSUME LedgerInv, NEW p \in Workers, RecordGrant(p)
  PROVE  LedgerInv'
<1> USE DEF RecordGrant
<1>1. LedgerTypes /\ work[p] \in Granting
  BY JobByKind DEF LedgerInv, LedgerTypes
<1>2. work[p].space \in Spaces
  BY <1>1 DEF Granting
<1>3. Granted(work[p].space)
  BY DEF Granted
<1>4. EntriesStay /\ entries' \in [Spaces -> Seq(Records)]
  BY <1>1, <1>2, <1>3, GrantIsAnEntry DEF EntriesStay
<1>5. LedgerTypes'
  BY <1>1, <1>4, JobsAre, OneWorks DEF LedgerTypes, held
<1>6. LocksAreWork' /\ OrdersInOrder'
  BY JobsAre, LocksStay, PurchasesStay
<1>7. CreditsAndChargesHappenOnce' /\ BlockFollowsTheBalance'
  BY <1>4, HappensOnce, PaidUntouched, AccountsStay
<1> QED BY <1>5, <1>6, <1>7 DEF LedgerInv

--------------------------------------------------------------------------------
(* OrdersFor.                                                                      *)

LEMMA InvoiceCreated ==
  ASSUME LedgerInv, NEW p \in Workers, NEW s \in Spaces, NEW o \in Purchases,
         CreateInvoice(p, s, o)
  PROVE  LedgerInv'
<1> USE DEF CreateInvoice
<1>1. PICK status \in {"pending", "paid"} :
        /\ invoice' = [invoice EXCEPT ![o] = status]
        /\ Becomes(p, [kind |-> "order", space |-> s, order |-> o, status |-> status])
  OBVIOUS
<1> DEFINE next == [kind |-> "order", space |-> s, order |-> o, status |-> status]
<1>2. /\ next \in Workings /\ next.kind = "order" /\ next.order = o
      /\ Becomes(p, next)
  BY <1>1, JobsAre DEF Ordering
<1> HIDE DEF next
<1>3. LedgerTypes /\ work[p].kind = "rest"
  BY JobsAre DEF LedgerInv
<1>4. /\ work' \in [Workers -> Workings] /\ work'[p] = next
      /\ \A q \in Workers : q # p => work'[q] = work[q]
  BY <1>2, <1>3, OneWorks
<1>5. /\ invoice' \in [Purchases -> InvoiceStates] /\ invoice'[o] = status
      /\ \A x \in Purchases : x # o => invoice'[x] = invoice[x]
  BY <1>1, <1>3 DEF LedgerTypes, InvoiceStates
<1>6. LedgerTypes'
  BY <1>3, <1>4, <1>5 DEF LedgerTypes, held, books
<1>7. LocksAreWork'
  BY <1>2, <1>3, LocksStay
<1>8. OrdersInOrder'
  <2> SUFFICES ASSUME NEW x \in Purchases
               PROVE  OrderInOrder(x)'
    BY DEF OrdersInOrder
  <2>1. OrderInOrder(x) /\ purchase' = purchase
    BY DEF LedgerInv, OrdersInOrder, books
  <2>2. CASE x = o
    BY <1>2, <1>3, <1>4, <1>5, <2>1, <2>2
    DEF OrderInOrder, OrdersFor, Polls, Settles
  <2>3. CASE x # o
    BY <1>2, <1>3, <1>4, <1>5, <2>1, <2>3
    DEF OrderInOrder, OrdersFor, Polls, Settles
  <2> QED BY <2>2, <2>3
<1>9. PaidStays
  BY <1>5 DEF PaidStays, books
<1>10. CreditsAndChargesHappenOnce' /\ BlockFollowsTheBalance'
  BY <1>9, HappensOnce, EntriesUntouched, AccountsStay DEF books
<1> QED BY <1>6, <1>7, <1>8, <1>10 DEF LedgerInv

(* One order's row changes before it is paid.                                   *)
LEMMA OneRow ==
  ASSUME LedgerInv, NEW o \in Purchases, NEW newRow \in InvoiceRows,
         purchase' = [purchase EXCEPT ![o] = newRow]
  PROVE  /\ purchase' \in [Purchases -> InvoiceRows] /\ purchase'[o] = newRow
         /\ \A x \in Purchases : x # o => purchase'[x] = purchase[x]
BY DEF LedgerInv, LedgerTypes

LEMMA PurchaseRecorded ==
  ASSUME LedgerInv, NEW p \in Workers, RecordPurchase(p)
  PROVE  LedgerInv'
<1> USE DEF RecordPurchase
<1> DEFINE o == work[p].order
           newRow == [space |-> work[p].space, status |-> work[p].status]
<1>1. LedgerTypes /\ work[p] \in Ordering
  BY JobByKind DEF LedgerInv, LedgerTypes
<1>2. /\ o \in Purchases /\ newRow \in InvoiceRows
      /\ newRow.space \in Spaces /\ newRow.status # "none"
  BY <1>1 DEF Ordering, InvoiceRows, InvoiceStates
<1>3. purchase' = [purchase EXCEPT ![o] = newRow]
  OBVIOUS
<1>4. OrdersFor(p, o)
  BY DEF OrdersFor
<1> HIDE DEF o, newRow
<1>5. /\ purchase' \in [Purchases -> InvoiceRows] /\ purchase'[o] = newRow
      /\ \A x \in Purchases : x # o => purchase'[x] = purchase[x]
  BY <1>2, <1>3, OneRow
<1>6. /\ work' \in [Workers -> Workings] /\ work'[p] = Resting
      /\ \A q \in Workers : q # p => work'[q] = work[q]
  BY <1>1, JobsAre, OneWorks
<1>7. OrderInOrder(o)
  BY <1>2 DEF LedgerInv, OrdersInOrder
<1>8. LedgerTypes'
  BY <1>1, <1>5, <1>6 DEF LedgerTypes, held
<1>9. LocksAreWork'
  BY JobsAre, LocksStay
<1>10. OrdersInOrder'
  <2> SUFFICES ASSUME NEW x \in Purchases
               PROVE  OrderInOrder(x)'
    BY DEF OrdersInOrder
  <2>1. OrderInOrder(x) /\ invoice' = invoice
    BY DEF LedgerInv, OrdersInOrder
  <2>2. CASE x = o
    BY <1>2, <1>4, <1>5, <1>6, <2>1, <2>2, JobsAre
    DEF OrderInOrder, OrdersFor, Polls, Settles
  <2>3. CASE x # o
    BY <1>5, <1>6, <2>1, <2>3, JobsAre DEF OrderInOrder, OrdersFor, Polls, Settles
  <2> QED BY <2>2, <2>3
<1>11. PaidStays
  BY <1>4, <1>5, <1>7 DEF PaidStays, OrderInOrder
<1>12. CreditsAndChargesHappenOnce' /\ BlockFollowsTheBalance'
  BY <1>11, HappensOnce, EntriesUntouched, AccountsStay
<1> QED BY <1>8, <1>9, <1>10, <1>12 DEF LedgerInv

LEMMA InvoiceMoved ==
  ASSUME LedgerInv, NEW o \in Purchases, InvoiceMoves(o)
  PROVE  LedgerInv'
<1> USE DEF InvoiceMoves
<1>1. PICK status \in {"paid", "expired"} : invoice' = [invoice EXCEPT ![o] = status]
  OBVIOUS
<1>2. /\ invoice' \in [Purchases -> InvoiceStates] /\ invoice'[o] = status
      /\ \A x \in Purchases : x # o => invoice'[x] = invoice[x]
  BY <1>1 DEF LedgerInv, LedgerTypes, InvoiceStates
<1>3. LedgerTypes'
  BY <1>2 DEF LedgerInv, LedgerTypes, held, books
<1>4. LocksAreWork'
  BY DEF LedgerInv, LocksAreWork, AuditsFor, Settles, held
<1>5. OrdersInOrder'
  BY <1>2 DEF LedgerInv, OrdersInOrder, OrderInOrder, OrdersFor, Polls, Settles, books
<1>6. PaidStays
  BY <1>2 DEF PaidStays, books
<1>7. CreditsAndChargesHappenOnce' /\ BlockFollowsTheBalance'
  BY <1>6, HappensOnce, EntriesUntouched, AccountsStay DEF books
<1> QED BY <1>3, <1>4, <1>5, <1>7 DEF LedgerInv

LEMMA PurchasePolled ==
  ASSUME LedgerInv, NEW p \in Workers, NEW o \in Purchases, PollPurchase(p, o)
  PROVE  LedgerInv'
<1> USE DEF PollPurchase
<1> DEFINE next == [kind |-> "poll", order |-> o, status |-> invoice[o]]
<1>1. LedgerTypes /\ work[p].kind = "rest"
  BY JobsAre DEF LedgerInv
<1>2. /\ next \in Workings /\ next.kind = "poll" /\ next.order = o
      /\ next.status = invoice[o] /\ Becomes(p, next)
  BY <1>1, JobsAre DEF Polling, LedgerTypes
<1> HIDE DEF next
<1>3. /\ work' \in [Workers -> Workings] /\ work'[p] = next
      /\ \A q \in Workers : q # p => work'[q] = work[q]
  BY <1>1, <1>2, OneWorks
<1>4. LedgerTypes'
  BY <1>1, <1>3 DEF LedgerTypes, held, books
<1>5. LocksAreWork'
  BY <1>1, <1>2, LocksStay
<1>6. OrdersInOrder'
  BY <1>2, <1>3 DEF LedgerInv, OrdersInOrder, OrderInOrder, OrdersFor, Polls, Settles, books
<1>7. CreditsAndChargesHappenOnce' /\ BlockFollowsTheBalance'
  BY HappensOnce, PaidUntouched, EntriesUntouched, AccountsStay DEF books
<1> QED BY <1>4, <1>5, <1>6, <1>7 DEF LedgerInv

LEMMA PolledUnpaid ==
  ASSUME LedgerInv, NEW p \in Workers, PollUnpaid(p)
  PROVE  LedgerInv'
<1> USE DEF PollUnpaid
<1> DEFINE o == work[p].order
           newRow == [purchase[o] EXCEPT !.status = work[p].status]
<1>1. LedgerTypes /\ work[p] \in Polling
  BY JobByKind DEF LedgerInv, LedgerTypes
<1>2. o \in Purchases /\ work[p].status \in InvoiceStates
  BY <1>1 DEF Polling
<1>3. purchase[o] \in InvoiceRows
  BY <1>1, <1>2 DEF LedgerTypes
<1>4. /\ newRow \in InvoiceRows /\ newRow.status = work[p].status
      /\ newRow.space = purchase[o].space
  BY <1>2, <1>3 DEF InvoiceRows
<1>5. \/ purchase' = purchase
      \/ /\ purchase' = [purchase EXCEPT ![o] = newRow]
         /\ purchase[o].status # "paid" /\ newRow.status # "paid"
  BY <1>4 DEF Unsettled
<1>6. Polls(p, o) /\ OrderInOrder(o)
  BY <1>2 DEF Polls, LedgerInv, OrdersInOrder
<1>7. \A q \in Workers : ~Settles(q, o)
  BY <1>2, CreditAssumption DEF LedgerInv, LocksAreWork
<1> HIDE DEF o, newRow
<1>8. /\ purchase' \in [Purchases -> InvoiceRows]
      /\ \A x \in Purchases : x # o => purchase'[x] = purchase[x]
      /\ purchase'[o] = purchase[o] \/ (purchase'[o] = newRow /\ purchase[o].status # "paid")
  <2>1. CASE purchase' = purchase
    BY <1>1, <2>1 DEF LedgerTypes
  <2>2. CASE purchase' # purchase
    BY <1>2, <1>4, <1>5, <2>2, OneRow
  <2> QED BY <2>1, <2>2
<1>9. /\ work' \in [Workers -> Workings] /\ work'[p] = Resting
      /\ \A q \in Workers : q # p => work'[q] = work[q]
  BY <1>1, JobsAre, OneWorks
<1>10. LedgerTypes'
  BY <1>1, <1>8, <1>9 DEF LedgerTypes, held
<1>11. LocksAreWork'
  BY JobsAre, LocksStay
<1>12. OrdersInOrder'
  <2> SUFFICES ASSUME NEW x \in Purchases
               PROVE  OrderInOrder(x)'
    BY DEF OrdersInOrder
  <2>1. OrderInOrder(x) /\ invoice' = invoice
    BY DEF LedgerInv, OrdersInOrder
  <2>2. CASE x = o
    <3>1. /\ purchase'[o].space = purchase[o].space /\ purchase'[o].status # "none"
          /\ invoice[o] # "none"
      BY <1>4, <1>6, <1>8 DEF OrderInOrder, Polls
    <3>2. \A q \in Workers : ~OrdersFor(q, o)
      BY <1>6 DEF OrderInOrder
    <3> QED BY <1>6, <1>7, <1>9, <2>1, <2>2, <3>1, <3>2, JobsAre
            DEF OrderInOrder, OrdersFor, Polls, Settles
  <2>3. CASE x # o
    BY <1>8, <1>9, <2>1, <2>3, JobsAre DEF OrderInOrder, OrdersFor, Polls, Settles
  <2> QED BY <2>2, <2>3
<1>13. PaidStays
  BY <1>8 DEF PaidStays
<1>14. CreditsAndChargesHappenOnce' /\ BlockFollowsTheBalance'
  BY <1>13, HappensOnce, EntriesUntouched, AccountsStay
<1> QED BY <1>10, <1>11, <1>12, <1>14 DEF LedgerInv

LEMMA SettlementBegun ==
  ASSUME LedgerInv, NEW p \in Workers, BeginSettlement(p)
  PROVE  LedgerInv'
<1> USE DEF BeginSettlement
<1> DEFINE o == work[p].order
           next == [kind |-> "settle", order |-> o,
                    balance |-> account[purchase[o].space].balance]
<1>1. LedgerTypes /\ work[p] \in Polling /\ Polls(p, o)
  BY JobByKind DEF LedgerInv, LedgerTypes, Polls
<1>2. o \in Purchases
  BY <1>1 DEF Polling
<1>3. /\ purchase[o].status \notin {"none", "paid"} /\ purchase[o].space \in Spaces
      /\ invoice[o] = "paid" /\ OrderInOrder(o) /\ purchaseHeld[o] = NoWorker
  BY <1>1, <1>2 DEF LedgerInv, OrdersInOrder, OrderInOrder, Unsettled
<1>4. account[purchase[o].space].balance \in Int
  BY <1>1, <1>3 DEF LedgerTypes, Accounts, NoAccount
<1>5. /\ next \in Workings /\ next.kind = "settle" /\ next.order = o
      /\ Becomes(p, next) /\ purchaseHeld' = [purchaseHeld EXCEPT ![o] = p]
  BY <1>2, <1>4, JobsAre DEF Settling
<1> HIDE DEF o, next
<1>6. /\ work' \in [Workers -> Workings] /\ work'[p] = next
      /\ \A q \in Workers : q # p => work'[q] = work[q]
  BY <1>1, <1>5, OneWorks
<1>7. LedgerTypes'
  <2>1. purchaseHeld' \in [Purchases -> Workers \cup {NoWorker}]
    BY <1>1, <1>5 DEF LedgerTypes
  <2>2. UNCHANGED <<clock, crashes, account, entries, audited, purchase, invoice, accountHeld>>
    BY DEF books
  <2> QED BY <1>1, <1>6, <2>1, <2>2 DEF LedgerTypes
<1>8. LocksAreWork'
  <2>1. /\ purchaseHeld'[o] = p
        /\ \A x \in Purchases : x # o => purchaseHeld'[x] = purchaseHeld[x]
    BY <1>1, <1>2, <1>5 DEF LedgerTypes
  <2>2. p # NoWorker /\ NoWorker \notin Workers
    BY CreditAssumption
  <2>3. \A q \in Workers, s \in Spaces : accountHeld'[s] = q <=> AuditsFor(q, s)'
    BY <1>5, <1>6 DEF LedgerInv, LocksAreWork, AuditsFor
  <2>4. ASSUME NEW q \in Workers, NEW x \in Purchases
        PROVE  purchaseHeld'[x] = q <=> Settles(q, x)'
    BY <1>2, <1>3, <1>5, <1>6, <2>1, <2>2 DEF LedgerInv, LocksAreWork, Settles
  <2> QED BY <2>3, <2>4 DEF LocksAreWork
<1>9. OrdersInOrder'
  BY <1>3, <1>5, <1>6
  DEF LedgerInv, OrdersInOrder, OrderInOrder, OrdersFor, Polls, Settles, books
<1>10. CreditsAndChargesHappenOnce' /\ BlockFollowsTheBalance'
  BY HappensOnce, PaidUntouched, EntriesUntouched, AccountsStay DEF books
<1> QED BY <1>7, <1>8, <1>9, <1>10 DEF LedgerInv

LEMMA SettlementCommitted ==
  ASSUME LedgerInv, NEW p \in Workers, CommitSettlement(p)
  PROVE  LedgerInv'
<1> DEFINE o == work[p].order
           s == purchase[o].space
           after == work[p].balance + Quantity
           newRow == [balance |-> after, state |-> StateFor(after), depleted |-> NotSet,
                   deleteAt |-> NotSet]
           e == Transaction(<<"purchase", o>>, Quantity, work[p].balance)
           done == [purchase[o] EXCEPT !.status = "paid"]
<1>1. LedgerTypes /\ work[p] \in Settling /\ Settles(p, o)
  BY JobByKind DEF LedgerInv, LedgerTypes, CommitSettlement, Settles
<1>2. o \in Purchases /\ work[p].balance \in Int /\ after \in Int
  BY <1>1, CreditAssumption DEF Settling
<1>3. /\ OrderInOrder(o) /\ purchase[o].status \notin {"none", "paid"}
      /\ s \in Spaces /\ invoice[o] = "paid" /\ purchase[o] \in InvoiceRows
  BY <1>1, <1>2 DEF LedgerInv, OrdersInOrder, OrderInOrder, LedgerTypes
<1>4. newRow \in Accounts /\ Fits(newRow)
  BY <1>2, StatesFit DEF Accounts, Fits
<1>5. e \in Records /\ e.key = <<"purchase", o>>
  BY <1>2, CreditAssumption DEF Transaction, Records, EntryKeys
<1>6. done \in InvoiceRows /\ done.space = s /\ done.status = "paid" /\ done = [space |-> s, status |-> "paid"]
  BY <1>3 DEF InvoiceRows, InvoiceStates
<1>7. /\ account' = [account EXCEPT ![s] = newRow]
      /\ entries' = [entries EXCEPT ![s] = Append(@, e)]
      /\ purchase' = [purchase EXCEPT ![o] = done]
      /\ LetsGo(p) /\ Becomes(p, Resting)
      /\ UNCHANGED <<clock, audited, invoice, crashes>>
  BY DEF CommitSettlement
<1> HIDE DEF o, s, after, newRow, e, done
<1>8. account' \in [Spaces -> {NoAccount} \cup Accounts] /\ BlockFollowsTheBalance'
  BY <1>3, <1>4, <1>7, AccountWritten
<1>9. /\ purchase' \in [Purchases -> InvoiceRows] /\ purchase'[o] = done
      /\ \A x \in Purchases : x # o => purchase'[x] = purchase[x]
  BY <1>2, <1>6, <1>7, OneRow
<1>10. /\ work' \in [Workers -> Workings] /\ work'[p] = Resting
       /\ \A q \in Workers : q # p => work'[q] = work[q]
  BY <1>1, <1>7, JobsAre, OneWorks
<1>11. LedgerTypes'
  <2>1. entries' \in [Spaces -> Seq(Records)]
    BY <1>1, <1>3, <1>5, <1>7, OneMoreEntry
  <2> QED BY <1>1, <1>7, <1>8, <1>9, <1>10, <2>1, LedgerUnlocked DEF LedgerTypes
<1>12. LocksAreWork'
  BY <1>7, LedgerUnlocked
<1>13. OrdersInOrder'
  <2> SUFFICES ASSUME NEW x \in Purchases
               PROVE  OrderInOrder(x)'
    BY DEF OrdersInOrder
  <2>1. OrderInOrder(x) /\ invoice' = invoice
    BY <1>7 DEF LedgerInv, OrdersInOrder
  <2>2. CASE x = o
    <3>1. \A q \in Workers : Settles(q, o) => q = p
      BY <1>1, <1>2 DEF LedgerInv, LocksAreWork
    <3>2. \A q \in Workers : ~OrdersFor(q, o)
      BY <1>3 DEF OrderInOrder
    <3> QED BY <1>3, <1>6, <1>9, <1>10, <2>1, <2>2, <3>1, <3>2, JobsAre
            DEF OrderInOrder, OrdersFor, Polls, Settles
  <2>3. CASE x # o
    BY <1>9, <1>10, <2>1, <2>3, JobsAre DEF OrderInOrder, OrdersFor, Polls, Settles
  <2> QED BY <2>2, <2>3
<1>14. CreditsAndChargesHappenOnce'
  <2>1. \A r \in Spaces : \A key :
          EntriesFor(r, key)' =
            IF r = s /\ e.key = key THEN EntriesFor(r, key) \cup {Len(entries[s]) + 1}
            ELSE EntriesFor(r, key)
    BY <1>1, <1>3, <1>5, <1>7, EntryAdded
  <2>2. ASSUME NEW r \in Spaces
        PROVE  EntriesFor(r, <<"purchase", o>>) = {}
    <3>1. EntriesFor(r, <<"purchase", o>>) # {}
            => purchase[o] = [space |-> r, status |-> "paid"]
      BY <1>2 DEF LedgerInv, CreditsAndChargesHappenOnce
    <3>2. purchase[o] # [space |-> r, status |-> "paid"]
      BY <1>3
    <3> QED BY <3>1, <3>2
  <2>3. ASSUME NEW r \in Spaces, NEW x \in Purchases,
               EntriesFor(r, <<"purchase", x>>)' # {}
        PROVE  /\ Cardinality(EntriesFor(r, <<"purchase", x>>)') = 1
               /\ purchase'[x] = [space |-> r, status |-> "paid"]
               /\ invoice'[x] = "paid"
    <3>1. CASE x = o
      <4>1. r = s /\ EntriesFor(r, <<"purchase", x>>)' = {Len(entries[s]) + 1}
        BY <1>5, <2>1, <2>2, <2>3, <3>1
      <4>2. Cardinality({Len(entries[s]) + 1}) = 1
        BY FS_Singleton
      <4> QED BY <1>3, <1>6, <1>7, <1>9, <3>1, <4>1, <4>2
    <3>2. CASE x # o
      <4>1. e.key # <<"purchase", x>>
        BY <1>5, <3>2
      <4>2. EntriesFor(r, <<"purchase", x>>)' = EntriesFor(r, <<"purchase", x>>)
        BY <2>1, <4>1
      <4> QED BY <1>7, <1>9, <2>3, <3>2, <4>2
              DEF LedgerInv, CreditsAndChargesHappenOnce
    <3> QED BY <3>1, <3>2
  <2>4. ASSUME NEW r \in Spaces, NEW h \in ClockTimes
        PROVE  Cardinality(EntriesFor(r, <<"hour", h>>)')
                 = (IF h \in audited'[r] THEN 1 ELSE 0)
    <3>1. e.key # <<"hour", h>>
      BY <1>5
    <3>2. EntriesFor(r, <<"hour", h>>)' = EntriesFor(r, <<"hour", h>>)
      BY <2>1, <3>1
    <3> QED BY <1>7, <3>2 DEF LedgerInv, CreditsAndChargesHappenOnce
  <2> QED BY <2>3, <2>4 DEF CreditsAndChargesHappenOnce
<1> QED BY <1>8, <1>11, <1>12, <1>13, <1>14 DEF LedgerInv

--------------------------------------------------------------------------------
(* The hourly charge, the end of grace, and what may happen at any time.        *)

LEMMA AuditBegun ==
  ASSUME LedgerInv, NEW p \in Workers, NEW s \in Spaces, NEW h \in ClockTimes,
         BeginAudit(p, s, h)
  PROVE  LedgerInv'
<1> DEFINE next == [kind |-> "audit", space |-> s, hour |-> h]
<1>1. LedgerTypes /\ work[p].kind = "rest" /\ accountHeld[s] = NoWorker
  BY JobsAre DEF LedgerInv, BeginAudit
<1>2. /\ next \in Workings /\ next.kind = "audit" /\ next.space = s
      /\ Becomes(p, next) /\ accountHeld' = [accountHeld EXCEPT ![s] = p]
      /\ UNCHANGED <<clock, audited, purchase, invoice, purchaseHeld, crashes>>
  BY JobsAre DEF BeginAudit, Auditing
<1>3. /\ account' \in [Spaces -> {NoAccount} \cup Accounts] /\ BlockFollowsTheBalance'
      /\ EntriesStay /\ entries' \in [Spaces -> Seq(Records)]
  <2>1. CASE OpenAccountOf(s)
    <3>1. UNCHANGED <<account, entries>>
      BY <2>1 DEF BeginAudit
    <3> QED BY <1>1, <3>1, AccountsStay, EntriesUntouched DEF LedgerTypes
  <2>2. CASE ~OpenAccountOf(s)
    <3>1. account' = [account EXCEPT ![s] = NewAccount] /\ Granted(s)
      BY <2>2 DEF BeginAudit, Granted
    <3> QED BY <1>1, <3>1, GrantIsAnEntry, NewAccountFits, AccountWritten DEF EntriesStay
  <2> QED BY <2>1, <2>2
<1> HIDE DEF next
<1>4. /\ work' \in [Workers -> Workings] /\ work'[p] = next
      /\ \A q \in Workers : q # p => work'[q] = work[q]
  BY <1>1, <1>2, OneWorks
<1>5. LedgerTypes'
  BY <1>1, <1>2, <1>3, <1>4 DEF LedgerTypes
<1>6. LocksAreWork'
  <2>1. /\ accountHeld'[s] = p
        /\ \A x \in Spaces : x # s => accountHeld'[x] = accountHeld[x]
    BY <1>1, <1>2 DEF LedgerTypes
  <2>2. p # NoWorker /\ NoWorker \notin Workers
    BY CreditAssumption
  <2>3. ASSUME NEW q \in Workers, NEW x \in Spaces
        PROVE  accountHeld'[x] = q <=> AuditsFor(q, x)'
    BY <1>1, <1>2, <1>4, <2>1, <2>2 DEF LedgerInv, LocksAreWork, AuditsFor
  <2>4. \A q \in Workers, x \in Purchases : purchaseHeld'[x] = q <=> Settles(q, x)'
    BY <1>1, <1>2, <1>4 DEF LedgerInv, LocksAreWork, Settles
  <2> QED BY <2>3, <2>4 DEF LocksAreWork
<1>7. OrdersInOrder'
  BY <1>2, PurchasesStay
<1>8. CreditsAndChargesHappenOnce'
  BY <1>2, <1>3, HappensOnce, PaidUntouched
<1> QED BY <1>3, <1>5, <1>6, <1>7, <1>8 DEF LedgerInv

(* The account after an audit that charged it.                                  *)
ChargedRow(s, charge) ==
  LET old == account[s]
      after == old.balance - charge
      since == IF old.depleted = NotSet THEN clock ELSE old.depleted
      due == IF old.deleteAt = NotSet THEN since + Grace ELSE old.deleteAt
  IN [balance |-> after, state |-> StateFor(after),
      depleted |-> IF after <= 0 THEN since ELSE NotSet,
      deleteAt |-> IF after <= 0 THEN due ELSE NotSet]

LEMMA ChargedFits ==
  ASSUME LedgerTypes, NEW s \in Spaces, NEW charge \in Charges
  PROVE  ChargedRow(s, charge) \in Accounts /\ Fits(ChargedRow(s, charge))
<1> DEFINE old == account[s]
           after == old.balance - charge
           since == IF old.depleted = NotSet THEN clock ELSE old.depleted
           due == IF old.deleteAt = NotSet THEN since + Grace ELSE old.deleteAt
<1>1. charge \in Nat /\ Grace \in Nat /\ MaxClock \in Nat /\ clock \in 0 .. MaxClock
  BY CreditAssumption DEF LedgerTypes, ClockTimes
<1>2. /\ old.balance \in Int
      /\ old.depleted = NotSet \/ old.depleted \in 0 .. MaxClock
      /\ old.deleteAt = NotSet \/ old.deleteAt \in 0 .. MaxClock + Grace
  BY DEF LedgerTypes, Accounts, NoAccount, ClockTimes
<1>3. after \in Int
  BY <1>1, <1>2
<1>4. since \in 0 .. MaxClock
  BY <1>1, <1>2
<1>5. due \in 0 .. MaxClock + Grace
  BY <1>1, <1>2, <1>4
<1>6. ChargedRow(s, charge) =
        [balance |-> after, state |-> StateFor(after),
         depleted |-> IF after <= 0 THEN since ELSE NotSet,
         deleteAt |-> IF after <= 0 THEN due ELSE NotSet]
  BY DEF ChargedRow
<1> HIDE DEF after, since, due
<1>7. ChargedRow(s, charge) \in Accounts
  BY <1>3, <1>4, <1>5, <1>6, StatesFit DEF Accounts, ClockTimes
<1> QED BY <1>3, <1>6, <1>7, StatesFit DEF Fits

LEMMA AuditCommitted ==
  ASSUME LedgerInv, NEW p \in Workers, CommitAudit(p)
  PROVE  LedgerInv'
<1> DEFINE s == work[p].space
           h == work[p].hour
<1>1. LedgerTypes /\ work[p] \in Auditing
  BY JobByKind DEF LedgerInv, LedgerTypes, CommitAudit
<1>2. s \in Spaces /\ h \in ClockTimes
  BY <1>1 DEF Auditing
<1>3. /\ LetsGo(p) /\ Becomes(p, Resting)
      /\ UNCHANGED <<clock, purchase, invoice, crashes>>
  BY DEF CommitAudit
<1>4. \/ UNCHANGED <<account, entries, audited>>
      \/ /\ h \notin audited[s]
         /\ audited' = [audited EXCEPT ![s] = @ \cup {h}]
         /\ \E charge \in Charges :
              /\ account' = [account EXCEPT ![s] = ChargedRow(s, charge)]
              /\ entries' = [entries EXCEPT ![s] =
                   Append(@, Transaction(<<"hour", h>>, -charge, account[s].balance))]
  BY DEF CommitAudit, ChargedRow
<1> HIDE DEF s, h
<1>5. LocksAreWork' /\ OrdersInOrder' /\ PaidStays
  BY <1>3, JobsAre, LedgerUnlocked, PurchasesStay, PaidUntouched
<1>6. /\ account' \in [Spaces -> {NoAccount} \cup Accounts] /\ BlockFollowsTheBalance'
      /\ entries' \in [Spaces -> Seq(Records)]
      /\ audited' \in [Spaces -> SUBSET ClockTimes]
      /\ CreditsAndChargesHappenOnce'
  <2>1. CASE UNCHANGED <<account, entries, audited>>
    BY <1>1, <1>5, <2>1, AccountsStay, EntriesUntouched, HappensOnce DEF LedgerTypes
  <2>2. CASE ~UNCHANGED <<account, entries, audited>>
    <3>1. PICK charge \in Charges :
            /\ account' = [account EXCEPT ![s] = ChargedRow(s, charge)]
            /\ entries' = [entries EXCEPT ![s] =
                 Append(@, Transaction(<<"hour", h>>, -charge, account[s].balance))]
      BY <1>4, <2>2
    <3> DEFINE e == Transaction(<<"hour", h>>, -charge, account[s].balance)
    <3>2. h \notin audited[s] /\ audited' = [audited EXCEPT ![s] = @ \cup {h}]
      BY <1>4, <2>2
    <3>3. charge \in Nat /\ account[s].balance \in Int
      BY <1>1, <1>2, CreditAssumption DEF LedgerTypes, Accounts, NoAccount
    <3>4. e \in Records /\ e.key = <<"hour", h>>
      BY <1>2, <3>3 DEF Transaction, Records, EntryKeys
    <3>5. entries' = [entries EXCEPT ![s] = Append(@, e)]
      BY <3>1
    <3> HIDE DEF e
    <3>6. account' \in [Spaces -> {NoAccount} \cup Accounts] /\ BlockFollowsTheBalance'
      BY <1>1, <1>2, <3>1, ChargedFits, AccountWritten
    <3>7. /\ entries' \in [Spaces -> Seq(Records)]
          /\ audited' \in [Spaces -> SUBSET ClockTimes]
      BY <1>1, <1>2, <3>2, <3>4, <3>5, OneMoreEntry DEF LedgerTypes
    <3>8. \A r \in Spaces : \A key :
            EntriesFor(r, key)' =
              IF r = s /\ e.key = key THEN EntriesFor(r, key) \cup {Len(entries[s]) + 1}
              ELSE EntriesFor(r, key)
      BY <1>1, <1>2, <3>4, <3>5, EntryAdded
    <3>9. ASSUME NEW r \in Spaces, NEW o \in Purchases
          PROVE  EntriesFor(r, <<"purchase", o>>)' = EntriesFor(r, <<"purchase", o>>)
      <4>1. e.key # <<"purchase", o>>
        BY <3>4
      <4> QED BY <3>8, <4>1
    <3>10. ASSUME NEW r \in Spaces, NEW g \in ClockTimes
           PROVE  Cardinality(EntriesFor(r, <<"hour", g>>)')
                    = (IF g \in audited'[r] THEN 1 ELSE 0)
      <4>1. Cardinality(EntriesFor(r, <<"hour", g>>))
              = (IF g \in audited[r] THEN 1 ELSE 0)
        BY DEF LedgerInv, CreditsAndChargesHappenOnce
      <4>2. CASE r = s /\ g = h
        <5>1. /\ IsFiniteSet(EntriesFor(r, <<"hour", g>>))
              /\ Len(entries[s]) + 1 \notin EntriesFor(r, <<"hour", g>>)
          BY <1>1, <4>2, FoundIsFinite
        <5>2. EntriesFor(r, <<"hour", g>>)'
                = EntriesFor(r, <<"hour", g>>) \cup {Len(entries[s]) + 1}
          BY <3>4, <3>8, <4>2
        <5>3. Cardinality(EntriesFor(r, <<"hour", g>>)')
                = Cardinality(EntriesFor(r, <<"hour", g>>)) + 1
          BY <5>1, <5>2, FS_AddElement
        <5>4. g \in audited'[r] /\ g \notin audited[r]
          BY <1>1, <1>2, <3>2, <4>2 DEF LedgerTypes
        <5> QED BY <4>1, <5>3, <5>4
      <4>3. CASE ~(r = s /\ g = h)
        <5>1. ~(r = s /\ e.key = <<"hour", g>>)
          BY <3>4, <4>3
        <5>2. EntriesFor(r, <<"hour", g>>)' = EntriesFor(r, <<"hour", g>>)
          BY <3>8, <5>1
        <5>3. g \in audited'[r] <=> g \in audited[r]
          BY <1>1, <1>2, <3>2, <4>3 DEF LedgerTypes
        <5> QED BY <4>1, <5>2, <5>3
      <4> QED BY <4>2, <4>3
    <3>11. CreditsAndChargesHappenOnce'
      BY <1>3, <3>9, <3>10 DEF LedgerInv, CreditsAndChargesHappenOnce
    <3> QED BY <3>6, <3>7, <3>11
  <2> QED BY <2>1, <2>2
<1>7. LedgerTypes'
  <2>1. work' \in [Workers -> Workings]
    BY <1>1, <1>3, JobsAre, OneWorks
  <2> QED BY <1>1, <1>3, <1>6, <2>1, LedgerUnlocked DEF LedgerTypes
<1> QED BY <1>5, <1>6, <1>7 DEF LedgerInv

(* An account in its grace has no balance left, and stays refused.              *)
LEMMA GraceEnds ==
  ASSUME LedgerInv, NEW s \in Spaces, account[s].state = "read_only_grace",
         account' = [account EXCEPT ![s].state = "delete_eligible"]
  PROVE  /\ account' \in [Spaces -> {NoAccount} \cup Accounts]
         /\ BlockFollowsTheBalance'
<1> DEFINE newRow == [account[s] EXCEPT !.state = "delete_eligible"]
<1>1. account[s] \in Accounts /\ account[s].balance <= 0
  <2>1. account[s] \in {NoAccount} \cup Accounts /\ account[s] # NoAccount
    BY DEF LedgerInv, LedgerTypes, NoAccount
  <2> QED BY <2>1 DEF LedgerInv, BlockFollowsTheBalance, OpenAccountOf, Blocking
<1>2. newRow \in Accounts /\ Fits(newRow)
  BY <1>1 DEF Accounts, Fits, BillingStates, Blocking
<1>3. account' = [account EXCEPT ![s] = newRow]
  OBVIOUS
<1> HIDE DEF newRow
<1> QED BY <1>2, <1>3, AccountWritten

LEMMA MarkedEligible ==
  ASSUME LedgerInv, NEW s \in Spaces, MarkDeleteEligible(s)
  PROVE  LedgerInv'
<1> USE DEF MarkDeleteEligible
<1>1. account' \in [Spaces -> {NoAccount} \cup Accounts] /\ BlockFollowsTheBalance'
  BY GraceEnds DEF GraceOver
<1>2. LedgerTypes'
  BY <1>1 DEF LedgerInv, LedgerTypes, held
<1>3. LocksAreWork' /\ OrdersInOrder'
  BY DEF LedgerInv, LocksAreWork, OrdersInOrder, OrderInOrder, AuditsFor, Settles, OrdersFor,
         Polls, held
<1>4. CreditsAndChargesHappenOnce'
  BY HappensOnce, EntriesUntouched, PaidUntouched
<1> QED BY <1>1, <1>2, <1>3, <1>4 DEF LedgerInv

LEMMA StateRead ==
  ASSUME LedgerInv, NEW p \in Workers, NEW s \in Spaces, ReadAccountState(p, s)
  PROVE  LedgerInv'
<1> USE DEF ReadAccountState
<1> DEFINE next == [kind |-> "refresh", space |-> s]
<1>1. next \in Workings /\ next.kind = "refresh" /\ Becomes(p, next)
  BY JobsAre DEF Refreshing
<1> HIDE DEF next
<1>2. LedgerTypes /\ work[p].kind = "rest"
  BY JobsAre DEF LedgerInv
<1>3. LedgerTypes'
  BY <1>1, <1>2, OneWorks DEF LedgerTypes, held, books
<1>4. LocksAreWork' /\ OrdersInOrder'
  BY <1>1, <1>2, LocksStay, PurchasesStay DEF books
<1>5. CreditsAndChargesHappenOnce' /\ BlockFollowsTheBalance'
  BY HappensOnce, PaidUntouched, EntriesUntouched, AccountsStay DEF books
<1> QED BY <1>3, <1>4, <1>5 DEF LedgerInv

LEMMA StateRefreshed ==
  ASSUME LedgerInv, NEW p \in Workers, RefreshAccountState(p)
  PROVE  LedgerInv'
<1> USE DEF RefreshAccountState
<1>1. LedgerTypes /\ work[p] \in Refreshing
  BY JobByKind DEF LedgerInv, LedgerTypes
<1>2. work[p].space \in Spaces
  BY <1>1 DEF Refreshing
<1>3. account' \in [Spaces -> {NoAccount} \cup Accounts] /\ BlockFollowsTheBalance'
  <2>1. CASE InGrace(work[p].space)
    BY <1>2, <2>1, GraceEnds DEF InGrace
  <2>2. CASE ~InGrace(work[p].space)
    BY <1>1, <2>2, AccountsStay DEF LedgerTypes
  <2> QED BY <2>1, <2>2
<1>4. LedgerTypes'
  BY <1>1, <1>3, JobsAre, OneWorks DEF LedgerTypes, held
<1>5. LocksAreWork' /\ OrdersInOrder'
  BY JobsAre, LocksStay, PurchasesStay
<1>6. CreditsAndChargesHappenOnce'
  BY HappensOnce, PaidUntouched, EntriesUntouched
<1> QED BY <1>3, <1>4, <1>5, <1>6 DEF LedgerInv

LEMMA Crashed ==
  ASSUME LedgerInv, NEW p \in Workers, Crash(p)
  PROVE  LedgerInv'
<1> USE DEF Crash, books
<1>1. LedgerTypes' 
  <2>1. crashes' \in 0 .. MaxCrashes
    BY CreditAssumption DEF LedgerInv, LedgerTypes
  <2> QED BY <2>1, JobsAre, OneWorks, LedgerUnlocked DEF LedgerInv, LedgerTypes
<1>2. LocksAreWork' /\ OrdersInOrder'
  BY JobsAre, LedgerUnlocked, PurchasesStay
<1>3. CreditsAndChargesHappenOnce' /\ BlockFollowsTheBalance'
  BY HappensOnce, PaidUntouched, EntriesUntouched, AccountsStay
<1> QED BY <1>1, <1>2, <1>3 DEF LedgerInv

(* Nothing but the clock.                                                       *)
LEMMA TimePasses ==
  ASSUME LedgerInv, clock' \in ClockTimes,
         UNCHANGED <<books, invoice, held, work, crashes>>
  PROVE  LedgerInv'
<1> USE DEF books, held
<1>1. LedgerTypes'
  BY DEF LedgerInv, LedgerTypes
<1>2. LocksAreWork' /\ OrdersInOrder'
  BY DEF LedgerInv, LocksAreWork, OrdersInOrder, OrderInOrder, AuditsFor, Settles, OrdersFor,
         Polls
<1>3. CreditsAndChargesHappenOnce' /\ BlockFollowsTheBalance'
  BY HappensOnce, PaidUntouched, EntriesUntouched, AccountsStay
<1> QED BY <1>1, <1>2, <1>3 DEF LedgerInv

--------------------------------------------------------------------------------
LEMMA LedgerBegins == CreditInit => LedgerInv
<1> SUFFICES ASSUME CreditInit PROVE LedgerInv
  OBVIOUS
<1> USE DEF CreditInit
<1>1. LedgerTypes
  BY CreditAssumption, JobsAre DEF LedgerTypes, ClockTimes, InvoiceRows, InvoiceStates
<1>2. LocksAreWork
  BY CreditAssumption, JobsAre DEF LocksAreWork, AuditsFor, Settles
<1>3. OrdersInOrder
  BY JobsAre DEF OrdersInOrder, OrderInOrder, OrdersFor, Polls, Settles
<1>4. CreditsAndChargesHappenOnce
  <2>1. \A s \in Spaces : \A key : EntriesFor(s, key) = {}
    BY DEF EntriesFor
  <2> QED BY <2>1, FS_EmptySet DEF CreditsAndChargesHappenOnce
<1>5. BlockFollowsTheBalance
  BY DEF BlockFollowsTheBalance, OpenAccountOf
<1> QED BY <1>1, <1>2, <1>3, <1>4, <1>5 DEF LedgerInv

LEMMA LedgerStep == LedgerInv /\ [CreditNext]_creditVars => LedgerInv'
<1> SUFFICES ASSUME LedgerInv, [CreditNext]_creditVars PROVE LedgerInv'
  OBVIOUS
<1>1. ASSUME NEW s \in Spaces, OpenWithWorkspace(s) \/ MarkDeleteEligible(s)
      PROVE  LedgerInv'
  BY <1>1, OpenedWithWorkspace, MarkedEligible
<1>2. ASSUME NEW o \in Purchases, InvoiceMoves(o)
      PROVE  LedgerInv'
  BY <1>2, InvoiceMoved
<1>3. ASSUME NEW p \in Workers, NEW s \in Spaces,
             OpenAccount(p, s) \/ ReadAccountState(p, s)
      PROVE  LedgerInv'
  BY <1>3, AccountOpened, StateRead
<1>4. ASSUME NEW p \in Workers, NEW s \in Spaces, NEW o \in Purchases,
             CreateInvoice(p, s, o)
      PROVE  LedgerInv'
  BY <1>4, InvoiceCreated
<1>5. ASSUME NEW p \in Workers, NEW s \in Spaces, NEW h \in ClockTimes,
             BeginAudit(p, s, h)
      PROVE  LedgerInv'
  BY <1>5, AuditBegun
<1>6. ASSUME NEW p \in Workers, NEW o \in Purchases, PollPurchase(p, o)
      PROVE  LedgerInv'
  BY <1>6, PurchasePolled
<1>7. ASSUME NEW p \in Workers, RecordGrant(p) \/ RecordPurchase(p) \/ PollUnpaid(p)
      PROVE  LedgerInv'
  BY <1>7, GrantRecorded, PurchaseRecorded, PolledUnpaid
<1>8. ASSUME NEW p \in Workers, BeginSettlement(p) \/ CommitSettlement(p)
      PROVE  LedgerInv'
  BY <1>8, SettlementBegun, SettlementCommitted
<1>9. ASSUME NEW p \in Workers, CommitAudit(p) \/ RefreshAccountState(p) \/ Crash(p)
      PROVE  LedgerInv'
  BY <1>9, AuditCommitted, StateRefreshed, Crashed
<1>10. ASSUME Tick
       PROVE  LedgerInv'
  <2>1. clock' \in ClockTimes
    BY <1>10, CreditAssumption DEF Tick, LedgerInv, LedgerTypes, ClockTimes
  <2> QED BY <1>10, <2>1, TimePasses DEF Tick
<1>11. ASSUME UNCHANGED creditVars
       PROVE  LedgerInv'
  BY <1>11, TimePasses DEF creditVars, LedgerInv, LedgerTypes
<1> QED BY <1>1, <1>2, <1>3, <1>4, <1>5, <1>6, <1>7, <1>8, <1>9, <1>10, <1>11
        DEF CreditNext

LEMMA LedgerInvariant == CreditSpec => []LedgerInv
BY LedgerBegins, LedgerStep, PTL DEF CreditSpec

(* The tables of the ledger hold what their columns allow, and a locked row is  *)
(* locked by the worker that works on it.                                       *)
THEOREM LedgerTyped == CreditSpec => []CreditTypeOK
<1>1. LedgerInv => CreditTypeOK
  <2> SUFFICES ASSUME LedgerInv PROVE CreditTypeOK
    OBVIOUS
  <2>1. LedgerTypes
    BY DEF LedgerInv
  <2>2. \A s \in Spaces : account[s] \in {NoAccount} \cup Accounts
    BY <2>1 DEF LedgerTypes
  <2>3. ASSUME NEW s \in Spaces, accountHeld[s] # NoWorker
        PROVE  work[accountHeld[s]].kind = "audit" /\ work[accountHeld[s]].space = s
    <3>1. accountHeld[s] \in Workers
      BY <2>1, <2>3 DEF LedgerTypes
    <3> QED BY <3>1 DEF LedgerInv, LocksAreWork, AuditsFor
  <2>4. ASSUME NEW o \in Purchases, purchaseHeld[o] # NoWorker
        PROVE  work[purchaseHeld[o]].kind = "settle" /\ work[purchaseHeld[o]].order = o
    <3>1. purchaseHeld[o] \in Workers
      BY <2>1, <2>4 DEF LedgerTypes
    <3> QED BY <3>1 DEF LedgerInv, LocksAreWork, Settles
  <2> QED BY <2>1, <2>2, <2>3, <2>4
          DEF LedgerTypes, CreditTypeOK, Accounts, Records, InvoiceRows, InvoiceStates
<1> QED BY LedgerInvariant, <1>1, PTL

(* However the polls, audits and crashes fall, an order is credited at most     *)
(* once, only if it was paid, and an hour is charged once.                      *)
THEOREM LedgerCountsOnce == CreditSpec => []CreditsAndChargesHappenOnce
<1>1. LedgerInv => CreditsAndChargesHappenOnce
  BY DEF LedgerInv
<1> QED BY LedgerInvariant, <1>1, PTL

(* A workspace is refused writes exactly when its balance is exhausted.         *)
THEOREM RefusedWhenExhausted == CreditSpec => []BlockFollowsTheBalance
<1>1. LedgerInv => BlockFollowsTheBalance
  BY DEF LedgerInv
<1> QED BY LedgerInvariant, <1>1, PTL

--------------------------------------------------------------------------------
(* The ledger, hosting credits and the inbox together: MCServices.              *)

(* What the three do together is what each does by itself, so that every        *)
(* theorem about one of them is a theorem about their composition.              *)
LEMMA ServicesAreAllThree == ServicesSpec => CreditSpec /\ HostingSpec /\ InboxSpec
<1>1. ServicesInit => CreditInit /\ HostingInit /\ InboxInit
  BY DEF ServicesInit
<1>2. [ServicesNext]_<<creditVars, hostingVars, inboxVars>>
        => [CreditNext]_creditVars /\ [HostingNext]_hostingVars /\ [InboxNext]_inboxVars
  BY DEF ServicesNext
<1> QED BY <1>1, <1>2, PTL DEF ServicesSpec, CreditSpec, HostingSpec, InboxSpec

(* In the composition the rows of all three have the types of their tables, and *)
(* a lock is held only by a request that is under way and works on that row.    *)
THEOREM ServicesTyped == ServicesSpec => []ServicesTypeOK
<1>1. CreditTypeOK /\ HostingTypeOK /\ InboxTypeOK => ServicesTypeOK
  BY DEF ServicesTypeOK
<1> QED BY <1>1, ServicesAreAllThree, LedgerTyped, HostingTyped, InboxTyped, PTL
================================================================================
