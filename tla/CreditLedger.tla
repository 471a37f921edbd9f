----------------------------- MODULE CreditLedger ------------------------------
(* The MB-hour credits of a workspace (billing.ts): an account opened with a    *)
(* grant, orders paid at an outside invoice service and settled when somebody   *)
(* polls them, an hourly charge, and the grace period of an exhausted account.  *)
(* A worker is a request or the audit job; the statements of one function are   *)
(* separate steps wherever another worker can run between them.                 *)
EXTENDS Integers, Sequences, SequencesExt

CONSTANTS
  Spaces, Purchases,   \* workspaces; orders, each for one of them
  Workers, NoWorker,
  Grant, Quantity,     \* credits of the opening grant and of an order
  Charges,             \* what an hour may cost
  Threshold, Grace,    \* low-balance mark; hours of grace
  MaxClock, MaxCrashes

ASSUME CreditAssumption ==
  /\ NoWorker \notin Workers
  /\ Grant \in Nat /\ Quantity \in Nat \ {0} /\ Charges \subseteq Nat
  /\ Threshold \in Nat /\ Grace \in Nat
  /\ MaxClock \in Nat /\ MaxCrashes \in Nat

VARIABLES
  clock,           \* hours
  account,         \* workspace -> its credit account
  entries,         \* workspace -> its transactions, oldest first
  audited,         \* workspace -> the hours that have an audit row
  purchase,        \* order -> the local row
  invoice,         \* order -> what the invoice service says
  accountHeld,     \* workspace -> the worker that locks the account row
  purchaseHeld,    \* order -> the worker that locks the order row
  work,            \* worker -> what it is in the middle of
  crashes

books == <<account, entries, audited, purchase>>
held == <<accountHeld, purchaseHeld>>
creditVars == <<clock, books, invoice, held, work, crashes>>

ClockTimes == 0 .. MaxClock
NotSet == -1
NoAccount == [balance |-> 0, state |-> "none", depleted |-> NotSet,
              deleteAt |-> NotSet]
BillingStates == {"active", "low_balance", "read_only_grace", "delete_eligible"}
Blocking == {"read_only_grace", "delete_eligible"}
Resting == [kind |-> "rest"]
OpenAccountOf(s) == account[s] # NoAccount

StateFor(balance) ==
  CASE balance <= 0 -> "read_only_grace"
    [] balance > 0 /\ balance <= Threshold -> "low_balance"
    [] OTHER -> "active"

Transaction(key, amount, before) ==
  [key |-> key, amount |-> amount, before |-> before]
EntryKeys == {<<"grant">>} \cup ({"purchase"} \X Purchases)
             \cup ({"hour"} \X ClockTimes)

CreditInit ==
  /\ clock = 0
  /\ account = [s \in Spaces |-> NoAccount]
  /\ entries = [s \in Spaces |-> <<>>]
  /\ audited = [s \in Spaces |-> {}]
  /\ purchase = [o \in Purchases |-> [space |-> NoWorker, status |-> "none"]]
  /\ invoice = [o \in Purchases |-> "none"]
  /\ accountHeld = [s \in Spaces |-> NoWorker]
  /\ purchaseHeld = [o \in Purchases |-> NoWorker]
  /\ work = [p \in Workers |-> Resting]
  /\ crashes = 0

Becomes(p, next) == work' = [work EXCEPT ![p] = next]

(* The rows a worker locked are free when its transaction ends, however.        *)
FreeOf(held1, p) == [x \in DOMAIN held1 |-> IF held1[x] = p THEN NoWorker ELSE held1[x]]
(* Mutant: the lock on the order stays. *)
LetsGoOfAccounts(p) == accountHeld' = FreeOf(accountHeld, p) /\ UNCHANGED purchaseHeld
LetsGo(p) ==
  accountHeld' = FreeOf(accountHeld, p) /\ purchaseHeld' = FreeOf(purchaseHeld, p)

--------------------------------------------------------------------------------
(* Opening an account.                                                          *)

NewAccount ==
  [balance |-> Grant, state |-> StateFor(Grant),
   depleted |-> IF Grant <= 0 THEN clock ELSE NotSet,
   deleteAt |-> IF Grant <= 0 THEN clock + Grace ELSE NotSet]
GrantEntries == IF Grant > 0 THEN <<Transaction(<<"grant">>, Grant, 0)>> ELSE <<>>

(* In the transaction that creates the workspace, both rows appear at once.     *)
OpenWithWorkspace(s) ==
  /\ ~OpenAccountOf(s)
  /\ account' = [account EXCEPT ![s] = NewAccount]
  /\ entries' = [entries EXCEPT ![s] = @ \o GrantEntries]
  /\ UNCHANGED <<clock, audited, purchase, invoice, held, work, crashes>>

(* For a workspace that has none yet, a request opens the account in a          *)
(* statement of its own and records the grant in the next.                      *)
OpenAccount(p, s) ==
  /\ work[p] = Resting /\ ~OpenAccountOf(s)
  /\ account' = [account EXCEPT ![s] = NewAccount]
  /\ Becomes(p, IF Grant > 0 THEN [kind |-> "grant", space |-> s] ELSE Resting)
  /\ UNCHANGED <<clock, entries, audited, purchase, invoice, held, crashes>>

RecordGrant(p) ==
  /\ work[p].kind = "grant"
  /\ entries' = [entries EXCEPT ![work[p].space] = @ \o GrantEntries]
  /\ Becomes(p, Resting)
  /\ UNCHANGED <<clock, account, audited, purchase, invoice, held, crashes>>

--------------------------------------------------------------------------------
(* Orders.                                                                      *)

(* The invoice is made outside before the local row is.                         *)
CreateInvoice(p, s, o) ==
  /\ work[p] = Resting /\ OpenAccountOf(s) /\ invoice[o] = "none"
  /\ \E status \in {"pending", "paid"} :
       /\ invoice' = [invoice EXCEPT ![o] = status]
       /\ Becomes(p, [kind |-> "order", space |-> s, order |-> o, status |-> status])
  /\ UNCHANGED <<clock, books, held, crashes>>

RecordPurchase(p) ==
  /\ work[p].kind = "order"
  /\ purchase' = [purchase EXCEPT
       ![work[p].order] = [space |-> work[p].space, status |-> work[p].status]]
  /\ Becomes(p, Resting)
  /\ UNCHANGED <<clock, account, entries, audited, invoice, held, crashes>>

InvoiceMoves(o) ==
  /\ invoice[o] = "pending"
  /\ \E status \in {"paid", "expired"} : invoice' = [invoice EXCEPT ![o] = status]
  /\ UNCHANGED <<clock, books, held, work, crashes>>

(* A poll reads the local row and the invoice, and only then locks.             *)
PollPurchase(p, o) ==
  /\ work[p] = Resting
  /\ purchase[o].status \notin {"none", "paid"}
  /\ Becomes(p, [kind |-> "poll", order |-> o, status |-> invoice[o]])
  /\ UNCHANGED <<clock, books, invoice, held, crashes>>

(* Mutant: the order is not read again under its lock. *)
UnsettledAnyway(o) == TRUE
Unsettled(o) == purchase[o].status # "paid"

(* Under the order's lock: paid already, or not paid yet.                       *)
PollUnpaid(p) ==
  /\ work[p].kind = "poll" /\ purchaseHeld[work[p].order] = NoWorker
  /\ LET o == work[p].order IN
       \/ ~Unsettled(o) /\ UNCHANGED purchase
       \/ /\ Unsettled(o) /\ work[p].status # "paid"
          /\ purchase' = [purchase EXCEPT ![o].status = work[p].status]
  /\ Becomes(p, Resting)
  /\ UNCHANGED <<clock, account, entries, audited, invoice, held, crashes>>

(* A paid one: the account is read as it is, without a lock on its row.         *)
BeginSettlement(p) ==
  /\ work[p].kind = "poll" /\ purchaseHeld[work[p].order] = NoWorker
  /\ LET o == work[p].order IN
       /\ Unsettled(o) /\ work[p].status = "paid"
       /\ purchaseHeld' = [purchaseHeld EXCEPT ![o] = p]
       /\ Becomes(p, [kind |-> "settle", order |-> o,
                      balance |-> account[purchase[o].space].balance])
  /\ UNCHANGED <<clock, books, invoice, accountHeld, crashes>>

CommitSettlement(p) ==
  /\ work[p].kind = "settle"
  /\ LET o == work[p].order
         s == purchase[o].space
         after == work[p].balance + Quantity
     IN /\ accountHeld[s] = NoWorker
        /\ account' = [account EXCEPT ![s] =
             [balance |-> after, state |-> StateFor(after), depleted |-> NotSet,
              deleteAt |-> NotSet]]
        /\ entries' = [entries EXCEPT ![s] =
             Append(@, Transaction(<<"purchase", o>>, Quantity, work[p].balance))]
        /\ purchase' = [purchase EXCEPT ![o].status = "paid"]
        /\ LetsGo(p)
  /\ Becomes(p, Resting)
  /\ UNCHANGED <<clock, audited, invoice, crashes>>

--------------------------------------------------------------------------------
(* The hourly charge.                                                           *)

BeginAudit(p, s, h) ==
  /\ work[p] = Resting /\ h <= clock
  /\ accountHeld[s] = NoWorker
  /\ IF OpenAccountOf(s) THEN UNCHANGED <<account, entries>>
     ELSE /\ account' = [account EXCEPT ![s] = NewAccount]
          /\ entries' = [entries EXCEPT ![s] = @ \o GrantEntries]
  /\ accountHeld' = [accountHeld EXCEPT ![s] = p]
  /\ Becomes(p, [kind |-> "audit", space |-> s, hour |-> h])
  /\ UNCHANGED <<clock, audited, purchase, invoice, purchaseHeld, crashes>>

(* The row read is the row now: it is locked.  An hour that has its row is left *)
(* alone; otherwise it is charged and the grace period starts, goes on or ends. *)
CommitAudit(p) ==
  /\ work[p].kind = "audit"
  /\ LET s == work[p].space
         h == work[p].hour
         old == account[s]
     IN /\ \/ h \in audited[s] /\ UNCHANGED <<account, entries, audited>>
           \/ /\ h \notin audited[s]
              /\ audited' = [audited EXCEPT ![s] = @ \cup {h}]
              /\ \E charge \in Charges :
                   LET after == old.balance - charge
                       since == IF old.depleted = NotSet THEN clock ELSE old.depleted
                       due == IF old.deleteAt = NotSet THEN since + Grace
                              ELSE old.deleteAt
                   IN /\ account' = [account EXCEPT ![s] =
                           [balance |-> after, state |-> StateFor(after),
                            depleted |-> IF after <= 0 THEN since ELSE NotSet,
                            deleteAt |-> IF after <= 0 THEN due ELSE NotSet]]
                      /\ entries' = [entries EXCEPT ![s] =
                           Append(@, Transaction(<<"hour", h>>, -charge, old.balance))]
        /\ LetsGo(p)
  /\ Becomes(p, Resting)
  /\ UNCHANGED <<clock, purchase, invoice, crashes>>

--------------------------------------------------------------------------------
(* The end of the grace period.                                                 *)

GraceOver(s) ==
  /\ account[s].state = "read_only_grace"
  /\ account[s].deleteAt # NotSet /\ account[s].deleteAt <= clock

MarkDeleteEligible(s) ==
  /\ GraceOver(s) /\ accountHeld[s] = NoWorker
  /\ account' = [account EXCEPT ![s].state = "delete_eligible"]
  /\ UNCHANGED <<clock, entries, audited, purchase, invoice, held, work, crashes>>

(* Every write and every status read looks at the account first, and updates it *)
(* in a second statement that only checks the state again.                      *)
ReadAccountState(p, s) ==
  /\ work[p] = Resting /\ GraceOver(s)
  /\ Becomes(p, [kind |-> "refresh", space |-> s])
  /\ UNCHANGED <<clock, books, invoice, held, crashes>>

(* Mutant: the second statement does not check the state. *)
InGraceBefore(s) == TRUE
InGrace(s) == account[s].state = "read_only_grace"

RefreshAccountState(p) ==
  /\ work[p].kind = "refresh"
  /\ LET s == work[p].space IN
       /\ accountHeld[s] = NoWorker
       /\ account' = IF InGrace(s) THEN [account EXCEPT ![s].state = "delete_eligible"]
                     ELSE account
  /\ Becomes(p, Resting)
  /\ UNCHANGED <<clock, entries, audited, purchase, invoice, held, crashes>>

--------------------------------------------------------------------------------
Crash(p) ==
  /\ work[p] # Resting /\ crashes < MaxCrashes
  /\ crashes' = crashes + 1
  /\ LetsGo(p)
  /\ Becomes(p, Resting)
  /\ UNCHANGED <<clock, books, invoice>>

Tick ==
  /\ clock < MaxClock /\ clock' = clock + 1
  /\ UNCHANGED <<books, invoice, held, work, crashes>>

CreditNext ==
  \/ \E s \in Spaces : OpenWithWorkspace(s) \/ MarkDeleteEligible(s)
  \/ \E o \in Purchases : InvoiceMoves(o)
  \/ \E p \in Workers :
       \/ \E s \in Spaces :
            \/ OpenAccount(p, s) \/ ReadAccountState(p, s)
            \/ \E o \in Purchases : CreateInvoice(p, s, o)
            \/ \E h \in ClockTimes : BeginAudit(p, s, h)
       \/ \E o \in Purchases : PollPurchase(p, o)
       \/ RecordGrant(p) \/ RecordPurchase(p) \/ PollUnpaid(p) \/ BeginSettlement(p)
       \/ CommitSettlement(p) \/ CommitAudit(p) \/ RefreshAccountState(p) \/ Crash(p)
  \/ Tick

CreditSpec == CreditInit /\ [][CreditNext]_creditVars

--------------------------------------------------------------------------------
(* Properties.                                                                  *)

CreditTypeOK ==
  /\ clock \in ClockTimes /\ crashes \in 0 .. MaxCrashes
  /\ \A s \in Spaces : account[s] \in {NoAccount} \cup
       [balance : Int, state : BillingStates, depleted : ClockTimes \cup {NotSet},
        deleteAt : 0 .. MaxClock + Grace \cup {NotSet}]
  /\ entries \in [Spaces -> Seq([key : EntryKeys, amount : Int, before : Int])]
  /\ audited \in [Spaces -> SUBSET ClockTimes]
  /\ purchase \in [Purchases -> [space : Spaces \cup {NoWorker},
       status : {"none", "pending", "paid", "expired"}]]
  /\ invoice \in [Purchases -> {"none", "pending", "paid", "expired"}]
  /\ accountHeld \in [Spaces -> Workers \cup {NoWorker}]
  /\ purchaseHeld \in [Purchases -> Workers \cup {NoWorker}]
  /\ DOMAIN work = Workers
  /\ \A s \in Spaces : accountHeld[s] # NoWorker =>
       LET doing == work[accountHeld[s]] IN doing.kind = "audit" /\ doing.space = s
  /\ \A o \in Purchases : purchaseHeld[o] # NoWorker =>
       LET doing == work[purchaseHeld[o]] IN doing.kind = "settle" /\ doing.order = o

EntriesFor(s, key) == {i \in 1 .. Len(entries[s]) : entries[s][i].key = key}

(* However often an order is polled and an hour is audited, and whatever        *)
(* crashed in between, the order is credited at most once and only if the       *)
(* invoice was paid, and the hour is charged exactly once if it has its row.    *)
CreditsAndChargesHappenOnce ==
  \A s \in Spaces :
    /\ \A o \in Purchases :
         LET found == EntriesFor(s, <<"purchase", o>>) IN
         found # {} => /\ Cardinality(found) = 1
                       /\ purchase[o] = [space |-> s, status |-> "paid"]
                       /\ invoice[o] = "paid"
    /\ \A h \in ClockTimes :
         Cardinality(EntriesFor(s, <<"hour", h>>)) = (IF h \in audited[s] THEN 1 ELSE 0)

(* Writing is refused exactly when the balance is exhausted, whichever of the   *)
(* charge, the settlement and the two grace checks wrote the row last.          *)
BlockFollowsTheBalance ==
  \A s \in Spaces : OpenAccountOf(s) =>
    (account[s].balance <= 0 <=> account[s].state \in Blocking)

(* docs/commercialisation.md: the transactions are the authoritative ledger and *)
(* the balance is their cached total.                                           *)
BalanceIsTheTotal ==
  \A s \in Spaces :
    (\A p \in Workers : work[p].kind # "grant") =>
      account[s].balance = FoldLeft(LAMBDA sum, e : sum + e.amount, 0, entries[s])
================================================================================
