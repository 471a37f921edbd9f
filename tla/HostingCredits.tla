---------------------------- MODULE HostingCredits -----------------------------
(* The USD prepaid balance of a hosting customer (hosting-billing.ts,           *)
(* hosting-stripe.ts): grants, Stripe checkouts and the hourly meter move one   *)
(* balance under its row lock, and the meter's tick may be interrupted, delayed *)
(* past its hour or run twice.  Time is counted in half hours so that a meter   *)
(* reading can be taken in another hour than the one it was meant for; amounts  *)
(* are small numbers in place of tariff units.  A request is a transaction: it  *)
(* waits for row locks, reads the row once it has it, and commits or aborts.    *)
EXTENDS Integers, Sequences, FiniteSetsExt

CONSTANTS
  Customers, Workspaces, Orders, GrantKeys,
  Clients,       \* connections serving grants, checkouts and webhooks
  Towers,        \* replicas, each running the meter's tick
  Nobody,
  Welcome,       \* the welcome credit
  PromoLife,     \* half hours until it expires
  Amounts,       \* what a grant may add
  Price,         \* what an order adds
  Readings,      \* the bytes a complete sample may show
  Batch,         \* hours of one workspace that one tick records
  MaxTime, MaxAsked, MaxFaults

ASSUME HostingAssumption ==
  /\ Clients \cap Towers = {} /\ Nobody \notin Clients \cup Towers
  /\ Nobody \notin Customers
  /\ Welcome \in Nat \ {0} /\ PromoLife \in Nat /\ Price \in Nat \ {0}
  /\ Amounts \subseteq Nat \ {0} /\ Readings \subseteq Nat
  /\ Batch \in Nat \ {0} /\ MaxTime \in Nat
  /\ MaxAsked \in Nat /\ MaxFaults \in Nat

VARIABLES
  now,
  paid, promo, expires, depleted,   \* the row of each customer
  ledger,                           \* its immutable entries
  link, enabled,                    \* workspace -> customer, and since when
  hours,                            \* workspace -> evidence of its metered hours
  order, session,                   \* checkout orders; their sessions at Stripe
  accountLock, orderLock,           \* row -> the process that has it
  req, row,                         \* process -> its request; the row it read
  tick, singleton,                  \* replica -> its tick; the advisory lock
  asked, faults                     \* grants and checkouts asked for; faults spent

money == <<paid, promo, expires, depleted, ledger>>
enrolment == <<link, enabled>>
payments == <<order, session>>
locks == <<accountLock, orderLock>>
meter == <<tick, singleton>>
hostingVars ==
  <<now, money, enrolment, hours, payments, locks, req, row, meter, asked, faults>>

Procs == Clients \cup Towers
Never == -1
Unread == [paid |-> 0, promo |-> -1]
Idle == [kind |-> "idle"]
Unavailable == -1
Time == 0 .. MaxTime
HourOf(t) == t \div 2
Hours == 0 .. HourOf(MaxTime)
Statuses == {"charged", "unavailable", "missed", "partial_hour"}

NoHour == [status |-> "none", debit |-> 0, sampled |-> Never]
Evidence(status, debit, sampled) ==
  [status |-> status, debit |-> debit, sampled |-> sampled]

Keys == {<<"welcome">>, <<"expiry">>} \cup ({"admin"} \X GrantKeys)
        \cup ({"stripe"} \X Orders) \cup ({"usage"} \X Workspaces \X Hours)

Opened(c) == ledger[c] # <<>>
HasEntry(c, key) == \E i \in 1 .. Len(ledger[c]) : ledger[c][i].key = key
Entry(key, amount, paidAfter, promoAfter) ==
  [key |-> key, amount |-> amount, paid |-> paidAfter, promo |-> promoAfter]

(* A sample is the bytes read and the hour they were read in; a request without *)
(* one carries NoSample.                                                        *)
NoSample == [hour |-> Never, bytes |-> Unavailable]
Samples == [hour : Hours \cup {Never}, bytes : Readings \cup {Unavailable}]

Grants == [kind : {"grant"}, account : Customers, key : GrantKeys,
           amount : Amounts, at : Time]
Checkouts == [kind : {"checkout", "session", "bind"}, account : Customers,
              order : Orders]
Fulfilments == [kind : {"fulfil"}, account : Customers, order : Orders, at : Time]
Audits == [kind : {"audit"}, account : Customers, w : Workspaces, hour : Hours,
           sample : Samples, at : Time]
Requests == {Idle} \cup Grants \cup Checkouts \cup Fulfilments \cup Audits

(* A tick: the time it started, the workspaces it has still to visit with the   *)
(* first hour to record in each, and its place in the one it is at.             *)
NoTick == [at |-> Never, rest |-> {}, w |-> Nobody, next |-> 0, left |-> 0]

(* Empty tables at a given time, with so many requests and faults used up.      *)
HostingStart(time, used, failed) ==
  /\ now = time /\ asked = used
  /\ paid = [c \in Customers |-> 0] /\ promo = [c \in Customers |-> 0]
  /\ expires = [c \in Customers |-> 0] /\ depleted = [c \in Customers |-> Never]
  /\ ledger = [c \in Customers |-> <<>>]
  /\ link = [w \in Workspaces |-> Nobody] /\ enabled = [w \in Workspaces |-> 0]
  /\ hours = [w \in Workspaces |-> [h \in Hours |-> NoHour]]
  /\ order = [o \in Orders |->
                [account |-> Nobody, session |-> FALSE, fulfilled |-> FALSE]]
  /\ session = [o \in Orders |-> "none"]
  /\ accountLock = [c \in Customers |-> Nobody]
  /\ orderLock = [o \in Orders |-> Nobody]
  /\ req = [p \in Procs |-> Idle]
  /\ row = [p \in Procs |-> Unread]
  /\ tick = [t \in Towers |-> NoTick]
  /\ singleton = Nobody /\ faults = failed
HostingInit == HostingStart(0, 0, 0)

--------------------------------------------------------------------------------
(* Rows and locks.                                                              *)

HasAccount(p) == row[p] # Unread
HasOrder(p) == req[p].kind \in {"checkout", "fulfil"} /\ orderLock[req[p].order] = p

WantsAccount(p) ==
  /\ req[p].kind \in {"grant", "audit", "checkout"}
     \/ (req[p].kind = "fulfil" /\ HasOrder(p))
  /\ ~HasAccount(p)
WantsOrder(p) ==
  /\ req[p].kind = "fulfil" \/ (req[p].kind = "checkout" /\ HasAccount(p))
  /\ ~HasOrder(p)

(* SELECT ... FOR UPDATE of the customer's row: the reads that follow see it.   *)
TakesAccount(p) ==
  /\ WantsAccount(p)
  /\ LET c == req[p].account IN
       /\ accountLock' = [accountLock EXCEPT ![c] = p]
       /\ row' = [row EXCEPT ![p] = [paid |-> paid[c], promo |-> promo[c]]]
  /\ UNCHANGED <<now, money, enrolment, hours, payments, orderLock, req, meter,
                 asked, faults>>

(* Mutant: the row is read without FOR UPDATE. *)
ReadAccount(p) == TakesAccount(p)
LockAccount(p) ==
  WantsAccount(p) /\ accountLock[req[p].account] = Nobody /\ TakesAccount(p)

LockOrder(p) ==
  /\ WantsOrder(p)
  /\ orderLock[req[p].order] = Nobody
  /\ orderLock' = [orderLock EXCEPT ![req[p].order] = p]
  /\ UNCHANGED <<now, money, enrolment, hours, payments, accountLock, req, row,
                 meter, asked, faults>>

Release(p) ==
  /\ accountLock' = [c \in Customers |-> IF accountLock[c] = p THEN Nobody
                                         ELSE accountLock[c]]
  /\ orderLock' = [o \in Orders |-> IF orderLock[o] = p THEN Nobody
                                    ELSE orderLock[o]]

Ends(p) ==
  /\ Release(p)
  /\ req' = [req EXCEPT ![p] = Idle] /\ row' = [row EXCEPT ![p] = Unread]

(* The credit that has run out by the request's own clock is written off by     *)
(* whoever locks the row first.                                                 *)
Lapsed(p) == expires[req[p].account] <= req[p].at /\ row[p].promo > 0
LapseEntry(p) ==
  IF Lapsed(p) /\ ~HasEntry(req[p].account, <<"expiry">>)
  THEN <<Entry(<<"expiry">>, -row[p].promo, row[p].paid, 0)>> ELSE <<>>
PromoLeft(p) == IF Lapsed(p) THEN 0 ELSE row[p].promo

Writes(c, newPaid, newPromo, newDepleted, entries) ==
  /\ paid' = [paid EXCEPT ![c] = newPaid]
  /\ promo' = [promo EXCEPT ![c] = newPromo]
  /\ depleted' = [depleted EXCEPT ![c] = newDepleted]
  /\ ledger' = [ledger EXCEPT ![c] = @ \o entries]
  /\ UNCHANGED expires

OnlyLapses(p) ==
  Writes(req[p].account, row[p].paid, PromoLeft(p), depleted[req[p].account],
         LapseEntry(p))

(* Since when an account is exhausted: not at all if it now has money.          *)
(* Mutant: the mark is left when money arrives. *)
ExhaustedStill(total, since) == since
Exhausted(total, since) == IF total > 0 THEN Never ELSE since

GraceSince(c, at) == IF depleted[c] = Never THEN at ELSE depleted[c]

(* New money: the paid balance grows and an exhausted customer is let write     *)
(* again if that makes the balance positive.                                    *)
Credits(p, amount, key) ==
  LET c == req[p].account
      newPaid == row[p].paid + amount
  IN Writes(c, newPaid, PromoLeft(p),
            Exhausted(newPaid + PromoLeft(p), depleted[c]),
            LapseEntry(p) \o <<Entry(key, amount, newPaid, PromoLeft(p))>>)

--------------------------------------------------------------------------------
(* Enrolment, inside the transaction that creates the workspace.                *)

LinkHostedAccount(w, c) ==
  /\ link[w] = Nobody
  /\ accountLock[c] = Nobody
  /\ link' = [link EXCEPT ![w] = c]
  /\ enabled' = [enabled EXCEPT ![w] = now]
  /\ \/ Opened(c) /\ UNCHANGED money
     \/ /\ ~Opened(c)
        /\ promo' = [promo EXCEPT ![c] = Welcome]
        /\ expires' = [expires EXCEPT ![c] = now + PromoLife]
        /\ ledger' = [ledger EXCEPT
             ![c] = <<Entry(<<"welcome">>, Welcome, 0, Welcome)>>]
        /\ UNCHANGED <<paid, depleted>>
  /\ UNCHANGED <<now, hours, payments, locks, req, row, meter, asked, faults>>

--------------------------------------------------------------------------------
(* Grants.                                                                      *)

AskGrant(p, c, k, amount) ==
  /\ req[p] = Idle /\ Opened(c) /\ asked < MaxAsked
  /\ req' = [req EXCEPT ![p] = [kind |-> "grant", account |-> c, key |-> k,
                                amount |-> amount, at |-> now]]
  /\ asked' = asked + 1
  /\ UNCHANGED <<now, money, enrolment, hours, payments, locks, row, meter, faults>>

(* A key used before returns its entry, or conflicts with another amount and    *)
(* undoes the write-off too; a new one credits the paid balance.                *)
GrantHostingCredit(p) ==
  /\ req[p].kind = "grant" /\ HasAccount(p)
  /\ LET c == req[p].account
         key == <<"admin", req[p].key>>
         amount == req[p].amount
         prior == {i \in 1 .. Len(ledger[c]) : ledger[c][i].key = key}
     IN \/ prior = {} /\ Credits(p, amount, key)
        \/ (\E i \in prior : ledger[c][i].amount = amount) /\ OnlyLapses(p)
        \/ (\E i \in prior : ledger[c][i].amount # amount) /\ UNCHANGED money
  /\ Ends(p)
  /\ UNCHANGED <<now, enrolment, hours, payments, meter, asked, faults>>

--------------------------------------------------------------------------------
(* Checkouts.  The order is inserted or found under both locks; the session is  *)
(* made at Stripe after the commit and bound by a third write.                  *)

(* An order is named by its customer and the key they sent, so no two customers *)
(* ask for the same one.                                                        *)
OrderIsOf(o, c) ==
  /\ order[o].account \in {Nobody, c}
  /\ \A q \in Clients : req[q].kind \in {"checkout", "session", "bind"}
                         /\ req[q].order = o => req[q].account = c

AskCheckout(p, c, o) ==
  /\ req[p] = Idle /\ Opened(c) /\ asked < MaxAsked
  /\ OrderIsOf(o, c)
  /\ req' = [req EXCEPT ![p] = [kind |-> "checkout", account |-> c, order |-> o]]
  /\ asked' = asked + 1
  /\ UNCHANGED <<now, money, enrolment, hours, payments, locks, row, meter, faults>>

CreateHostingCheckout(p) ==
  /\ req[p].kind = "checkout" /\ HasAccount(p) /\ HasOrder(p)
  /\ order' = [order EXCEPT ![req[p].order].account = req[p].account]
  /\ Release(p)
  /\ req' = [req EXCEPT ![p].kind = "session"] /\ row' = [row EXCEPT ![p] = Unread]
  /\ UNCHANGED <<now, money, enrolment, hours, session, meter, asked, faults>>

(* Stripe answers a repeated create with the session it made the first time.    *)
CreateSession(p) ==
  /\ req[p].kind = "session"
  /\ session' = [session EXCEPT ![req[p].order] = IF @ = "none" THEN "open" ELSE @]
  /\ req' = [req EXCEPT ![p].kind = "bind"]
  /\ UNCHANGED <<now, money, enrolment, hours, order, locks, row, meter, asked, faults>>

BindSession(p) ==
  /\ req[p].kind = "bind"
  /\ orderLock[req[p].order] = Nobody
  /\ order' = [order EXCEPT ![req[p].order].session = TRUE]
  /\ req' = [req EXCEPT ![p] = Idle]
  /\ UNCHANGED <<now, money, enrolment, hours, session, locks, row, meter, asked,
                 faults>>

Pay(o) ==
  /\ session[o] = "open"
  /\ session' = [session EXCEPT ![o] = "paid"]
  /\ UNCHANGED <<now, money, enrolment, hours, order, locks, req, row, meter, asked,
                 faults>>

(* Stripe's event, delivered again until it is answered and in any order; the   *)
(* server reads the session's state itself.                                     *)
(* Mutant: only an order whose session was bound is looked for. *)
ToFulfilBound(o) == session[o] = "paid" /\ order[o].session
ToFulfil(o) == session[o] = "paid"

ReceiveWebhook(p, o) ==
  /\ req[p] = Idle /\ ToFulfil(o)
  /\ req' = [req EXCEPT ![p] = [kind |-> "fulfil", account |-> order[o].account,
                                order |-> o, at |-> now]]
  /\ UNCHANGED <<now, money, enrolment, hours, payments, locks, row, meter, asked,
                 faults>>

FulfilDuplicate(p) ==
  /\ req[p].kind = "fulfil" /\ HasOrder(p)
  /\ order[req[p].order].fulfilled
  /\ Ends(p)
  /\ UNCHANGED <<now, money, enrolment, hours, payments, meter, asked, faults>>

FulfillHostingCheckout(p) ==
  /\ req[p].kind = "fulfil" /\ HasOrder(p) /\ HasAccount(p)
  /\ LET o == req[p].order IN
       /\ ~order[o].fulfilled
       /\ order' = [order EXCEPT ![o].session = TRUE, ![o].fulfilled = TRUE]
       /\ Credits(p, Price, <<"stripe", o>>)
  /\ Ends(p)
  /\ UNCHANGED <<now, enrolment, hours, session, meter, asked, faults>>
--------------------------------------------------------------------------------
(* The meter.                                                                   *)

FirstHour(w) == HourOf(enabled[w])
Recorded(w) == {h \in Hours : hours[w][h] # NoHour}
(* Mutant: a workspace with no evidence yet starts at the current hour. *)
NextHourFromNow(w) == IF Recorded(w) = {} THEN HourOf(now) ELSE Max(Recorded(w)) + 1
(* Mutant: every tick starts at the enrolment. *)
NextHourFromFirst(w) == FirstHour(w)
NextHour(w) == IF Recorded(w) = {} THEN FirstHour(w) ELSE Max(Recorded(w)) + 1
Links == {w \in Workspaces : link[w] # Nobody}
Visited(t) == tick[t].next > HourOf(tick[t].at) \/ tick[t].left = 0

(* One tick at a time across replicas, as long as the advisory lock's session   *)
(* lives; where each workspace resumes is read once, at the start.              *)
StartTick(t) ==
  /\ tick[t] = NoTick /\ singleton = Nobody
  /\ singleton' = t
  /\ tick' = [tick EXCEPT ![t] =
       [NoTick EXCEPT !.at = now,
                      !.rest = {[w |-> w, start |-> NextHour(w)] : w \in Links}]]
  /\ UNCHANGED <<now, money, enrolment, hours, payments, locks, req, row, asked,
                 faults>>

VisitWorkspace(t) ==
  /\ tick[t] # NoTick /\ req[t] = Idle /\ Visited(t)
  /\ \E item \in tick[t].rest :
       tick' = [tick EXCEPT ![t].rest = @ \ {item}, ![t].w = item.w,
                            ![t].next = item.start, ![t].left = Batch]
  /\ UNCHANGED <<now, money, enrolment, hours, payments, locks, req, row, singleton,
                 asked, faults>>

(* Only the hour the tick started in is sampled, and the sample carries the     *)
(* hour it is really taken in.                                                  *)
MeterHour(t) ==
  /\ tick[t] # NoTick /\ req[t] = Idle /\ ~Visited(t)
  /\ \E bytes \in Readings \cup {Unavailable} :
       LET h == tick[t].next
           current == h = HourOf(tick[t].at)
       IN /\ current \/ bytes = Unavailable
          /\ req' = [req EXCEPT ![t] =
               [kind |-> "audit", account |-> link[tick[t].w], w |-> tick[t].w,
                hour |-> h, at |-> tick[t].at,
                sample |-> IF current THEN [hour |-> HourOf(now), bytes |-> bytes]
                           ELSE NoSample]]
  /\ tick' = [tick EXCEPT ![t].next = @ + 1, ![t].left = @ - 1]
  /\ UNCHANGED <<now, money, enrolment, hours, payments, locks, row, singleton, asked,
                 faults>>

(* Mutant: the hour the sample was taken in is not looked at. *)
BytesOfAnyHour(r) == r.sample.bytes
Bytes(r) == IF r.sample.hour = r.hour THEN r.sample.bytes ELSE Unavailable

AuditStatus(r) ==
  CASE 2 * r.hour < enabled[r.w] -> "partial_hour"
    [] 2 * r.hour >= enabled[r.w] /\ r.hour # HourOf(r.at) -> "missed"
    [] OTHER -> IF Bytes(r) = Unavailable THEN "unavailable" ELSE "charged"

(* An hour already on record, or before the enrolment, is left as it is; the    *)
(* others get their row, and a complete reading of the current hour is paid     *)
(* from the promotion first.                                                    *)
AuditHostingHour(p) ==
  /\ req[p].kind = "audit" /\ HasAccount(p)
  /\ LET r == req[p]
         c == r.account
         status == AuditStatus(r)
         debit == IF status = "charged" THEN Bytes(r) ELSE 0
         fromPromo == IF debit < PromoLeft(p) THEN debit ELSE PromoLeft(p)
         newPromo == PromoLeft(p) - fromPromo
         newPaid == row[p].paid - (debit - fromPromo)
         entry == Entry(<<"usage", r.w, r.hour>>, -debit, newPaid, newPromo)
     IN \/ /\ hours[r.w][r.hour] # NoHour \/ r.hour < FirstHour(r.w)
           /\ OnlyLapses(p)
           /\ UNCHANGED hours
        \/ /\ hours[r.w][r.hour] = NoHour /\ r.hour >= FirstHour(r.w)
           /\ hours' = [hours EXCEPT
                ![r.w][r.hour] = Evidence(status, debit, r.sample.hour)]
           /\ \/ status # "charged" /\ OnlyLapses(p)
              \/ /\ status = "charged"
                 /\ Writes(c, newPaid, newPromo,
                           Exhausted(newPaid + newPromo, GraceSince(c, r.at)),
                           LapseEntry(p) \o (IF debit > 0 THEN <<entry>> ELSE <<>>))
  /\ Ends(p)
  /\ UNCHANGED <<now, enrolment, payments, meter, asked, faults>>

Quits(t) ==
  /\ tick' = [tick EXCEPT ![t] = NoTick]
  /\ singleton' = IF singleton = t THEN Nobody ELSE singleton

EndTick(t) ==
  /\ tick[t] # NoTick /\ req[t] = Idle /\ Visited(t) /\ tick[t].rest = {}
  /\ Quits(t)
  /\ UNCHANGED <<now, money, enrolment, hours, payments, locks, req, row, asked,
                 faults>>

--------------------------------------------------------------------------------
(* What goes wrong, and time.                                                   *)

(* A transaction that fails, or whose process dies, is undone and frees its     *)
(* rows; a tick whose audit fails ends, and so does that of a replica that dies *)
(* between two audits.                                                          *)
Undo(p) ==
  /\ Ends(p)
  /\ IF p \in Towers THEN Quits(p) ELSE UNCHANGED meter
  /\ UNCHANGED <<now, money, enrolment, hours, payments, asked>>

Abort(p) ==
  /\ req[p] # Idle \/ (p \in Towers /\ tick[p] # NoTick)
  /\ faults < MaxFaults /\ faults' = faults + 1
  /\ Undo(p)

(* Two requests wait for each other's row: a checkout takes the customer before *)
(* the order, a fulfilment the order before the customer.  The database ends    *)
(* one of them.                                                                 *)
WaitsFor(p, q) ==
  \/ WantsAccount(p) /\ accountLock[req[p].account] = q
  \/ WantsOrder(p) /\ orderLock[req[p].order] = q
DeadlockVictim(p) ==
  /\ \E q \in Procs \ {p} : WaitsFor(p, q) /\ WaitsFor(q, p)
  /\ Undo(p)
  /\ UNCHANGED faults

(* The connection that holds the advisory lock is lost while its tick goes on.  *)
LoseSession(t) ==
  /\ singleton = t /\ faults < MaxFaults
  /\ singleton' = Nobody /\ faults' = faults + 1
  /\ UNCHANGED <<now, money, enrolment, hours, payments, locks, req, row, tick, asked>>

Advance ==
  /\ now < MaxTime
  /\ now' = now + 1
  /\ UNCHANGED <<money, enrolment, hours, payments, locks, req, row, meter, asked,
                 faults>>

HostingNext ==
  \/ \E w \in Workspaces, c \in Customers : LinkHostedAccount(w, c)
  \/ \E p \in Clients, c \in Customers :
       \/ \E k \in GrantKeys, amount \in Amounts : AskGrant(p, c, k, amount)
       \/ \E o \in Orders : AskCheckout(p, c, o)
  \/ \E p \in Procs : LockAccount(p) \/ LockOrder(p) \/ Abort(p) \/ DeadlockVictim(p)
  \/ \E p \in Clients : GrantHostingCredit(p) \/ CreateHostingCheckout(p)
                        \/ CreateSession(p) \/ BindSession(p)
                        \/ FulfilDuplicate(p) \/ FulfillHostingCheckout(p)
  \/ \E o \in Orders : Pay(o) \/ (\E p \in Clients : ReceiveWebhook(p, o))
  \/ \E t \in Towers : StartTick(t) \/ VisitWorkspace(t) \/ MeterHour(t)
                       \/ AuditHostingHour(t) \/ EndTick(t) \/ LoseSession(t)
  \/ Advance

HostingSpec == HostingInit /\ [][HostingNext]_hostingVars

(* A request that was begun goes on, the database grants a row to the requests  *)
(* that wait for it in turn, each replica's timer starts a tick again, Stripe   *)
(* sends the event of a paid session until it is answered, and time passes.     *)
HostingFairness ==
  /\ \A p \in Procs :
       /\ SF_hostingVars(LockAccount(p)) /\ SF_hostingVars(LockOrder(p))
       /\ WF_hostingVars(DeadlockVictim(p))
       /\ WF_hostingVars(GrantHostingCredit(p) \/ CreateHostingCheckout(p)
                         \/ CreateSession(p) \/ FulfilDuplicate(p)
                         \/ FulfillHostingCheckout(p) \/ AuditHostingHour(p))
       /\ SF_hostingVars(BindSession(p))
  /\ \A t \in Towers : WF_hostingVars(VisitWorkspace(t) \/ MeterHour(t) \/ EndTick(t))
  /\ WF_hostingVars(\E t \in Towers : StartTick(t))
  /\ \A o \in Orders : SF_hostingVars(\E p \in Clients : ReceiveWebhook(p, o))
  /\ WF_hostingVars(Advance)

HostingFairSpec == HostingSpec /\ HostingFairness

--------------------------------------------------------------------------------
(* Properties.                                                                  *)

HostingTypeOK ==
  /\ now \in Time /\ asked \in 0 .. MaxAsked /\ faults \in 0 .. MaxFaults
  /\ paid \in [Customers -> Int] /\ promo \in [Customers -> 0 .. Welcome]
  /\ expires \in [Customers -> 0 .. MaxTime + PromoLife]
  /\ depleted \in [Customers -> Time \cup {Never}]
  /\ ledger \in [Customers ->
       Seq([key : Keys, amount : Int, paid : Int, promo : 0 .. Welcome])]
  /\ link \in [Workspaces -> Customers \cup {Nobody}] /\ enabled \in [Workspaces -> Time]
  /\ hours \in [Workspaces -> [Hours -> [status : Statuses \cup {"none"},
                                debit : Nat, sampled : Hours \cup {Never}]]]
  /\ order \in [Orders -> [account : Customers \cup {Nobody}, session : BOOLEAN,
                           fulfilled : BOOLEAN]]
  /\ session \in [Orders -> {"none", "open", "paid"}]
  /\ accountLock \in [Customers -> Procs \cup {Nobody}]
  /\ orderLock \in [Orders -> Procs \cup {Nobody}]
  /\ req \in [Procs -> Requests]
  /\ row \in [Procs -> [paid : Int, promo : 0 .. Welcome] \cup {Unread}]
  /\ \A c \in Customers : accountLock[c] # Nobody =>
       HasAccount(accountLock[c]) /\ req[accountLock[c]].account = c
  /\ \A o \in Orders : orderLock[o] # Nobody =>
       HasOrder(orderLock[o]) /\ req[orderLock[o]].order = o
  /\ singleton \in Towers \cup {Nobody}
  /\ tick \in [Towers -> [at : Time \cup {Never}, w : Workspaces \cup {Nobody},
       rest : SUBSET [w : Workspaces, start : 0 .. HourOf(MaxTime) + 1],
       next : 0 .. HourOf(MaxTime) + 1, left : 0 .. Batch]]

(* Whatever runs at once, aborts or is repeated, the balance row is the total   *)
(* of an append-only ledger whose keys are used once.                           *)
Ledger == INSTANCE PrepaidLedger WITH
  Accounts <- Customers,
  entries <- [c \in Customers |-> [i \in DOMAIN ledger[c] |->
                [key |-> ledger[c][i].key, amount |-> ledger[c][i].amount,
                 after |-> ledger[c][i].paid + ledger[c][i].promo]]],
  balance <- [c \in Customers |-> paid[c] + promo[c]]
BalanceIsPrepaid == Ledger!Spec

(* Evidence and money agree: an hour is debited once and exactly when its row   *)
(* says it was charged, from a sample taken in that hour of a workspace that    *)
(* was enrolled when it began, and an order adds its price once and only if     *)
(* Stripe says it was paid.                                                     *)
EvidenceMatchesLedger ==
  /\ \A w \in Workspaces, h \in Hours :
       LET key == <<"usage", w, h>> IN
       /\ \A c \in Customers : HasEntry(c, key) =>
            link[w] = c /\ hours[w][h].status = "charged"
       /\ hours[w][h].debit > 0 => HasEntry(link[w], key)
       /\ hours[w][h].status = "charged" =>
            hours[w][h].sampled = h /\ enabled[w] <= 2 * h
  /\ \A o \in Orders, c \in Customers :
       HasEntry(c, <<"stripe", o>>) <=>
         (order[o].fulfilled /\ order[o].account = c /\ session[o] = "paid")

(* The meter's record has no hole: the hours on record run without a gap from   *)
(* the enrolment, so a tick that stopped anywhere resumes where it stopped.     *)
HoursHaveNoGap ==
  \A w \in Links : \A h \in Recorded(w) :
    FirstHour(w) <= h /\ FirstHour(w) .. h \subseteq Recorded(w)

(* Money lets a customer write again: no account with a positive balance is     *)
(* marked exhausted, whichever of a charge and a payment committed last.        *)
FundsRestoreWrites ==
  \A c \in Customers : paid[c] + promo[c] > 0 => depleted[c] = Never

(* Every hour since the enrolment is recorded in the end, however the ticks     *)
(* that should have recorded it failed; a paid order is credited in the end.    *)
HoursAreCaughtUp ==
  \A w \in Workspaces, h \in Hours :
    (link[w] # Nobody /\ FirstHour(w) <= h /\ h <= HourOf(now))
      ~> hours[w][h] # NoHour
PaidOrdersAreCredited ==
  \A o \in Orders : session[o] = "paid" ~> order[o].fulfilled
================================================================================
