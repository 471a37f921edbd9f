-------------------------- MODULE HostingCreditsProofs --------------------------
(* Theorems about HostingCredits for every number of customers, workspaces,      *)
(* orders, connections and replicas, every price, credit and batch, and time     *)
(* without end to its bound: that it implements PrepaidLedger, and the           *)
(* invariants that tie the money to the meter and to the payments.               *)
(*                                                                               *)
(* The inductive invariant is built in layers, each proved from those before it: *)
(* BaseInv, the types, the locks (a row that was read is locked and current) and *)
(* the names (what is named is an opened account); MoneyInv, the logs and the    *)
(* balances that end them; MeterInv, the record of hours and where each tick is  *)
(* in it; OrdersInv, the orders and who works on them.                           *)
EXTENDS HostingCredits, FiniteSetTheorems, SequenceTheorems, WellFoundedInduction, TLAPS

--------------------------------------------------------------------------------
(* A ledger that PrepaidLedger would accept, ending in a given balance.          *)

EntryRecords == [key : Keys, amount : Int, paid : Int, promo : 0 .. Welcome]

Total(e) == e.paid + e.promo
TotalBefore(log, i) == IF i = 1 THEN 0 ELSE Total(log[i - 1])
ChainedLog(log) ==
  \A i \in 1 .. Len(log) : Total(log[i]) = log[i].amount + TotalBefore(log, i)
UniqueKeys(log) == \A i, j \in 1 .. Len(log) : log[i].key = log[j].key => i = j
HasKey(log, key) == \E i \in 1 .. Len(log) : log[i].key = key
LeavesBalance(log, x, y) ==
  IF log = <<>> THEN x = 0 /\ y = 0 ELSE log[Len(log)].paid = x /\ log[Len(log)].promo = y

GoodLog(log, x, y) ==
  /\ log \in Seq(EntryRecords)
  /\ ChainedLog(log)
  /\ UniqueKeys(log)
  /\ LeavesBalance(log, x, y)
  /\ HasKey(log, <<"expiry">>) => y = 0

LEMMA LogFacts ==
  ASSUME NEW log \in Seq(EntryRecords)
  PROVE  /\ Len(log) \in Nat
         /\ \A i \in 1 .. Len(log) :
              /\ log[i] \in EntryRecords /\ log[i].paid \in Int /\ log[i].promo \in Int
              /\ log[i].amount \in Int
         /\ log = <<>> <=> Len(log) = 0
<1>1. Len(log) \in Nat /\ \A i \in 1 .. Len(log) : log[i] \in EntryRecords
  OBVIOUS
<1>2. log = <<>> <=> Len(log) = 0
  BY EmptySeq
<1>3. \A e \in EntryRecords : e.paid \in Int /\ e.promo \in Int /\ e.amount \in Int
  BY HostingAssumption DEF EntryRecords
<1> QED BY <1>1, <1>2, <1>3

(* One more entry, under a new key, for the difference it makes.                *)
LEMMA EntryExtends ==
  ASSUME NEW log, NEW x \in Int, NEW y \in Int, GoodLog(log, x, y),
         NEW e \in EntryRecords, ~HasKey(log, e.key),
         e.amount = e.paid + e.promo - (x + y),
         HasKey(log, <<"expiry">>) \/ e.key = <<"expiry">> => e.promo = 0
  PROVE  /\ GoodLog(Append(log, e), e.paid, e.promo)
         /\ \A key : HasKey(Append(log, e), key) <=> HasKey(log, key) \/ key = e.key
         /\ Len(Append(log, e)) = Len(log) + 1
         /\ \A i \in 1 .. Len(log) : Append(log, e)[i] = log[i]
<1> DEFINE n == Len(log)
           new == Append(log, e)
<1>1. /\ log \in Seq(EntryRecords) /\ ChainedLog(log) /\ UniqueKeys(log)
      /\ LeavesBalance(log, x, y)
  BY DEF GoodLog
<1>2. n \in Nat /\ \A i \in 1 .. n : log[i] \in EntryRecords
  BY <1>1, LogFacts
<1>3. /\ new \in Seq(EntryRecords) /\ Len(new) = n + 1 /\ new[n + 1] = e
      /\ \A i \in 1 .. n : new[i] = log[i]
  BY <1>1, AppendProperties
<1>4. 1 .. n + 1 = (1 .. n) \cup {n + 1}
  BY <1>2
<1>5. e.paid \in Int /\ e.promo \in Int /\ e.amount \in Int
  BY HostingAssumption DEF EntryRecords
<1> HIDE DEF n, new
<1>6. ChainedLog(new)
  <2> SUFFICES ASSUME NEW i \in 1 .. n + 1
               PROVE  Total(new[i]) = new[i].amount + TotalBefore(new, i)
    BY <1>3 DEF ChainedLog
  <2>1. CASE i \in 1 .. n
    <3>1. TotalBefore(new, i) = TotalBefore(log, i)
      BY <1>2, <1>3, <2>1 DEF TotalBefore
    <3> QED BY <1>1, <1>3, <2>1, <3>1 DEF ChainedLog, n
  <2>2. CASE i = n + 1
    <3>1. TotalBefore(new, i) = x + y
      <4>1. CASE n = 0
        BY <1>1, <2>2, <4>1, LogFacts DEF TotalBefore, LeavesBalance, n
      <4>2. CASE n # 0
        <5>1. i - 1 = n /\ i # 1 /\ n \in 1 .. n /\ new[n] = log[n]
          BY <1>2, <1>3, <2>2, <4>2
        <5>2. log[n].paid = x /\ log[n].promo = y
          BY <1>1, <4>2, LogFacts DEF LeavesBalance, n
        <5> QED BY <5>1, <5>2 DEF TotalBefore, Total
      <4> QED BY <4>1, <4>2
    <3> QED BY <1>3, <1>5, <2>2, <3>1 DEF Total
  <2> QED BY <1>4, <2>1, <2>2
<1>7. UniqueKeys(new)
  <2>1. \A i \in 1 .. n : log[i].key # e.key
    BY DEF HasKey, n
  <2>2. \A i, j \in 1 .. n : log[i].key = log[j].key => i = j
    BY <1>1 DEF UniqueKeys, n
  <2>3. ASSUME NEW i \in (1 .. n) \cup {n + 1}, NEW j \in (1 .. n) \cup {n + 1},
               new[i].key = new[j].key
        PROVE  i = j
    BY <1>3, <2>1, <2>2, <2>3, Zenon
  <2> QED BY <1>3, <1>4, <2>3 DEF UniqueKeys
<1>8. \A key : HasKey(new, key) <=> HasKey(log, key) \/ key = e.key
  BY <1>2, <1>3, <1>4 DEF HasKey, n
<1>9. LeavesBalance(new, e.paid, e.promo)
  BY <1>2, <1>3, LogFacts DEF LeavesBalance
<1>10. GoodLog(new, e.paid, e.promo)
  BY <1>3, <1>6, <1>7, <1>8, <1>9 DEF GoodLog
<1> QED BY <1>3, <1>8, <1>10 DEF n, new

LEMMA EmptyIsGood == GoodLog(<<>>, 0, 0) /\ \A key : ~HasKey(<<>>, key)
BY DEF GoodLog, ChainedLog, UniqueKeys, HasKey, LeavesBalance

LEMMA ConcatenateOne ==
  ASSUME NEW log \in Seq(EntryRecords), NEW e \in EntryRecords
  PROVE  log \o <<e>> = Append(log, e) /\ log \o <<>> = log
OBVIOUS

LEMMA LogsAssociate == \A s, t, u \in Seq(EntryRecords) : (s \o t) \o u = s \o (t \o u)
BY ConcatAssociative

--------------------------------------------------------------------------------
(* The tables and the requests under way.                                       *)

HourRecords == [status : Statuses \cup {"none"}, debit : Nat,
                sampled : Hours \cup {Never}]
OrderRows == [account : Customers \cup {Nobody}, session : BOOLEAN, fulfilled : BOOLEAN]
AccountRows == [paid : Int, promo : 0 .. Welcome]
NextHours == 0 .. HourOf(MaxTime) + 1
Ticks == [at : Time \cup {Never}, w : Workspaces \cup {Nobody},
          rest : SUBSET [w : Workspaces, start : NextHours],
          next : NextHours, left : 0 .. Batch]

MoneyTypes ==
  /\ paid \in [Customers -> Int] /\ promo \in [Customers -> 0 .. Welcome]
  /\ depleted \in [Customers -> Time \cup {Never}]
  /\ ledger \in [Customers -> Seq(EntryRecords)]
RequestTypes ==
  /\ order \in [Orders -> OrderRows]
  /\ session \in [Orders -> {"none", "open", "paid"}]
  /\ req \in [Procs -> Requests]
LockTypes ==
  /\ accountLock \in [Customers -> Procs \cup {Nobody}]
  /\ orderLock \in [Orders -> Procs \cup {Nobody}]
  /\ row \in [Procs -> AccountRows \cup {Unread}]
MeterTypes ==
  /\ link \in [Workspaces -> Customers \cup {Nobody}] /\ enabled \in [Workspaces -> Time]
  /\ hours \in [Workspaces -> [Hours -> HourRecords]]
  /\ singleton \in Towers \cup {Nobody}
  /\ tick \in [Towers -> Ticks]
CounterTypes ==
  /\ now \in Time /\ asked \in 0 .. MaxAsked /\ faults \in 0 .. MaxFaults
  /\ expires \in [Customers -> 0 .. MaxTime + PromoLife]
HostingTypes == MoneyTypes /\ RequestTypes /\ LockTypes /\ MeterTypes /\ CounterTypes

(* What a process has read of an account is the account, and it has its lock.   *)
AccountRead(p) ==
  /\ req[p].kind \in {"grant", "audit", "checkout", "fulfil"}
  /\ accountLock[req[p].account] = p
  /\ row[p] = [paid |-> paid[req[p].account], promo |-> promo[req[p].account]]
LocksAreHeld ==
  /\ \A p \in Procs : HasAccount(p) => AccountRead(p)
  /\ \A c \in Customers : accountLock[c] # Nobody =>
       HasAccount(accountLock[c]) /\ req[accountLock[c]].account = c
  /\ \A o \in Orders : orderLock[o] # Nobody =>
       HasOrder(orderLock[o]) /\ req[orderLock[o]].order = o

(* Whatever names an account, or goes by way of an order, a workspace or a tick *)
(* that does, names an opened one.                                              *)
TickIsLinked(t) ==
  /\ tick[t] = NoTick \/ tick[t].at \in Time
  /\ \A item \in tick[t].rest : link[item.w] # Nobody
  /\ tick[t].left # 0 => tick[t].w \in Workspaces /\ link[tick[t].w] # Nobody
AccountsAreOpened ==
  /\ \A p \in Procs : req[p] # Idle => Opened(req[p].account)
  /\ \A p \in Procs : req[p].kind \in {"session", "bind"} =>
       order[req[p].order].account # Nobody
  /\ \A o \in Orders : session[o] # "none" => order[o].account # Nobody
  /\ \A o \in Orders : order[o].account # Nobody => Opened(order[o].account)
  /\ \A w \in Workspaces : link[w] # Nobody => Opened(link[w])
  /\ \A t \in Towers : TickIsLinked(t)

BaseInv == HostingTypes /\ LocksAreHeld /\ AccountsAreOpened

LEMMA RequestByKind ==
  ASSUME NEW r \in Requests
  PROVE  /\ r.kind \in {"idle", "grant", "checkout", "session", "bind", "fulfil", "audit"}
         /\ r.kind = "idle" <=> r = Idle
         /\ r.kind = "grant" => r \in Grants
         /\ r.kind \in {"checkout", "session", "bind"} => r \in Checkouts
         /\ r.kind = "fulfil" => r \in Fulfilments
         /\ r.kind = "audit" => r \in Audits
         /\ r # Idle => r.account \in Customers
BY DEF Requests, Idle, Grants, Checkouts, Fulfilments, Audits

LEMMA Constants ==
  /\ Welcome \in Nat \ {0} /\ Price \in Nat \ {0} /\ MaxTime \in Nat /\ Batch \in Nat \ {0}
  /\ PromoLife \in Nat /\ MaxAsked \in Nat /\ MaxFaults \in Nat
  /\ Nobody \notin Procs /\ Nobody \notin Customers /\ Clients \cap Towers = {}
  /\ Clients \subseteq Procs /\ Towers \subseteq Procs
  /\ HourOf(MaxTime) \in Nat
BY HostingAssumption DEF Procs, HourOf

(* The hour of a moment is one of the hours.                                    *)
LEMMA HoursOfTimes ==
  ASSUME NEW t \in Time
  PROVE  HourOf(t) \in Hours /\ HourOf(t) \in NextHours
BY Constants DEF Time, HourOf, Hours, NextHours

LEMMA LargestOfHours ==
  ASSUME NEW S \in SUBSET Hours, S # {}
  PROVE  Max(S) \in S /\ \A h \in S : h <= Max(S)
<1> DEFINE Topless == {U \in FiniteSubsetsOf(Hours) : U # {} /\ \A x \in U : \E y \in U : y > x}
<1>1. IsFiniteSet(Hours) /\ Hours \subseteq Int
  BY Constants, FS_Interval DEF Hours
<1>2. Topless = {}
  <2> SUFFICES ASSUME Topless # {} PROVE FALSE
    OBVIOUS
  <2>1. PICK U \in Topless : \A V \in Topless : ~(<<V, U>> \in StrictSubsetOrdering(Hours))
    <3>1. IsWellFoundedOn(StrictSubsetOrdering(Hours), FiniteSubsetsOf(Hours))
      BY FS_StrictSubsetOrderingWellFounded
    <3>2. Topless \subseteq FiniteSubsetsOf(Hours)
      OBVIOUS
    <3> QED BY <3>1, <3>2, WFMin
  <2>2. PICK x \in U : TRUE
    OBVIOUS
  <2>3. U \in SUBSET Hours /\ IsFiniteSet(U) /\ U \subseteq Int
    BY <1>1 DEF FiniteSubsetsOf
  <2> DEFINE V == U \ {x}
  <2>4. V \in FiniteSubsetsOf(Hours) /\ <<V, U>> \in StrictSubsetOrdering(Hours)
    BY <2>2, <2>3, FS_RemoveElement DEF FiniteSubsetsOf, StrictSubsetOrdering
  <2>5. V \notin Topless
    BY <2>1, <2>4
  <2>6. PICK y \in U : y > x
    BY <2>2
  <2>7. y \in V
    BY <2>2, <2>3, <2>6
  <2>8. PICK m \in V : \A z \in V : ~(z > m)
    BY <2>4, <2>5, <2>7
  <2>9. \A z \in U : ~(z > m)
    BY <2>2, <2>3, <2>6, <2>7, <2>8
  <2> QED BY <2>8, <2>9
<1>3. IsFiniteSet(S) /\ S \in FiniteSubsetsOf(Hours)
  BY <1>1, FS_Subset DEF FiniteSubsetsOf
<1>4. PICK m \in S : \A y \in S : ~(y > m)
  BY <1>2, <1>3
<1>5. \A y \in S : m >= y
  BY <1>1, <1>4
<1>6. Max(S) \in S /\ \A y \in S : Max(S) >= y
  BY <1>5 DEF Max
<1> QED BY <1>1, <1>6

LEMMA NextHourIsNext ==
  ASSUME MeterTypes, NEW w \in Workspaces
  PROVE  /\ NextHour(w) \in NextHours
         /\ Recorded(w) = {} => NextHour(w) = FirstHour(w)
         /\ Recorded(w) # {} => NextHour(w) - 1 \in Recorded(w)
<1>1. CASE Recorded(w) = {}
  <2>1. enabled[w] \in Time
    BY DEF MeterTypes
  <2> QED BY <1>1, <2>1, HoursOfTimes DEF NextHour, FirstHour
<1>2. CASE Recorded(w) # {}
  <2>1. Recorded(w) \subseteq Hours
    BY DEF Recorded
  <2>2. Max(Recorded(w)) \in Recorded(w) /\ NextHour(w) = Max(Recorded(w)) + 1
    BY <1>2, <2>1, LargestOfHours DEF NextHour
  <2>3. HourOf(MaxTime) \in Nat /\ Max(Recorded(w)) \in 0 .. HourOf(MaxTime)
    BY <2>1, <2>2, Constants DEF Hours
  <2> QED BY <1>2, <2>2, <2>3 DEF NextHours
<1> QED BY <1>1, <1>2

--------------------------------------------------------------------------------
(* What a commit does to the tables of money.                                   *)

LEMMA KeysThereAre ==
  /\ <<"welcome">> \in Keys /\ <<"expiry">> \in Keys
  /\ \A k \in GrantKeys : <<"admin", k>> \in Keys
  /\ \A o \in Orders : <<"stripe", o>> \in Keys
  /\ \A w \in Workspaces, h \in Hours : <<"usage", w, h>> \in Keys
BY DEF Keys

LEMMA EntryTyped ==
  ASSUME NEW key \in Keys, NEW amount \in Int, NEW x \in Int, NEW y \in 0 .. Welcome
  PROVE  /\ Entry(key, amount, x, y) \in EntryRecords
         /\ Entry(key, amount, x, y).key = key /\ Entry(key, amount, x, y).amount = amount
         /\ Entry(key, amount, x, y).paid = x /\ Entry(key, amount, x, y).promo = y
BY DEF Entry, EntryRecords

(* Only c is written, and an account that was opened remains so.                *)
OneAccount(c) ==
  /\ MoneyTypes'
  /\ \A d \in Customers : Opened(d) => Opened(d)'
  /\ \A d \in Customers \ {c} : paid'[d] = paid[d] /\ promo'[d] = promo[d]

LEMMA WritesTyped ==
  ASSUME MoneyTypes, NEW c \in Customers, NEW x \in Int, NEW y \in 0 .. Welcome,
         NEW z \in Time \cup {Never}, NEW more \in Seq(EntryRecords), Writes(c, x, y, z, more)
  PROVE  OneAccount(c) /\ expires' = expires
<1>1. /\ paid' \in [Customers -> Int] /\ promo' \in [Customers -> 0 .. Welcome]
      /\ depleted' \in [Customers -> Time \cup {Never}]
      /\ \A d \in Customers \ {c} : paid'[d] = paid[d] /\ promo'[d] = promo[d]
      /\ expires' = expires
  BY DEF Writes, MoneyTypes
<1>2. /\ ledger \in [Customers -> Seq(EntryRecords)]
      /\ ledger' = [ledger EXCEPT ![c] = ledger[c] \o more]
  BY DEF Writes, MoneyTypes
<1>3. ledger[c] \in Seq(EntryRecords)
  BY <1>2
<1>4. ledger[c] \o more \in Seq(EntryRecords) /\ Len(ledger[c] \o more) = Len(ledger[c]) + Len(more)
  BY <1>3, ConcatProperties
<1>5. Opened(c) => Opened(c)'
  <2>1. ledger'[c] = ledger[c] \o more
    BY <1>2
  <2>2. Len(ledger[c]) \in Nat /\ Len(more) \in Nat
    BY <1>3
  <2>3. (ledger[c] = <<>> <=> Len(ledger[c]) = 0)
        /\ (ledger[c] \o more = <<>> <=> Len(ledger[c] \o more) = 0)
    BY <1>3, <1>4, EmptySeq
  <2> QED BY <1>4, <2>1, <2>2, <2>3 DEF Opened
<1>6. \A d \in Customers : Opened(d) => Opened(d)'
  BY <1>2, <1>5 DEF Opened
<1>7. ledger' \in [Customers -> Seq(EntryRecords)]
  BY <1>2, <1>4
<1> QED BY <1>1, <1>6, <1>7 DEF OneAccount, MoneyTypes

LEMMA ReadIsCurrent ==
  ASSUME BaseInv, NEW p \in Procs, HasAccount(p)
  PROVE  LET c == req[p].account IN
         /\ req[p] # Idle /\ c \in Customers /\ Opened(c)
         /\ paid[c] \in Int /\ promo[c] \in 0 .. Welcome /\ depleted[c] \in Time \cup {Never}
         /\ row[p].paid = paid[c] /\ row[p].promo = promo[c]
         /\ PromoLeft(p) = (IF Lapsed(p) THEN 0 ELSE promo[c])
         /\ PromoLeft(p) \in 0 .. Welcome /\ PromoLeft(p) <= promo[c]
<1>1. AccountRead(p) /\ req[p] \in Requests
  BY DEF BaseInv, LocksAreHeld, HostingTypes, RequestTypes
<1>2. req[p] # Idle
  BY <1>1 DEF AccountRead, Idle
<1>3. req[p].account \in Customers /\ Opened(req[p].account)
  BY <1>1, <1>2, RequestByKind DEF BaseInv, AccountsAreOpened
<1>4. /\ row[p].paid = paid[req[p].account] /\ row[p].promo = promo[req[p].account]
  BY <1>1 DEF AccountRead
<1>5. /\ paid[req[p].account] \in Int /\ promo[req[p].account] \in 0 .. Welcome
      /\ depleted[req[p].account] \in Time \cup {Never}
  BY <1>3 DEF BaseInv, HostingTypes, MoneyTypes
<1>6. PromoLeft(p) = IF Lapsed(p) THEN 0 ELSE promo[req[p].account]
  BY <1>4 DEF PromoLeft
<1>7. PromoLeft(p) \in 0 .. Welcome /\ PromoLeft(p) <= promo[req[p].account]
  BY <1>5, <1>6, Constants
<1> QED BY <1>2, <1>3, <1>4, <1>5, <1>6, <1>7

LEMMA LapseTyped ==
  ASSUME BaseInv, NEW p \in Procs, HasAccount(p)
  PROVE  LapseEntry(p) \in Seq(EntryRecords)
<1>1. row[p].paid \in Int /\ -row[p].promo \in Int /\ 0 \in 0 .. Welcome
  <2>1. row[p].promo \in 0 .. Welcome /\ row[p].paid \in Int
    BY ReadIsCurrent
  <2> QED BY <2>1, Constants
<1>2. Entry(<<"expiry">>, -row[p].promo, row[p].paid, 0) \in EntryRecords
  BY <1>1, KeysThereAre, EntryTyped
<1> QED BY <1>2 DEF LapseEntry

LEMMA OnlyLapsesTyped ==
  ASSUME BaseInv, NEW p \in Procs, HasAccount(p), OnlyLapses(p)
  PROVE  OneAccount(req[p].account) /\ expires' = expires
<1> DEFINE c == req[p].account
<1>1. /\ c \in Customers /\ row[p].paid \in Int /\ PromoLeft(p) \in 0 .. Welcome
      /\ depleted[c] \in Time \cup {Never}
  BY ReadIsCurrent
<1>2. Writes(c, row[p].paid, PromoLeft(p), depleted[c], LapseEntry(p))
  BY DEF OnlyLapses
<1> HIDE DEF c
<1>3. OneAccount(c) /\ expires' = expires
  BY <1>1, <1>2, LapseTyped, WritesTyped DEF BaseInv, HostingTypes
<1> QED BY <1>3 DEF c

LEMMA CreditsTyped ==
  ASSUME BaseInv, NEW p \in Procs, HasAccount(p),
         NEW amount \in Nat, NEW key \in Keys, Credits(p, amount, key)
  PROVE  OneAccount(req[p].account) /\ expires' = expires
<1> DEFINE c == req[p].account
           x == row[p].paid + amount
           z == Exhausted(x + PromoLeft(p), depleted[c])
           more == LapseEntry(p) \o <<Entry(key, amount, x, PromoLeft(p))>>
<1>1. /\ c \in Customers /\ x \in Int /\ PromoLeft(p) \in 0 .. Welcome
      /\ depleted[c] \in Time \cup {Never}
  BY ReadIsCurrent
<1>2. z \in Time \cup {Never}
  BY <1>1 DEF Exhausted
<1>3. Entry(key, amount, x, PromoLeft(p)) \in EntryRecords
  BY <1>1, EntryTyped
<1>4. more \in Seq(EntryRecords)
  BY <1>3, LapseTyped
<1>5. Writes(c, x, PromoLeft(p), z, more)
  BY DEF Credits
<1> HIDE DEF c, x, z, more
<1>6. OneAccount(c) /\ expires' = expires
  BY <1>1, <1>2, <1>4, <1>5, WritesTyped DEF BaseInv, HostingTypes
<1> QED BY <1>6 DEF c

(* The commit of a complete reading, as AuditHostingHour writes it.             *)
ChargesHour(p) ==
  LET r == req[p]
      c == r.account
      debit == Bytes(r)
      fromPromo == IF debit < PromoLeft(p) THEN debit ELSE PromoLeft(p)
      newPromo == PromoLeft(p) - fromPromo
      newPaid == row[p].paid - (debit - fromPromo)
      entry == Entry(<<"usage", r.w, r.hour>>, -debit, newPaid, newPromo)
  IN Writes(c, newPaid, newPromo, Exhausted(newPaid + newPromo, GraceSince(c, r.at)),
            LapseEntry(p) \o (IF debit > 0 THEN <<entry>> ELSE <<>>))

LEMMA AuditActs ==
  ASSUME BaseInv, NEW p \in Procs, AuditHostingHour(p)
  PROVE  LET r == req[p] IN
         /\ HasAccount(p) /\ r \in Audits /\ Ends(p)
         /\ UNCHANGED <<now, enrolment, payments, meter, asked, faults>>
         /\ \/ UNCHANGED hours /\ OnlyLapses(p)
            \/ /\ hours[r.w][r.hour] = NoHour /\ r.hour >= FirstHour(r.w)
               /\ AuditStatus(r) # "charged" /\ OnlyLapses(p)
               /\ hours' = [hours EXCEPT ![r.w][r.hour] =
                              Evidence(AuditStatus(r), 0, r.sample.hour)]
            \/ /\ hours[r.w][r.hour] = NoHour /\ r.hour >= FirstHour(r.w)
               /\ AuditStatus(r) = "charged" /\ ChargesHour(p)
               /\ hours' = [hours EXCEPT ![r.w][r.hour] =
                              Evidence("charged", Bytes(r), r.sample.hour)]
<1>1. req[p] \in Audits
  BY RequestByKind DEF AuditHostingHour, BaseInv, HostingTypes, RequestTypes
<1> QED BY <1>1 DEF AuditHostingHour, ChargesHour

LEMMA AuditedRequest ==
  ASSUME MeterTypes, NEW r \in Audits
  PROVE  /\ r.account \in Customers /\ r.w \in Workspaces /\ r.hour \in Hours
         /\ r.at \in Time /\ r.sample.hour \in Hours \cup {Never}
         /\ AuditStatus(r) \in Statuses
         /\ AuditStatus(r) = "charged" =>
              Bytes(r) \in Nat /\ r.sample.hour = r.hour /\ enabled[r.w] <= 2 * r.hour
<1>1. /\ r.account \in Customers /\ r.w \in Workspaces /\ r.hour \in Hours
      /\ r.at \in Time /\ r.sample \in Samples
  BY DEF Audits
<1>2. r.sample.hour \in Hours \cup {Never} /\ r.sample.bytes \in Readings \cup {Unavailable}
  BY <1>1 DEF Samples
<1>3. AuditStatus(r) \in Statuses
  BY DEF AuditStatus, Statuses
<1>4. ASSUME AuditStatus(r) = "charged"
      PROVE  /\ 2 * r.hour >= enabled[r.w] /\ r.hour = HourOf(r.at) /\ Bytes(r) # Unavailable
  <2>1. enabled[r.w] \in Int /\ 2 * r.hour \in Int
    BY <1>1, Constants DEF MeterTypes, Time, Hours
  <2>2. ~(2 * r.hour < enabled[r.w])
    BY <1>4 DEF AuditStatus
  <2>3. r.hour = HourOf(r.at)
    BY <1>4, <2>1, <2>2 DEF AuditStatus
  <2> QED BY <1>4, <2>1, <2>2, <2>3 DEF AuditStatus
<1>5. Bytes(r) # Unavailable => r.sample.hour = r.hour /\ Bytes(r) \in Nat
  BY <1>2, HostingAssumption DEF Bytes
<1>6. 2 * r.hour >= enabled[r.w] => enabled[r.w] <= 2 * r.hour
  BY <1>1, Constants DEF MeterTypes, Time, Hours
<1> QED BY <1>1, <1>2, <1>3, <1>4, <1>5, <1>6

LEMMA ChargesTyped ==
  ASSUME BaseInv, NEW p \in Procs, HasAccount(p), req[p] \in Audits,
         AuditStatus(req[p]) = "charged", ChargesHour(p)
  PROVE  OneAccount(req[p].account) /\ expires' = expires
<1> DEFINE r == req[p]
           c == r.account
           debit == Bytes(r)
           y == PromoLeft(p)
           fromPromo == IF debit < y THEN debit ELSE y
           newPromo == y - fromPromo
           newPaid == row[p].paid - (debit - fromPromo)
           entry == Entry(<<"usage", r.w, r.hour>>, -debit, newPaid, newPromo)
           more == LapseEntry(p) \o (IF debit > 0 THEN <<entry>> ELSE <<>>)
           z == Exhausted(newPaid + newPromo, GraceSince(c, r.at))
<1>1. /\ c \in Customers /\ row[p].paid \in Int /\ y \in 0 .. Welcome
      /\ depleted[c] \in Time \cup {Never}
  BY ReadIsCurrent
<1>2. r.w \in Workspaces /\ r.hour \in Hours /\ r.at \in Time /\ debit \in Nat
  BY AuditedRequest DEF BaseInv, HostingTypes
<1>3. newPaid \in Int /\ newPromo \in 0 .. Welcome
  <2> HIDE DEF y, debit
  <2> QED BY <1>1, <1>2, Constants
<1>4. z \in Time \cup {Never}
  BY <1>1, <1>2 DEF Exhausted, GraceSince
<1>5. entry \in EntryRecords
  <2>1. -debit \in Int /\ <<"usage", r.w, r.hour>> \in Keys
    BY <1>2, KeysThereAre
  <2> HIDE DEF debit, newPaid, newPromo
  <2> QED BY <1>3, <2>1, EntryTyped
<1>6. more \in Seq(EntryRecords)
  <2> HIDE DEF entry
  <2> QED BY <1>5, LapseTyped
<1>7. Writes(c, newPaid, newPromo, z, more)
  BY Zenon DEF ChargesHour
<1> HIDE DEF c, newPaid, newPromo, z, more
<1>8. OneAccount(c) /\ expires' = expires
  BY <1>1, <1>3, <1>4, <1>6, <1>7, WritesTyped DEF BaseInv, HostingTypes
<1> QED BY <1>8 DEF c

--------------------------------------------------------------------------------
(* Locks: who begins, goes on or ends without holding any, who lets go of his,  *)
(* and who takes one.                                                           *)

LEMMA HoldsNothing ==
  ASSUME BaseInv, NEW p \in Procs, req[p].kind \in {"idle", "session", "bind"}
  PROVE  /\ ~HasAccount(p)
         /\ \A c \in Customers : accountLock[c] # p
         /\ \A o \in Orders : orderLock[o] # p
<1>1. ~HasAccount(p)
  BY DEF BaseInv, LocksAreHeld, AccountRead
<1>2. p # Nobody
  BY Constants
<1>3. \A c \in Customers : accountLock[c] # p
  BY <1>1, <1>2 DEF BaseInv, LocksAreHeld
<1>4. \A o \in Orders : orderLock[o] # p
  BY <1>2 DEF BaseInv, LocksAreHeld, HasOrder
<1> QED BY <1>1, <1>3, <1>4

LEMMA RequestTyped ==
  ASSUME BaseInv, NEW p \in Procs
  PROVE  /\ req[p] \in Requests
         /\ req[p] # Idle => req[p].account \in Customers /\ Opened(req[p].account)
         /\ req[p].kind = "grant" => req[p] \in Grants
         /\ req[p].kind \in {"checkout", "session", "bind"} => req[p] \in Checkouts
         /\ req[p].kind = "fulfil" => req[p] \in Fulfilments
         /\ req[p].kind = "audit" => req[p] \in Audits
         /\ req[p].kind = "idle" <=> req[p] = Idle
<1>1. req[p] \in Requests
  BY DEF BaseInv, HostingTypes, RequestTypes
<1> QED BY <1>1, RequestByKind DEF BaseInv, AccountsAreOpened

LEMMA WithoutLocks ==
  ASSUME BaseInv, NEW p \in Procs, req[p].kind \in {"idle", "session", "bind"},
         NEW r \in Requests, req' = [req EXCEPT ![p] = r],
         UNCHANGED <<locks, row, paid, promo>>
  PROVE  LockTypes' /\ LocksAreHeld' /\ req' \in [Procs -> Requests]
<1>1. /\ ~HasAccount(p)
      /\ \A c \in Customers : accountLock[c] # p
      /\ \A o \in Orders : orderLock[o] # p
  BY HoldsNothing
<1>2. req' \in [Procs -> Requests] /\ \A q \in Procs \ {p} : req'[q] = req[q]
  BY DEF BaseInv, HostingTypes, RequestTypes
<1>3. LockTypes'
  BY DEF BaseInv, HostingTypes, LockTypes, locks
<1>4. \A q \in Procs : HasAccount(q) <=> HasAccount(q)'
  BY DEF HasAccount
<1>5. /\ accountLock \in [Customers -> Procs \cup {Nobody}]
      /\ orderLock \in [Orders -> Procs \cup {Nobody}]
  BY DEF BaseInv, HostingTypes, LockTypes
<1>6. \A q \in Procs : HasAccount(q)' => AccountRead(q)'
  BY <1>1, <1>2, <1>4 DEF BaseInv, LocksAreHeld, AccountRead, locks
<1>7. \A c \in Customers : accountLock'[c] # Nobody =>
        HasAccount(accountLock[c])' /\ req'[accountLock[c]].account = c
  BY <1>1, <1>2, <1>4, <1>5 DEF BaseInv, LocksAreHeld, locks
<1>8. \A o \in Orders : orderLock'[o] # Nobody =>
        HasOrder(orderLock[o])' /\ req'[orderLock[o]].order = o
  BY <1>1, <1>2, <1>5 DEF BaseInv, LocksAreHeld, HasOrder, locks
<1>9. accountLock' = accountLock /\ orderLock' = orderLock
  BY DEF locks
<1> QED BY <1>2, <1>3, <1>6, <1>7, <1>8, <1>9 DEF LocksAreHeld

LEMMA LocksLetGo ==
  ASSUME BaseInv, NEW p \in Procs, NEW r \in Requests, Release(p),
         req' = [req EXCEPT ![p] = r], row' = [row EXCEPT ![p] = Unread],
         UNCHANGED <<paid, promo>> \/ (HasAccount(p) /\ OneAccount(req[p].account))
  PROVE  LockTypes' /\ LocksAreHeld' /\ req' \in [Procs -> Requests]
<1>1. /\ accountLock \in [Customers -> Procs \cup {Nobody}]
      /\ orderLock \in [Orders -> Procs \cup {Nobody}]
      /\ row \in [Procs -> AccountRows \cup {Unread}]
      /\ p # Nobody
  BY Constants DEF BaseInv, HostingTypes, LockTypes
<1>2. /\ req' \in [Procs -> Requests] /\ \A q \in Procs \ {p} : req'[q] = req[q]
      /\ \A q \in Procs \ {p} : row'[q] = row[q]
      /\ row'[p] = Unread
  BY <1>1 DEF BaseInv, HostingTypes, RequestTypes
<1>3. /\ \A c \in Customers : accountLock'[c] = IF accountLock[c] = p THEN Nobody
                                               ELSE accountLock[c]
      /\ \A o \in Orders : orderLock'[o] = IF orderLock[o] = p THEN Nobody ELSE orderLock[o]
  BY DEF Release
<1>4. LockTypes'
  BY <1>1 DEF LockTypes, Release
<1>5. ASSUME NEW q \in Procs, HasAccount(q)' PROVE AccountRead(q)'
  <2>1. q # p /\ HasAccount(q)
    BY <1>2, <1>5 DEF HasAccount
  <2>2. AccountRead(q) /\ req[q].account \in Customers
    BY <2>1, ReadIsCurrent DEF BaseInv, LocksAreHeld
  <2>3. accountLock'[req[q].account] = q
    BY <1>3, <2>1, <2>2 DEF AccountRead
  <2>4. /\ paid'[req[q].account] = paid[req[q].account]
        /\ promo'[req[q].account] = promo[req[q].account]
    <3>1. CASE UNCHANGED <<paid, promo>>
      BY <3>1
    <3>2. CASE HasAccount(p) /\ OneAccount(req[p].account)
      <4>1. accountLock[req[p].account] = p
        BY <3>2 DEF BaseInv, LocksAreHeld, AccountRead
      <4>2. req[q].account # req[p].account
        BY <2>1, <2>2, <4>1 DEF AccountRead
      <4> QED BY <2>2, <3>2, <4>2 DEF OneAccount
    <3> QED BY <3>1, <3>2
  <2> QED BY <1>2, <2>1, <2>2, <2>3, <2>4 DEF AccountRead
<1>6. ASSUME NEW c \in Customers, accountLock'[c] # Nobody
      PROVE  HasAccount(accountLock[c])' /\ req'[accountLock'[c]].account = c
  <2>1. accountLock[c] # p /\ accountLock'[c] = accountLock[c] /\ accountLock[c] \in Procs
    BY <1>1, <1>3, <1>6
  <2>2. HasAccount(accountLock[c]) /\ req[accountLock[c]].account = c
    BY <1>1, <1>3, <1>6 DEF BaseInv, LocksAreHeld
  <2> QED BY <1>2, <2>1, <2>2 DEF HasAccount
<1>7. ASSUME NEW o \in Orders, orderLock'[o] # Nobody
      PROVE  HasOrder(orderLock[o])' /\ req'[orderLock'[o]].order = o
  <2>1. orderLock[o] # p /\ orderLock'[o] = orderLock[o] /\ orderLock[o] \in Procs
    BY <1>1, <1>3, <1>7
  <2>2. HasOrder(orderLock[o]) /\ req[orderLock[o]].order = o
    BY <1>1, <1>3, <1>7 DEF BaseInv, LocksAreHeld
  <2>3. req'[orderLock[o]] = req[orderLock[o]]
    BY <1>2, <2>1
  <2> QED BY <2>1, <2>2, <2>3 DEF HasOrder
<1> QED BY <1>2, <1>4, <1>5, <1>6, <1>7 DEF LocksAreHeld

LEMMA TakesARow ==
  ASSUME BaseInv, NEW p \in Procs, LockAccount(p)
  PROVE  LockTypes' /\ LocksAreHeld'
<1> DEFINE c == req[p].account
<1>1. /\ WantsAccount(p) /\ accountLock[c] = Nobody
      /\ accountLock' = [accountLock EXCEPT ![c] = p]
      /\ row' = [row EXCEPT ![p] = [paid |-> paid[c], promo |-> promo[c]]]
      /\ UNCHANGED <<req, orderLock, paid, promo>>
  BY DEF LockAccount, TakesAccount, money
<1>2. /\ req[p].kind \in {"grant", "audit", "checkout", "fulfil"} /\ ~HasAccount(p)
      /\ req[p] # Idle
  BY <1>1 DEF WantsAccount, Idle
<1>3. c \in Customers /\ paid[c] \in Int /\ promo[c] \in 0 .. Welcome
  BY <1>2, RequestTyped DEF BaseInv, HostingTypes, MoneyTypes
<1>4. /\ accountLock \in [Customers -> Procs \cup {Nobody}]
      /\ orderLock \in [Orders -> Procs \cup {Nobody}]
      /\ row \in [Procs -> AccountRows \cup {Unread}]
      /\ p # Nobody
  BY Constants DEF BaseInv, HostingTypes, LockTypes
<1>5. /\ [paid |-> paid[c], promo |-> promo[c]] \in AccountRows
      /\ [paid |-> paid[c], promo |-> promo[c]] # Unread
  BY <1>3, Constants DEF AccountRows, Unread
<1> HIDE DEF c
<1>6. /\ accountLock'[c] = p /\ \A d \in Customers \ {c} : accountLock'[d] = accountLock[d]
      /\ row'[p] = [paid |-> paid[c], promo |-> promo[c]]
      /\ \A q \in Procs \ {p} : row'[q] = row[q]
  BY <1>1, <1>3, <1>4
<1>7. LockTypes'
  BY <1>1, <1>3, <1>4, <1>5 DEF LockTypes
<1>8. \A q \in Procs : HasAccount(q)' => q = p \/ (q # p /\ HasAccount(q))
  BY <1>6 DEF HasAccount
<1>9. \A q \in Procs : HasAccount(q)' => AccountRead(q)'
  <2>1. AccountRead(p)'
    BY <1>1, <1>2, <1>6 DEF AccountRead, c
  <2>2. ASSUME NEW q \in Procs \ {p}, HasAccount(q) PROVE AccountRead(q)'
    <3>1. AccountRead(q) /\ req[q].account \in Customers
      BY <2>2, ReadIsCurrent DEF BaseInv, LocksAreHeld
    <3>2. req[q].account # c
      BY <1>1, <1>4, <3>1, Constants DEF AccountRead, c
    <3> QED BY <1>1, <1>6, <3>1, <3>2 DEF AccountRead
  <2> QED BY <1>8, <2>1, <2>2
<1>10. ASSUME NEW d \in Customers, accountLock'[d] # Nobody
       PROVE  HasAccount(accountLock[d])' /\ req'[accountLock'[d]].account = d
  <2>1. CASE d = c
    BY <1>1, <1>5, <1>6, <2>1 DEF HasAccount, c
  <2>2. CASE d # c
    <3>1. accountLock'[d] = accountLock[d] /\ accountLock[d] \in Procs
      BY <1>4, <1>6, <1>10, <2>2
    <3>2. HasAccount(accountLock[d]) /\ req[accountLock[d]].account = d
      BY <1>6, <1>10, <2>2 DEF BaseInv, LocksAreHeld
    <3>3. accountLock[d] # p
      BY <1>2, <3>2
    <3> QED BY <1>1, <1>6, <3>1, <3>2, <3>3 DEF HasAccount
  <2> QED BY <2>1, <2>2
<1>11. \A o \in Orders : orderLock'[o] # Nobody =>
         HasOrder(orderLock[o])' /\ req'[orderLock'[o]].order = o
  BY <1>1 DEF BaseInv, LocksAreHeld, HasOrder
<1> QED BY <1>7, <1>9, <1>10, <1>11 DEF LocksAreHeld

LEMMA TakesAnOrder ==
  ASSUME BaseInv, NEW p \in Procs, LockOrder(p)
  PROVE  LockTypes' /\ LocksAreHeld'
<1> DEFINE o == req[p].order
<1>1. /\ WantsOrder(p) /\ orderLock[o] = Nobody
      /\ orderLock' = [orderLock EXCEPT ![o] = p]
      /\ UNCHANGED <<req, accountLock, row, paid, promo>>
  BY DEF LockOrder, money
<1>2. req[p].kind \in {"fulfil", "checkout"} /\ o \in Orders
  <2>1. req[p].kind \in {"fulfil", "checkout"}
    BY <1>1 DEF WantsOrder
  <2> QED BY <2>1, RequestTyped DEF Fulfilments, Checkouts
<1>3. orderLock \in [Orders -> Procs \cup {Nobody}] /\ p # Nobody
  BY Constants DEF BaseInv, HostingTypes, LockTypes
<1> HIDE DEF o
<1>4. orderLock'[o] = p /\ \A d \in Orders \ {o} : orderLock'[d] = orderLock[d]
  BY <1>1, <1>2, <1>3
<1>5. LockTypes'
  BY <1>1, <1>2, <1>3 DEF BaseInv, HostingTypes, LockTypes
<1>6. \A q \in Procs : HasAccount(q)' => AccountRead(q)'
  BY <1>1 DEF BaseInv, LocksAreHeld, HasAccount, AccountRead
<1>7. \A c \in Customers : accountLock'[c] # Nobody =>
        HasAccount(accountLock[c])' /\ req'[accountLock'[c]].account = c
  BY <1>1 DEF BaseInv, LocksAreHeld, HasAccount
<1>8. ASSUME NEW d \in Orders, orderLock'[d] # Nobody
      PROVE  HasOrder(orderLock[d])' /\ req'[orderLock'[d]].order = d
  <2>1. CASE d = o
    BY <1>1, <1>2, <1>4, <2>1 DEF HasOrder, o
  <2>2. CASE d # o
    <3>1. HasOrder(orderLock[d]) /\ req[orderLock[d]].order = d
      BY <1>4, <1>8, <2>2 DEF BaseInv, LocksAreHeld
    <3> QED BY <1>1, <1>4, <2>2, <3>1 DEF HasOrder
  <2> QED BY <2>1, <2>2
<1> QED BY <1>5, <1>6, <1>7, <1>8 DEF LocksAreHeld

(* An account nobody works on is linked and opened.                             *)
LEMMA LocksUnderALink ==
  ASSUME BaseInv, NEW c \in Customers, accountLock[c] = Nobody, OneAccount(c),
         UNCHANGED <<locks, row, req>>
  PROVE  LockTypes' /\ LocksAreHeld'
<1>1. LockTypes'
  BY DEF BaseInv, HostingTypes, LockTypes, locks
<1>2. ASSUME NEW q \in Procs, HasAccount(q)' PROVE AccountRead(q)'
  <2>1. AccountRead(q) /\ req[q].account \in Customers
    BY <1>2, ReadIsCurrent DEF BaseInv, LocksAreHeld, HasAccount
  <2>2. req[q].account # c
    BY <2>1, Constants DEF AccountRead
  <2> QED BY <2>1, <2>2 DEF AccountRead, OneAccount, locks
<1>3. \A d \in Customers : accountLock'[d] # Nobody =>
        HasAccount(accountLock[d])' /\ req'[accountLock'[d]].account = d
  BY DEF BaseInv, LocksAreHeld, HasAccount, locks
<1>4. \A o \in Orders : orderLock'[o] # Nobody =>
         HasOrder(orderLock[o])' /\ req'[orderLock'[o]].order = o
  BY DEF BaseInv, LocksAreHeld, HasOrder, locks
<1> QED BY <1>1, <1>2, <1>3, <1>4 DEF LocksAreHeld

--------------------------------------------------------------------------------
(* Names of accounts: what is named is opened, as long as each request, order,  *)
(* link and tick stays, ends, or is given an opened account.                    *)

RequestIsNamed(q) ==
  \/ req'[q] = req[q] \/ req'[q] = Idle
  \/ /\ ledger'[req'[q].account] # <<>>
     /\ req'[q].kind \in {"session", "bind"} => order'[req'[q].order].account # Nobody
OrderIsNamed(o) ==
  /\ order[o].account # Nobody => order'[o].account # Nobody
  /\ order'[o].account = order[o].account \/ ledger'[order'[o].account] # <<>>
  /\ session'[o] # "none" => session[o] # "none" \/ order'[o].account # Nobody
LinkIsNamed(w) ==
  /\ link[w] # Nobody => link'[w] = link[w]
  /\ link'[w] = link[w] \/ ledger'[link'[w]] # <<>>
TickIsNamed(t) == tick'[t] = tick[t] \/ tick'[t] = NoTick \/ TickIsLinked(t)'

LEMMA NamesStay ==
  ASSUME BaseInv, \A c \in Customers : Opened(c) => Opened(c)',
         RequestTypes', MeterTypes',
         \A q \in Procs : RequestIsNamed(q),
         \A o \in Orders : OrderIsNamed(o),
         \A w \in Workspaces : LinkIsNamed(w),
         \A t \in Towers : TickIsNamed(t)
  PROVE  AccountsAreOpened'
<1>1. ASSUME NEW q \in Procs, req'[q] # Idle PROVE ledger'[req'[q].account] # <<>>
  <2>1. req'[q] = req[q] => req[q].account \in Customers /\ Opened(req[q].account)
    BY <1>1, RequestTyped
  <2>2. req'[q] = req[q] => ledger'[req[q].account] # <<>>
    BY <2>1 DEF Opened
  <2>3. req'[q] = req[q] => ledger'[req'[q].account] # <<>>
    BY <2>2 DEF Opened
  <2> QED BY <1>1, <2>3 DEF RequestIsNamed
<1>2. ASSUME NEW q \in Procs, req'[q].kind \in {"session", "bind"}
      PROVE  order'[req'[q].order].account # Nobody
  <2>1. CASE req'[q] = req[q]
    <3>1. req[q].order \in Orders /\ order[req[q].order].account # Nobody
      BY <1>2, <2>1, RequestTyped DEF Checkouts, BaseInv, AccountsAreOpened
    <3> QED BY <2>1, <3>1 DEF OrderIsNamed
  <2>2. req'[q] # Idle
    BY <1>2 DEF Idle
  <2> QED BY <1>2, <2>1, <2>2 DEF RequestIsNamed
<1>3. \A o \in Orders : session'[o] # "none" => order'[o].account # Nobody
  BY DEF OrderIsNamed, BaseInv, AccountsAreOpened
<1>4. ASSUME NEW o \in Orders, order'[o].account # Nobody
      PROVE  ledger'[order'[o].account] # <<>>
  <2>1. CASE order'[o].account = order[o].account
    <3>1. order[o].account \in Customers /\ Opened(order[o].account)
      BY <1>4, <2>1 DEF BaseInv, AccountsAreOpened, HostingTypes, RequestTypes, OrderRows
    <3>2. ledger'[order[o].account] # <<>>
      BY <3>1 DEF Opened
    <3> QED BY <2>1, <3>2 DEF Opened
  <2> QED BY <2>1 DEF OrderIsNamed
<1>5. ASSUME NEW w \in Workspaces, link'[w] # Nobody PROVE ledger'[link'[w]] # <<>>
  <2>1. CASE link'[w] = link[w]
    <3>1. link[w] \in Customers /\ Opened(link[w])
      BY <1>5, <2>1 DEF BaseInv, AccountsAreOpened, HostingTypes, MeterTypes
    <3>2. ledger'[link[w]] # <<>>
      BY <3>1 DEF Opened
    <3> QED BY <2>1, <3>2 DEF Opened
  <2> QED BY <2>1 DEF LinkIsNamed
<1>6. ASSUME NEW t \in Towers PROVE TickIsLinked(t)'
  <2>1. CASE tick'[t] = tick[t]
    <3>1. TickIsLinked(t) /\ tick[t] \in Ticks
      BY DEF BaseInv, AccountsAreOpened, HostingTypes, MeterTypes
    <3>2. \A item \in tick[t].rest : item.w \in Workspaces
      BY <3>1 DEF Ticks
    <3> QED BY <2>1, <3>1, <3>2 DEF TickIsLinked, LinkIsNamed
  <2>2. CASE tick'[t] = NoTick
    BY <2>2 DEF TickIsLinked, NoTick
  <2> QED BY <2>1, <2>2 DEF TickIsNamed
<1> QED BY <1>1, <1>2, <1>3, <1>4, <1>5, <1>6 DEF AccountsAreOpened, Opened

(* What a step that leaves a table alone keeps of it.                           *)
LEMMA Kept ==
  ASSUME BaseInv
  PROVE  /\ UNCHANGED money => MoneyTypes' /\ \A c \in Customers : Opened(c) => Opened(c)'
         /\ UNCHANGED payments => \A o \in Orders : OrderIsNamed(o)
         /\ UNCHANGED <<enrolment, hours, meter>> => MeterTypes'
         /\ UNCHANGED enrolment => \A w \in Workspaces : LinkIsNamed(w)
         /\ UNCHANGED meter => \A t \in Towers : TickIsNamed(t)
         /\ UNCHANGED <<now, asked, faults, expires>> => CounterTypes'
<1>1. UNCHANGED money => MoneyTypes' /\ \A c \in Customers : Opened(c) => Opened(c)'
  BY DEF money, MoneyTypes, BaseInv, HostingTypes, Opened
<1>2. UNCHANGED payments => \A o \in Orders : OrderIsNamed(o)
  BY DEF payments, OrderIsNamed
<1>3. UNCHANGED <<enrolment, hours, meter>> => MeterTypes'
  BY DEF enrolment, meter, MeterTypes, BaseInv, HostingTypes
<1>4. UNCHANGED enrolment => \A w \in Workspaces : LinkIsNamed(w)
  BY DEF enrolment, LinkIsNamed
<1>5. UNCHANGED meter => \A t \in Towers : TickIsNamed(t)
  BY DEF meter, TickIsNamed
<1>6. UNCHANGED <<now, asked, faults, expires>> => CounterTypes'
  BY DEF CounterTypes, BaseInv, HostingTypes
<1> QED BY <1>1, <1>2, <1>3, <1>4, <1>5, <1>6

(* A request begins: nobody's table changes.                                    *)
LEMMA BeginsTyped ==
  ASSUME BaseInv, NEW p \in Procs, req[p] = Idle, NEW r \in Requests,
         r.account \in Customers /\ Opened(r.account), r.kind \notin {"session", "bind"},
         req' = [req EXCEPT ![p] = r], CounterTypes', MeterTypes',
         \A t \in Towers : TickIsNamed(t),
         UNCHANGED <<money, enrolment, payments, locks, row>>
  PROVE  BaseInv'
<1>1. LockTypes' /\ LocksAreHeld' /\ req' \in [Procs -> Requests]
  <2>1. req[p].kind \in {"idle", "session", "bind"}
    BY DEF Idle
  <2>2. UNCHANGED <<locks, row, paid, promo>>
    BY DEF money
  <2> QED BY <2>1, <2>2, WithoutLocks
<1>2. RequestTypes'
  BY <1>1 DEF BaseInv, HostingTypes, RequestTypes, payments
<1>3. \A q \in Procs : RequestIsNamed(q)
  <2>1. req'[p] = r /\ \A q \in Procs \ {p} : req'[q] = req[q]
    BY DEF BaseInv, HostingTypes, RequestTypes
  <2>2. Opened(r.account)'
    BY Kept
  <2>3. RequestIsNamed(p)
    BY <2>1, <2>2 DEF RequestIsNamed, Opened
  <2> QED BY <2>1, <2>3 DEF RequestIsNamed
<1>4. AccountsAreOpened'
  BY <1>2, <1>3, NamesStay, Kept
<1>5. MoneyTypes'
  BY Kept
<1> QED BY <1>1, <1>2, <1>4, <1>5 DEF BaseInv, HostingTypes

(* A transaction is over: p lets go of its rows, and may have written to the    *)
(* account it had and to what it belongs to.                                    *)
LEMMA EndsTyped ==
  ASSUME BaseInv, NEW p \in Procs, Ends(p),
         UNCHANGED money \/ (HasAccount(p) /\ OneAccount(req[p].account) /\ expires' = expires),
         UNCHANGED enrolment, UNCHANGED <<now, asked>>, faults' \in 0 .. MaxFaults,
         MeterTypes', order' \in [Orders -> OrderRows], UNCHANGED session,
         \A o \in Orders : OrderIsNamed(o),
         \A t \in Towers : TickIsNamed(t)
  PROVE  BaseInv'
<1>1. LockTypes' /\ LocksAreHeld' /\ req' \in [Procs -> Requests]
  <2>1. Idle \in Requests
    BY DEF Requests
  <2>2. Release(p) /\ req' = [req EXCEPT ![p] = Idle] /\ row' = [row EXCEPT ![p] = Unread]
    BY DEF Ends
  <2> QED BY <2>1, <2>2, LocksLetGo DEF money
<1>2. RequestTypes'
  BY <1>1 DEF BaseInv, HostingTypes, RequestTypes
<1>3. \A q \in Procs : RequestIsNamed(q)
  BY DEF Ends, RequestIsNamed, BaseInv, HostingTypes, RequestTypes
<1>4. MoneyTypes' /\ (\A c \in Customers : Opened(c) => Opened(c)') /\ expires' = expires
  BY Kept DEF OneAccount, money
<1>5. AccountsAreOpened'
  BY <1>2, <1>3, <1>4, NamesStay, Kept
<1>6. CounterTypes'
  BY <1>4 DEF BaseInv, HostingTypes, CounterTypes
<1> QED BY <1>1, <1>2, <1>4, <1>5, <1>6 DEF BaseInv, HostingTypes

--------------------------------------------------------------------------------
(* Each action keeps the tables and the requests under way.                     *)

LEMMA LinkKeepsBase ==
  ASSUME BaseInv, NEW w \in Workspaces, NEW c \in Customers, LinkHostedAccount(w, c)
  PROVE  BaseInv'
<1>1. OneAccount(c) /\ ledger'[c] # <<>> /\ expires' \in [Customers -> 0 .. MaxTime + PromoLife]
  <2>1. now + PromoLife \in 0 .. MaxTime + PromoLife
    BY Constants DEF BaseInv, HostingTypes, CounterTypes, Time
  <2>2. CASE Opened(c) /\ UNCHANGED money
    BY <2>2, Kept DEF OneAccount, money, Opened, BaseInv, HostingTypes, CounterTypes
  <2>3. CASE /\ promo' = [promo EXCEPT ![c] = Welcome]
             /\ expires' = [expires EXCEPT ![c] = now + PromoLife]
             /\ ledger' = [ledger EXCEPT ![c] = <<Entry(<<"welcome">>, Welcome, 0, Welcome)>>]
             /\ UNCHANGED <<paid, depleted>>
    <3>1. Entry(<<"welcome">>, Welcome, 0, Welcome) \in EntryRecords /\ Welcome \in 0 .. Welcome
      <4>1. Welcome \in Int /\ 0 \in Int /\ Welcome \in 0 .. Welcome
        BY Constants
      <4> QED BY <4>1, KeysThereAre, EntryTyped
    <3> DEFINE s == <<Entry(<<"welcome">>, Welcome, 0, Welcome)>>
    <3>2. s \in Seq(EntryRecords) /\ s # <<>>
      BY <3>1
    <3> HIDE DEF s
    <3>3. ledger' = [ledger EXCEPT ![c] = s]
      BY <2>3 DEF s
    <3>4. MoneyTypes' /\ ledger'[c] # <<>>
      BY <2>3, <3>1, <3>2, <3>3 DEF MoneyTypes, BaseInv, HostingTypes
    <3>5. \A d \in Customers : Opened(d) => Opened(d)'
      BY <3>2, <3>3 DEF Opened, MoneyTypes, BaseInv, HostingTypes
    <3>6. \A d \in Customers \ {c} : paid'[d] = paid[d] /\ promo'[d] = promo[d]
      BY <2>3 DEF MoneyTypes, BaseInv, HostingTypes
    <3>7. expires' \in [Customers -> 0 .. MaxTime + PromoLife]
      BY <2>1, <2>3 DEF BaseInv, HostingTypes, CounterTypes
    <3> QED BY <3>4, <3>5, <3>6, <3>7 DEF OneAccount
  <2> QED BY <2>2, <2>3 DEF LinkHostedAccount
<1>2. /\ link[w] = Nobody /\ accountLock[c] = Nobody
      /\ link' = [link EXCEPT ![w] = c] /\ enabled' = [enabled EXCEPT ![w] = now]
      /\ UNCHANGED <<now, hours, payments, locks, req, row, meter, asked, faults>>
  BY DEF LinkHostedAccount
<1>3. MeterTypes'
  BY <1>2 DEF BaseInv, HostingTypes, MeterTypes, CounterTypes, meter
<1>4. LockTypes' /\ LocksAreHeld'
  BY <1>1, <1>2, LocksUnderALink
<1>5. RequestTypes'
  BY <1>2 DEF BaseInv, HostingTypes, RequestTypes, payments
<1>6. \A v \in Workspaces : LinkIsNamed(v)
  <2>1. link'[w] = c /\ \A v \in Workspaces \ {w} : link'[v] = link[v]
    BY <1>2 DEF BaseInv, HostingTypes, MeterTypes
  <2> QED BY <1>1, <1>2, <2>1 DEF LinkIsNamed
<1>7. AccountsAreOpened'
  <2>1. \A q \in Procs : RequestIsNamed(q)
    BY <1>2 DEF RequestIsNamed
  <2>2. (\A o \in Orders : OrderIsNamed(o)) /\ \A t \in Towers : TickIsNamed(t)
    BY <1>2, Kept
  <2>3. \A d \in Customers : Opened(d) => Opened(d)'
    BY <1>1 DEF OneAccount
  <2> QED BY <1>3, <1>5, <1>6, <2>1, <2>2, <2>3, NamesStay
<1>8. CounterTypes'
  BY <1>1, <1>2 DEF BaseInv, HostingTypes, CounterTypes
<1> QED BY <1>1, <1>3, <1>4, <1>5, <1>7, <1>8 DEF BaseInv, HostingTypes, OneAccount

LEMMA AskGrantKeepsBase ==
  ASSUME BaseInv, NEW p \in Clients, NEW c \in Customers, NEW k \in GrantKeys,
         NEW amount \in Amounts, AskGrant(p, c, k, amount)
  PROVE  BaseInv'
<1> DEFINE r == [kind |-> "grant", account |-> c, key |-> k, amount |-> amount, at |-> now]
<1>1. p \in Procs /\ req[p] = Idle /\ Opened(c) /\ req' = [req EXCEPT ![p] = r]
  BY Constants DEF AskGrant
<1>2. r \in Requests /\ r.account = c /\ r.kind = "grant"
  BY DEF Requests, Grants, BaseInv, HostingTypes, CounterTypes
<1> HIDE DEF r
<1>3. UNCHANGED <<money, enrolment, payments, locks, row, meter, hours>>
  BY DEF AskGrant
<1>4. CounterTypes'
  BY Constants DEF AskGrant, BaseInv, HostingTypes, CounterTypes, money
<1>5. MeterTypes' /\ \A t \in Towers : TickIsNamed(t)
  BY <1>3, Kept
<1> QED BY <1>1, <1>2, <1>3, <1>4, <1>5, BeginsTyped

LEMMA AskCheckoutKeepsBase ==
  ASSUME BaseInv, NEW p \in Clients, NEW c \in Customers, NEW o \in Orders,
         AskCheckout(p, c, o)
  PROVE  BaseInv'
<1> DEFINE r == [kind |-> "checkout", account |-> c, order |-> o]
<1>1. p \in Procs /\ req[p] = Idle /\ Opened(c) /\ req' = [req EXCEPT ![p] = r]
  BY Constants DEF AskCheckout
<1>2. r \in Requests /\ r.account = c /\ r.kind = "checkout"
  BY DEF Requests, Checkouts
<1> HIDE DEF r
<1>3. UNCHANGED <<money, enrolment, payments, locks, row, meter, hours>>
  BY DEF AskCheckout
<1>4. CounterTypes'
  BY Constants DEF AskCheckout, BaseInv, HostingTypes, CounterTypes, money
<1>5. MeterTypes' /\ \A t \in Towers : TickIsNamed(t)
  BY <1>3, Kept
<1> QED BY <1>1, <1>2, <1>3, <1>4, <1>5, BeginsTyped

LEMMA ReceiveWebhookKeepsBase ==
  ASSUME BaseInv, NEW p \in Clients, NEW o \in Orders, ReceiveWebhook(p, o)
  PROVE  BaseInv'
<1> DEFINE r == [kind |-> "fulfil", account |-> order[o].account, order |-> o, at |-> now]
<1>1. p \in Procs /\ req[p] = Idle /\ session[o] = "paid" /\ req' = [req EXCEPT ![p] = r]
  BY Constants DEF ReceiveWebhook, ToFulfil
<1>2. order[o].account \in Customers /\ Opened(order[o].account)
  BY <1>1 DEF BaseInv, AccountsAreOpened, HostingTypes, RequestTypes, OrderRows
<1>3. r \in Requests /\ r.account = order[o].account /\ r.kind = "fulfil"
  BY <1>2 DEF Requests, Fulfilments, BaseInv, HostingTypes, CounterTypes
<1> HIDE DEF r
<1>4. UNCHANGED <<now, money, enrolment, payments, locks, row, meter, hours, asked, faults>>
  BY DEF ReceiveWebhook
<1>5. CounterTypes'
  BY <1>4, Kept DEF money
<1>6. MeterTypes' /\ \A t \in Towers : TickIsNamed(t)
  BY <1>4, Kept
<1> QED BY <1>1, <1>2, <1>3, <1>4, <1>5, <1>6, BeginsTyped

LEMMA MeterHourKeepsBase ==
  ASSUME BaseInv, NEW t \in Towers, MeterHour(t)
  PROVE  BaseInv'
<1>1. /\ t \in Procs /\ tick[t] # NoTick /\ req[t] = Idle
      /\ tick[t].next <= HourOf(tick[t].at) /\ tick[t].left # 0
      /\ tick[t] \in Ticks
  <2>1. tick[t] \in Ticks
    BY DEF BaseInv, HostingTypes, MeterTypes
  <2>2. tick[t] # NoTick /\ req[t] = Idle /\ ~Visited(t)
    BY DEF MeterHour
  <2>3. tick[t].at \in Time
    BY <2>2 DEF BaseInv, AccountsAreOpened, TickIsLinked
  <2>4. tick[t].next \in Int /\ HourOf(tick[t].at) \in Int
    BY <2>1, <2>3, HoursOfTimes, Constants DEF Ticks, NextHours
  <2> QED BY <2>1, <2>2, <2>4, Constants DEF Visited
<1>2. /\ tick[t].at \in Time /\ tick[t].w \in Workspaces /\ link[tick[t].w] \in Customers
      /\ Opened(link[tick[t].w])
  <2>1. TickIsLinked(t)
    BY DEF BaseInv, AccountsAreOpened
  <2> QED BY <1>1, <2>1 DEF TickIsLinked, BaseInv, AccountsAreOpened, HostingTypes, MeterTypes
<1>3. /\ tick[t].next \in Hours /\ tick[t].next + 1 \in NextHours
      /\ tick[t].left - 1 \in 0 .. Batch
  <2>1. HourOf(tick[t].at) \in 0 .. HourOf(MaxTime)
    BY <1>2, HoursOfTimes DEF Hours
  <2>2. tick[t].next \in 0 .. HourOf(MaxTime) + 1 /\ tick[t].left \in 0 .. Batch
    BY <1>1 DEF Ticks, NextHours
  <2> QED BY <1>1, <2>1, <2>2, Constants DEF Hours, NextHours
<1> DEFINE h == tick[t].next
           sample(bytes) == IF h = HourOf(tick[t].at)
                            THEN [hour |-> HourOf(now), bytes |-> bytes] ELSE NoSample
           r(bytes) == [kind |-> "audit", account |-> link[tick[t].w], w |-> tick[t].w,
                        hour |-> h, at |-> tick[t].at, sample |-> sample(bytes)]
<1>4. PICK bytes \in Readings \cup {Unavailable} : req' = [req EXCEPT ![t] = r(bytes)]
  BY Zenon DEF MeterHour
<1>5. sample(bytes) \in Samples
  <2>1. HourOf(now) \in Hours
    BY HoursOfTimes DEF BaseInv, HostingTypes, CounterTypes
  <2> QED BY <2>1 DEF Samples, NoSample
<1>6. r(bytes) \in Requests /\ r(bytes).account = link[tick[t].w] /\ r(bytes).kind = "audit"
  <2> HIDE DEF sample
  <2> QED BY <1>2, <1>3, <1>5 DEF Requests, Audits
<1> HIDE DEF r
<1>7. /\ UNCHANGED <<now, money, enrolment, hours, payments, locks, row, singleton, asked, faults>>
      /\ tick' = [tick EXCEPT ![t].next = @ + 1, ![t].left = @ - 1]
  BY DEF MeterHour
<1>8. CounterTypes'
  BY <1>7, Kept DEF money
<1>9. MeterTypes' /\ \A u \in Towers : TickIsNamed(u)
  <2>1. tick' = [tick EXCEPT ![t] = [tick[t] EXCEPT !.next = tick[t].next + 1,
                                                    !.left = tick[t].left - 1]]
    BY <1>7
  <2>2. [tick[t] EXCEPT !.next = tick[t].next + 1, !.left = tick[t].left - 1] \in Ticks
    BY <1>1, <1>3 DEF Ticks
  <2>3. tick' \in [Towers -> Ticks]
    BY <2>1, <2>2 DEF BaseInv, HostingTypes, MeterTypes
  <2>4. MeterTypes'
    BY <1>7, <2>3 DEF BaseInv, HostingTypes, MeterTypes, enrolment
  <2>5. /\ \A u \in Towers \ {t} : tick'[u] = tick[u]
        /\ tick'[t].at = tick[t].at /\ tick'[t].w = tick[t].w /\ tick'[t].rest = tick[t].rest
    BY <1>1, <2>1 DEF BaseInv, HostingTypes, MeterTypes, Ticks
  <2>6. link' = link
    BY <1>7 DEF enrolment
  <2>7. TickIsLinked(t)'
    BY <1>1, <1>2, <2>5, <2>6, Constants DEF TickIsLinked, BaseInv, AccountsAreOpened
  <2> QED BY <2>4, <2>5, <2>7 DEF TickIsNamed
<1>10. UNCHANGED <<money, enrolment, payments, locks, row>>
  BY <1>7
<1>11. r(bytes).account \in Customers /\ Opened(r(bytes).account)
       /\ r(bytes).kind \notin {"session", "bind"}
  BY <1>2, <1>6
<1> QED BY <1>1, <1>4, <1>6, <1>8, <1>9, <1>10, <1>11, BeginsTyped

LEMMA LockAccountKeepsBase ==
  ASSUME BaseInv, NEW p \in Procs, LockAccount(p)
  PROVE  BaseInv'
<1>1. UNCHANGED <<now, money, enrolment, hours, payments, req, meter, asked, faults>>
  BY DEF LockAccount, TakesAccount
<1>2. MoneyTypes' /\ MeterTypes' /\ CounterTypes'
  BY <1>1, Kept DEF money
<1>3. RequestTypes' /\ \A q \in Procs : RequestIsNamed(q)
  BY <1>1 DEF BaseInv, HostingTypes, RequestTypes, payments, RequestIsNamed
<1>4. AccountsAreOpened'
  BY <1>1, <1>2, <1>3, Kept, NamesStay
<1> QED BY <1>2, <1>3, <1>4, TakesARow DEF BaseInv, HostingTypes

LEMMA LockOrderKeepsBase ==
  ASSUME BaseInv, NEW p \in Procs, LockOrder(p)
  PROVE  BaseInv'
<1>1. UNCHANGED <<now, money, enrolment, hours, payments, req, meter, asked, faults>>
  BY DEF LockOrder
<1>2. MoneyTypes' /\ MeterTypes' /\ CounterTypes'
  BY <1>1, Kept DEF money
<1>3. RequestTypes' /\ \A q \in Procs : RequestIsNamed(q)
  BY <1>1 DEF BaseInv, HostingTypes, RequestTypes, payments, RequestIsNamed
<1>4. AccountsAreOpened'
  BY <1>1, <1>2, <1>3, Kept, NamesStay
<1> QED BY <1>2, <1>3, <1>4, TakesAnOrder DEF BaseInv, HostingTypes

(* A grant adds nothing, writes off what lapsed, or credits the paid balance.   *)
LEMMA GrantKeepsBase ==
  ASSUME BaseInv, NEW p \in Clients, GrantHostingCredit(p)
  PROVE  BaseInv'
<1>1. /\ p \in Procs /\ HasAccount(p) /\ Ends(p) /\ req[p].kind = "grant"
      /\ UNCHANGED <<now, enrolment, hours, payments, meter, asked, faults>>
  BY Constants DEF GrantHostingCredit
<1>2. UNCHANGED money \/ (OneAccount(req[p].account) /\ expires' = expires)
  <2>1. req[p].amount \in Nat /\ <<"admin", req[p].key>> \in Keys
    BY <1>1, RequestTyped, KeysThereAre, HostingAssumption DEF Grants
  <2>2. \/ UNCHANGED money \/ OnlyLapses(p)
        \/ Credits(p, req[p].amount, <<"admin", req[p].key>>)
    BY Zenon DEF GrantHostingCredit
  <2> QED BY <1>1, <2>1, <2>2, OnlyLapsesTyped, CreditsTyped
<1>3. /\ MeterTypes' /\ (\A o \in Orders : OrderIsNamed(o)) /\ \A t \in Towers : TickIsNamed(t)
  BY <1>1, Kept
<1>4. order' \in [Orders -> OrderRows] /\ UNCHANGED session /\ faults' \in 0 .. MaxFaults
  BY <1>1 DEF payments, BaseInv, HostingTypes, RequestTypes, CounterTypes
<1> QED BY <1>1, <1>2, <1>3, <1>4, EndsTyped

LEMMA FulfilDuplicateKeepsBase ==
  ASSUME BaseInv, NEW p \in Clients, FulfilDuplicate(p)
  PROVE  BaseInv'
<1>1. /\ p \in Procs /\ Ends(p)
      /\ UNCHANGED <<now, money, enrolment, hours, payments, meter, asked, faults>>
  BY Constants DEF FulfilDuplicate
<1>2. /\ MeterTypes' /\ (\A o \in Orders : OrderIsNamed(o)) /\ \A t \in Towers : TickIsNamed(t)
  BY <1>1, Kept
<1>3. order' \in [Orders -> OrderRows] /\ UNCHANGED session /\ faults' \in 0 .. MaxFaults
  BY <1>1 DEF payments, BaseInv, HostingTypes, RequestTypes, CounterTypes
<1> QED BY <1>1, <1>2, <1>3, EndsTyped

LEMMA FulfillKeepsBase ==
  ASSUME BaseInv, NEW p \in Clients, FulfillHostingCheckout(p)
  PROVE  BaseInv'
<1> DEFINE o == req[p].order
<1>1. /\ p \in Procs /\ HasAccount(p) /\ Ends(p) /\ req[p].kind = "fulfil"
      /\ order' = [order EXCEPT ![o].session = TRUE, ![o].fulfilled = TRUE]
      /\ Credits(p, Price, <<"stripe", o>>)
      /\ UNCHANGED <<now, enrolment, hours, session, meter, asked, faults>>
  BY Constants DEF FulfillHostingCheckout
<1>2. o \in Orders
  BY <1>1, RequestTyped DEF Fulfilments
<1>3. OneAccount(req[p].account) /\ expires' = expires
  BY <1>1, <1>2, KeysThereAre, Constants, CreditsTyped
<1>4. /\ order' \in [Orders -> OrderRows]
      /\ \A d \in Orders : order'[d].account = order[d].account
  <2> DEFINE e == [order[o] EXCEPT !.session = TRUE, !.fulfilled = TRUE]
  <2>1. order \in [Orders -> OrderRows] /\ order[o] \in OrderRows
    BY <1>2 DEF BaseInv, HostingTypes, RequestTypes
  <2>2. e \in OrderRows /\ e.account = order[o].account
    BY <2>1 DEF OrderRows
  <2>3. order' = [order EXCEPT ![o] = e]
    BY <1>1
  <2> HIDE DEF e
  <2> QED BY <1>2, <2>1, <2>2, <2>3
<1>5. \A d \in Orders : OrderIsNamed(d)
  BY <1>1, <1>4 DEF OrderIsNamed
<1>6. MeterTypes' /\ \A t \in Towers : TickIsNamed(t)
  BY <1>1, Kept
<1>7. faults' \in 0 .. MaxFaults
  BY <1>1 DEF BaseInv, HostingTypes, CounterTypes
<1> QED BY <1>1, <1>3, <1>4, <1>5, <1>6, <1>7, EndsTyped

LEMMA AuditKeepsBase ==
  ASSUME BaseInv, NEW p \in Towers, AuditHostingHour(p)
  PROVE  BaseInv'
<1> DEFINE r == req[p]
<1>1. /\ p \in Procs /\ HasAccount(p) /\ r \in Audits /\ Ends(p)
      /\ UNCHANGED <<now, enrolment, payments, meter, asked, faults>>
  BY Constants, AuditActs
<1>2. OneAccount(r.account) /\ expires' = expires
  BY <1>1, AuditActs, OnlyLapsesTyped, ChargesTyped
<1>3. /\ r.w \in Workspaces /\ r.hour \in Hours /\ r.sample.hour \in Hours \cup {Never}
      /\ AuditStatus(r) \in Statuses
      /\ AuditStatus(r) = "charged" => Bytes(r) \in Nat
  BY <1>1, AuditedRequest DEF BaseInv, HostingTypes
<1>4. hours' \in [Workspaces -> [Hours -> HourRecords]]
  <2>1. \/ UNCHANGED hours
        \/ \E e \in HourRecords : hours' = [hours EXCEPT ![r.w][r.hour] = e]
    <3>1. Evidence(AuditStatus(r), 0, r.sample.hour) \in HourRecords
      BY <1>3 DEF Evidence, HourRecords
    <3>2. AuditStatus(r) = "charged" => Evidence("charged", Bytes(r), r.sample.hour) \in HourRecords
      BY <1>3 DEF Evidence, HourRecords
    <3> QED BY <1>1, <3>1, <3>2, AuditActs
  <2>2. ASSUME NEW e \in HourRecords, hours' = [hours EXCEPT ![r.w][r.hour] = e]
        PROVE  hours' \in [Workspaces -> [Hours -> HourRecords]]
    <3>1. hours' = [hours EXCEPT ![r.w] = [hours[r.w] EXCEPT ![r.hour] = e]]
      BY <2>2
    <3>2. hours \in [Workspaces -> [Hours -> HourRecords]]
      BY DEF BaseInv, HostingTypes, MeterTypes
    <3>3. [hours[r.w] EXCEPT ![r.hour] = e] \in [Hours -> HourRecords]
      BY <1>3, <3>2
    <3> QED BY <3>1, <3>2, <3>3
  <2> QED BY <2>1, <2>2 DEF BaseInv, HostingTypes, MeterTypes
<1>5. MeterTypes'
  BY <1>1, <1>4 DEF BaseInv, HostingTypes, MeterTypes, enrolment, meter
<1>6. (\A o \in Orders : OrderIsNamed(o)) /\ \A t \in Towers : TickIsNamed(t)
  BY <1>1, Kept
<1>7. order' \in [Orders -> OrderRows] /\ UNCHANGED session /\ faults' \in 0 .. MaxFaults
  BY <1>1 DEF payments, BaseInv, HostingTypes, RequestTypes, CounterTypes
<1> QED BY <1>1, <1>2, <1>5, <1>6, <1>7, EndsTyped

LEMMA UndoKeepsBase ==
  ASSUME BaseInv, NEW p \in Procs, Undo(p), faults' \in 0 .. MaxFaults
  PROVE  BaseInv'
<1>1. /\ Ends(p) /\ UNCHANGED <<now, money, enrolment, hours, payments, asked>>
      /\ UNCHANGED meter \/ (p \in Towers /\ Quits(p))
  BY DEF Undo
<1>2. MeterTypes' /\ \A t \in Towers : TickIsNamed(t)
  <2>1. CASE UNCHANGED meter
    BY <1>1, <2>1, Kept
  <2>2. CASE p \in Towers /\ Quits(p)
    <3>1. NoTick \in Ticks
      BY Constants DEF NoTick, Ticks, NextHours
    <3>2. tick' \in [Towers -> Ticks] /\ singleton' \in Towers \cup {Nobody}
      BY <2>2, <3>1 DEF Quits, BaseInv, HostingTypes, MeterTypes
    <3>3. MeterTypes'
      BY <1>1, <3>2 DEF BaseInv, HostingTypes, MeterTypes, enrolment
    <3> QED BY <2>2, <3>3 DEF Quits, TickIsNamed, BaseInv, HostingTypes, MeterTypes
  <2> QED BY <1>1, <2>1, <2>2
<1>3. /\ order' \in [Orders -> OrderRows] /\ UNCHANGED session
      /\ \A o \in Orders : OrderIsNamed(o)
  BY <1>1, Kept DEF payments, BaseInv, HostingTypes, RequestTypes
<1> QED BY <1>1, <1>2, <1>3, EndsTyped

LEMMA FailuresKeepBase ==
  ASSUME BaseInv, NEW p \in Procs, Abort(p) \/ DeadlockVictim(p)
  PROVE  BaseInv'
<1>1. Undo(p) /\ faults' \in 0 .. MaxFaults
  BY Constants DEF Abort, DeadlockVictim, BaseInv, HostingTypes, CounterTypes
<1> QED BY <1>1, UndoKeepsBase

(* The order has its account from here on.                                      *)
LEMMA CreateCheckoutKeepsBase ==
  ASSUME BaseInv, NEW p \in Clients, CreateHostingCheckout(p)
  PROVE  BaseInv'
<1> DEFINE o == req[p].order
           c == req[p].account
           r == [req[p] EXCEPT !.kind = "session"]
<1>1. /\ p \in Procs /\ req[p].kind = "checkout" /\ HasAccount(p) /\ Release(p)
      /\ order' = [order EXCEPT ![o].account = c]
      /\ req' = [req EXCEPT ![p] = r] /\ row' = [row EXCEPT ![p] = Unread]
      /\ UNCHANGED <<now, money, enrolment, hours, session, meter, asked, faults>>
  BY Constants DEF CreateHostingCheckout
<1>2. /\ req[p] \in Checkouts /\ o \in Orders /\ c \in Customers /\ Opened(c)
  BY <1>1, RequestTyped, ReadIsCurrent DEF Checkouts
<1>3. r \in Requests /\ r.order = o /\ r.account = c /\ r.kind = "session"
  BY <1>2 DEF Requests, Checkouts
<1> HIDE DEF r
<1>4. LockTypes' /\ LocksAreHeld' /\ req' \in [Procs -> Requests]
  BY <1>1, <1>3, LocksLetGo DEF money
<1>5. /\ order' \in [Orders -> OrderRows]
      /\ \A d \in Orders \ {o} : order'[d] = order[d]
      /\ order'[o].account = c
  BY <1>1, <1>2 DEF BaseInv, HostingTypes, RequestTypes, OrderRows
<1>6. RequestTypes'
  BY <1>1, <1>4, <1>5 DEF BaseInv, HostingTypes, RequestTypes
<1>7. MoneyTypes' /\ MeterTypes' /\ CounterTypes' /\ ledger'[c] # <<>>
  BY <1>1, <1>2, Kept DEF money, Opened
<1>8. c # Nobody
  BY <1>2, Constants
<1>9. \A q \in Procs : RequestIsNamed(q)
  <2>1. req'[p] = r /\ \A q \in Procs \ {p} : req'[q] = req[q]
    BY <1>1 DEF BaseInv, HostingTypes, RequestTypes
  <2>2. RequestIsNamed(p)
    BY <1>3, <1>5, <1>7, <1>8, <2>1 DEF RequestIsNamed
  <2> QED BY <2>1, <2>2 DEF RequestIsNamed
<1>10. \A d \in Orders : OrderIsNamed(d)
  <2>1. OrderIsNamed(o)
    BY <1>1, <1>5, <1>7, <1>8 DEF OrderIsNamed
  <2>2. \A d \in Orders \ {o} : OrderIsNamed(d)
    BY <1>1, <1>5 DEF OrderIsNamed
  <2> QED BY <2>1, <2>2
<1>11. AccountsAreOpened'
  <2>1. (\A t \in Towers : TickIsNamed(t)) /\ (\A w \in Workspaces : LinkIsNamed(w))
        /\ \A d \in Customers : Opened(d) => Opened(d)'
    BY <1>1, Kept
  <2> QED BY <1>6, <1>7, <1>9, <1>10, <2>1, NamesStay
<1> QED BY <1>4, <1>6, <1>7, <1>11 DEF BaseInv, HostingTypes

(* The session is made and bound without a lock.                                *)
LEMMA SessionsKeepBase ==
  ASSUME BaseInv, NEW p \in Clients, CreateSession(p) \/ BindSession(p)
  PROVE  BaseInv'
<1> DEFINE o == req[p].order
           r == IF req[p].kind = "session" THEN [req[p] EXCEPT !.kind = "bind"] ELSE Idle
<1>1. /\ p \in Procs /\ req[p].kind \in {"session", "bind"}
      /\ req' = [req EXCEPT ![p] = r]
      /\ UNCHANGED <<now, money, enrolment, hours, locks, row, meter, asked, faults>>
      /\ \/ /\ session' = [session EXCEPT ![o] = IF @ = "none" THEN "open" ELSE @]
            /\ UNCHANGED order
         \/ order' = [order EXCEPT ![o].session = TRUE] /\ UNCHANGED session
  BY Constants DEF CreateSession, BindSession
<1>2. /\ req[p] \in Checkouts /\ o \in Orders /\ req[p].account \in Customers
      /\ order[o].account # Nobody /\ Opened(req[p].account)
  BY <1>1, RequestTyped DEF Checkouts, Idle, BaseInv, AccountsAreOpened
<1>3. /\ r \in Requests
      /\ r = Idle \/ (r.order = o /\ r.account = req[p].account)
  BY <1>2 DEF Requests, Checkouts
<1> HIDE DEF r
<1>4. LockTypes' /\ LocksAreHeld' /\ req' \in [Procs -> Requests]
  <2>1. UNCHANGED <<locks, row, paid, promo>>
    BY <1>1 DEF money
  <2> QED BY <1>1, <1>3, <2>1, WithoutLocks
<1>5. /\ order' \in [Orders -> OrderRows]
      /\ \A d \in Orders : order'[d].account = order[d].account
      /\ session' \in [Orders -> {"none", "open", "paid"}]
      /\ \A d \in Orders : session'[d] # "none" => session[d] # "none" \/ d = o
  <2>1. order \in [Orders -> OrderRows] /\ session \in [Orders -> {"none", "open", "paid"}]
    BY DEF BaseInv, HostingTypes, RequestTypes
  <2>2. CASE session' = [session EXCEPT ![o] = IF @ = "none" THEN "open" ELSE @]
             /\ UNCHANGED order
    BY <1>2, <2>1, <2>2
  <2>3. CASE order' = [order EXCEPT ![o].session = TRUE] /\ UNCHANGED session
    BY <1>2, <2>1, <2>3 DEF OrderRows
  <2> QED BY <1>1, <2>2, <2>3
<1>6. RequestTypes'
  BY <1>4, <1>5 DEF RequestTypes
<1>7. MoneyTypes' /\ MeterTypes' /\ CounterTypes' /\ ledger'[req[p].account] # <<>>
  BY <1>1, <1>2, Kept DEF money, Opened
<1>8. \A q \in Procs : RequestIsNamed(q)
  <2>1. req'[p] = r /\ \A q \in Procs \ {p} : req'[q] = req[q]
    BY <1>1 DEF BaseInv, HostingTypes, RequestTypes
  <2>2. RequestIsNamed(p)
    BY <1>2, <1>3, <1>5, <1>7, <2>1 DEF RequestIsNamed
  <2> QED BY <2>1, <2>2 DEF RequestIsNamed
<1>9. \A d \in Orders : OrderIsNamed(d)
  BY <1>2, <1>5 DEF OrderIsNamed
<1>10. AccountsAreOpened'
  <2>1. (\A t \in Towers : TickIsNamed(t)) /\ (\A w \in Workspaces : LinkIsNamed(w))
        /\ \A d \in Customers : Opened(d) => Opened(d)'
    BY <1>1, Kept
  <2> QED BY <1>6, <1>7, <1>8, <1>9, <2>1, NamesStay
<1> QED BY <1>4, <1>6, <1>7, <1>10 DEF BaseInv, HostingTypes

(* Steps that touch no lock and no request.                                     *)
LEMMA AsideFromRequests ==
  ASSUME BaseInv, UNCHANGED <<money, locks, row, req>>,
         RequestTypes', MeterTypes', CounterTypes', link' = link,
         \A o \in Orders : OrderIsNamed(o), \A t \in Towers : TickIsNamed(t)
  PROVE  BaseInv'
<1>1. LockTypes' /\ LocksAreHeld'
  BY DEF BaseInv, HostingTypes, LockTypes, LocksAreHeld, AccountRead, HasAccount, HasOrder,
         locks, money
<1>2. MoneyTypes' /\ \A d \in Customers : Opened(d) => Opened(d)'
  BY Kept
<1>3. \A q \in Procs : RequestIsNamed(q)
  BY DEF RequestIsNamed
<1>4. \A w \in Workspaces : LinkIsNamed(w)
  BY DEF LinkIsNamed
<1>5. AccountsAreOpened'
  BY <1>2, <1>3, <1>4, NamesStay
<1> QED BY <1>1, <1>2, <1>5 DEF BaseInv, HostingTypes

LEMMA PayKeepsBase ==
  ASSUME BaseInv, NEW o \in Orders, Pay(o)
  PROVE  BaseInv'
<1>1. /\ session[o] = "open" /\ session' = [session EXCEPT ![o] = "paid"]
      /\ UNCHANGED <<now, money, enrolment, hours, order, locks, req, row, meter, asked, faults>>
  BY DEF Pay
<1>2. RequestTypes' /\ \A d \in Orders : OrderIsNamed(d)
  BY <1>1 DEF BaseInv, HostingTypes, RequestTypes, OrderIsNamed
<1>3. MeterTypes' /\ CounterTypes' /\ \A t \in Towers : TickIsNamed(t)
  BY <1>1, Kept DEF money
<1>4. UNCHANGED <<money, locks, row, req>> /\ link' = link
  BY <1>1 DEF enrolment
<1> QED BY <1>2, <1>3, <1>4, AsideFromRequests

LEMMA TicksKeepBase ==
  ASSUME BaseInv, NEW t \in Towers,
         StartTick(t) \/ VisitWorkspace(t) \/ EndTick(t) \/ LoseSession(t)
  PROVE  BaseInv'
<1>1. UNCHANGED <<now, money, enrolment, hours, payments, locks, req, row, asked>>
  BY DEF StartTick, VisitWorkspace, EndTick, LoseSession
<1>2. faults' \in 0 .. MaxFaults
  <2>1. faults \in 0 .. MaxFaults
    BY DEF BaseInv, HostingTypes, CounterTypes
  <2>2. faults' = faults \/ (faults < MaxFaults /\ faults' = faults + 1)
    BY DEF StartTick, VisitWorkspace, EndTick, LoseSession
  <2> QED BY <2>1, <2>2, Constants
<1>3. tick[t] \in Ticks /\ TickIsLinked(t) /\ tick \in [Towers -> Ticks]
      /\ singleton \in Towers \cup {Nobody} /\ now \in Time
  BY DEF BaseInv, HostingTypes, MeterTypes, AccountsAreOpened, CounterTypes
<1>4. /\ tick' \in [Towers -> Ticks] /\ singleton' \in Towers \cup {Nobody}
      /\ \A u \in Towers : TickIsNamed(u)
  <2>1. CASE StartTick(t)
    <3> DEFINE items == {[w |-> w, start |-> NextHour(w)] : w \in Links}
               new == [NoTick EXCEPT !.at = now, !.rest = items]
    <3>1. \A item \in items : /\ item \in [w : Workspaces, start : NextHours]
                              /\ link[item.w] # Nobody
      BY NextHourIsNext DEF Links, BaseInv, HostingTypes
    <3> HIDE DEF items
    <3>7. items \subseteq [w : Workspaces, start : NextHours] /\ 0 \in NextHours /\ 0 \in 0 .. Batch
      BY <3>1, Constants DEF NextHours
    <3>2. new \in Ticks /\ new.at = now /\ new.rest = items /\ new.left = 0
      BY <1>3, <3>7 DEF NoTick, Ticks
    <3>3. tick' = [tick EXCEPT ![t] = new] /\ singleton' = t
      BY <2>1 DEF StartTick, items
    <3> HIDE DEF new
    <3>4. link' = link
      BY <1>1 DEF enrolment
    <3>5. TickIsLinked(t)'
      BY <1>3, <3>1, <3>2, <3>3, <3>4 DEF TickIsLinked
    <3> QED BY <1>3, <3>2, <3>3, <3>5 DEF TickIsNamed
  <2>2. CASE VisitWorkspace(t)
    <3>1. PICK item \in tick[t].rest :
            tick' = [tick EXCEPT ![t].rest = @ \ {item}, ![t].w = item.w,
                                 ![t].next = item.start, ![t].left = Batch]
      BY <2>2 DEF VisitWorkspace
    <3> DEFINE new == [tick[t] EXCEPT !.rest = tick[t].rest \ {item}, !.w = item.w,
                                      !.next = item.start, !.left = Batch]
    <3>2. tick' = [tick EXCEPT ![t] = new] /\ singleton' = singleton /\ link' = link
      BY <1>1, <2>2, <3>1 DEF VisitWorkspace, enrolment
    <3>3. item \in [w : Workspaces, start : NextHours] /\ link[item.w] # Nobody
      BY <1>3 DEF Ticks, TickIsLinked
    <3>7. /\ tick[t].rest \ {item} \subseteq [w : Workspaces, start : NextHours]
          /\ Batch \in 0 .. Batch /\ item.w \in Workspaces /\ item.start \in NextHours
      BY <1>3, <3>3, Constants DEF Ticks
    <3>4. /\ new \in Ticks /\ new.at = tick[t].at /\ new.w = item.w
          /\ new.rest = tick[t].rest \ {item}
      BY <1>3, <3>7 DEF Ticks
    <3>5. tick[t].at \in Time
      BY <1>3, <2>2 DEF VisitWorkspace, TickIsLinked
    <3> HIDE DEF new
    <3>6. TickIsLinked(t)'
      BY <1>3, <3>2, <3>3, <3>4, <3>5 DEF TickIsLinked
    <3> QED BY <1>3, <3>2, <3>4, <3>6 DEF TickIsNamed
  <2>3. CASE EndTick(t)
    <3>1. NoTick \in Ticks
      BY Constants DEF NoTick, Ticks, NextHours
    <3> QED BY <1>3, <2>3, <3>1 DEF EndTick, Quits, TickIsNamed
  <2>4. CASE LoseSession(t)
    BY <1>3, <2>4 DEF LoseSession, TickIsNamed
  <2> QED BY <2>1, <2>2, <2>3, <2>4
<1>5. MeterTypes' /\ RequestTypes' /\ CounterTypes' /\ link' = link
  BY <1>1, <1>2, <1>4
  DEF BaseInv, HostingTypes, MeterTypes, RequestTypes, CounterTypes, enrolment, payments, money
<1>6. (\A o \in Orders : OrderIsNamed(o)) /\ UNCHANGED <<money, locks, row, req>>
  BY <1>1, Kept
<1> QED BY <1>4, <1>5, <1>6, AsideFromRequests

LEMMA AdvanceKeepsBase ==
  ASSUME BaseInv, Advance
  PROVE  BaseInv'
<1>1. UNCHANGED <<money, enrolment, hours, payments, locks, req, row, meter, asked, faults>>
      /\ now' \in Time
  BY Constants DEF Advance, BaseInv, HostingTypes, CounterTypes, Time
<1>2. MeterTypes' /\ (\A o \in Orders : OrderIsNamed(o)) /\ \A t \in Towers : TickIsNamed(t)
  BY <1>1, Kept
<1>3. RequestTypes' /\ CounterTypes' /\ link' = link
  BY <1>1 DEF BaseInv, HostingTypes, RequestTypes, CounterTypes, enrolment, payments, money
<1>4. UNCHANGED <<money, locks, row, req>>
  BY <1>1
<1> QED BY <1>2, <1>3, <1>4, AsideFromRequests

LEMMA BaseInit ==
  ASSUME HostingInit
  PROVE  BaseInv
<1>1. MoneyTypes
  BY Constants DEF HostingInit, HostingStart, MoneyTypes
<1>2. RequestTypes /\ LockTypes
  BY DEF HostingInit, HostingStart, RequestTypes, LockTypes, Requests, OrderRows
<1>3. MeterTypes
  <2>1. NoTick \in Ticks /\ NoHour \in HourRecords
    BY Constants DEF NoTick, Ticks, NextHours, NoHour, HourRecords
  <2>2. 0 \in Time
    BY Constants DEF Time
  <2> QED BY <2>1, <2>2 DEF HostingInit, HostingStart, MeterTypes
<1>4. CounterTypes
  BY Constants DEF HostingInit, HostingStart, CounterTypes, Time
<1>5. LocksAreHeld
  BY DEF HostingInit, HostingStart, LocksAreHeld, HasAccount
<1>6. AccountsAreOpened
  BY DEF HostingInit, HostingStart, AccountsAreOpened, TickIsLinked, NoTick, Idle
<1> QED BY <1>1, <1>2, <1>3, <1>4, <1>5, <1>6 DEF BaseInv, HostingTypes

LEMMA BaseStep ==
  ASSUME BaseInv, [HostingNext]_hostingVars
  PROVE  BaseInv'
<1>1. CASE UNCHANGED hostingVars
  <2>1. UNCHANGED <<money, locks, row, req>> /\ link' = link
    BY <1>1 DEF hostingVars, enrolment
  <2>2. MeterTypes' /\ CounterTypes' /\ (\A o \in Orders : OrderIsNamed(o))
        /\ \A t \in Towers : TickIsNamed(t)
    BY <1>1, Kept DEF hostingVars, money
  <2>3. RequestTypes'
    BY <1>1 DEF hostingVars, payments, BaseInv, HostingTypes, RequestTypes
  <2> QED BY <2>1, <2>2, <2>3, AsideFromRequests
<1>2. CASE HostingNext
  BY <1>2, LinkKeepsBase, AskGrantKeepsBase, AskCheckoutKeepsBase, ReceiveWebhookKeepsBase,
     MeterHourKeepsBase, LockAccountKeepsBase, LockOrderKeepsBase, GrantKeepsBase,
     FulfilDuplicateKeepsBase, FulfillKeepsBase, AuditKeepsBase, FailuresKeepBase,
     CreateCheckoutKeepsBase, SessionsKeepBase, PayKeepsBase, TicksKeepBase,
     AdvanceKeepsBase DEF HostingNext
<1> QED BY <1>1, <1>2

LEMMA BaseHolds == HostingSpec => []BaseInv
BY BaseInit, BaseStep, PTL DEF HostingSpec

--------------------------------------------------------------------------------
(* The money: every balance is the end of a good log, money lifts the mark of   *)
(* exhaustion, and a movement for an order or an hour is there only if the      *)
(* order is fulfilled or the hour on record.                                    *)

MoneyInv ==
  /\ \A c \in Customers : GoodLog(ledger[c], paid[c], promo[c])
  /\ \A c \in Customers : ~Opened(c) => depleted[c] = Never
  /\ FundsRestoreWrites
  /\ \A o \in Orders, c \in Customers :
       HasKey(ledger[c], <<"stripe", o>>) => order[o].fulfilled
  /\ \A w \in Workspaces : \A h \in Hours : \A c \in Customers :
       HasKey(ledger[c], <<"usage", w, h>>) => hours[w][h] # NoHour

(* The account c comes to have this log, balance and mark; k is the only new    *)
(* key, besides that of a lapse.                                                *)
MoneyStep(c, log, x, y, z, k) ==
  /\ GoodLog(log, x, y)
  /\ log # <<>>
  /\ \/ log = ledger[c] /\ x = paid[c] /\ y = promo[c]
     \/ Len(ledger[c]) < Len(log) /\ \A i \in 1 .. Len(ledger[c]) : log[i] = ledger[c][i]
  /\ \A key : key # <<"expiry">> =>
       (HasKey(log, key) <=> HasKey(ledger[c], key) \/ key = k)
  /\ x + y > 0 => z = Never
  /\ ledger' = [ledger EXCEPT ![c] = log]
  /\ paid' = [paid EXCEPT ![c] = x]
  /\ promo' = [promo EXCEPT ![c] = y]
  /\ depleted' = [depleted EXCEPT ![c] = z]

EvidenceStays ==
  /\ \A o \in Orders : order[o].fulfilled => order'[o].fulfilled
  /\ \A w \in Workspaces : \A h \in Hours : hours[w][h] # NoHour => hours'[w][h] # NoHour
Backed(k) ==
  /\ \A o \in Orders : k = <<"stripe", o>> => order'[o].fulfilled
  /\ \A w \in Workspaces : \A h \in Hours : k = <<"usage", w, h>> => hours'[w][h] # NoHour

(* The write-off of a lapse leaves a good log.                                  *)
LEMMA LapseIsGood ==
  ASSUME BaseInv, MoneyInv, NEW p \in Procs, HasAccount(p)
  PROVE  LET c == req[p].account
             log == ledger[c] \o LapseEntry(p)
         IN  /\ GoodLog(log, paid[c], PromoLeft(p)) /\ log # <<>>
             /\ \A key : key # <<"expiry">> => (HasKey(log, key) <=> HasKey(ledger[c], key))
             /\ \/ log = ledger[c] /\ PromoLeft(p) = promo[c]
                \/ /\ Len(ledger[c]) < Len(log)
                   /\ \A i \in 1 .. Len(ledger[c]) : log[i] = ledger[c][i]
<1> DEFINE c == req[p].account
           log == ledger[c] \o LapseEntry(p)
<1>1. /\ c \in Customers /\ Opened(c)
      /\ row[p].paid = paid[c] /\ row[p].promo = promo[c]
      /\ paid[c] \in Int /\ promo[c] \in 0 .. Welcome
      /\ PromoLeft(p) = (IF Lapsed(p) THEN 0 ELSE promo[c])
  BY ReadIsCurrent
<1>2. ledger[c] \in Seq(EntryRecords) /\ GoodLog(ledger[c], paid[c], promo[c])
  BY <1>1 DEF BaseInv, HostingTypes, MoneyTypes, MoneyInv
<1>3. promo[c] \in Int /\ Len(ledger[c]) \in Nat /\ ledger[c] # <<>>
  BY <1>1, <1>2, Constants DEF Opened
<1>4. CASE Lapsed(p)
  <2> DEFINE e == Entry(<<"expiry">>, -promo[c], paid[c], 0)
  <2>1. promo[c] > 0
    BY <1>1, <1>4 DEF Lapsed
  <2>2. ~HasKey(ledger[c], <<"expiry">>)
    BY <1>2, <2>1 DEF GoodLog
  <2>3. LapseEntry(p) = <<e>>
    BY <1>1, <1>4, <2>2 DEF LapseEntry, HasEntry, HasKey
  <2>4. e \in EntryRecords /\ e.key = <<"expiry">> /\ e.paid = paid[c] /\ e.promo = 0
        /\ e.amount = -promo[c]
    <3>1. -promo[c] \in Int /\ 0 \in 0 .. Welcome /\ <<"expiry">> \in Keys
      BY <1>3, Constants, KeysThereAre
    <3> QED BY <1>1, <3>1, EntryTyped
  <2>5. e.amount = e.paid + e.promo - (paid[c] + promo[c])
    BY <1>1, <1>3, <2>4
  <2> HIDE DEF e
  <2>6. log = Append(ledger[c], e)
    BY <1>2, <2>3, <2>4, ConcatenateOne
  <2>7. /\ GoodLog(Append(ledger[c], e), paid[c], 0)
        /\ \A key : HasKey(Append(ledger[c], e), key) <=>
                      HasKey(ledger[c], key) \/ key = <<"expiry">>
        /\ Len(Append(ledger[c], e)) = Len(ledger[c]) + 1
        /\ \A i \in 1 .. Len(ledger[c]) : Append(ledger[c], e)[i] = ledger[c][i]
    <3> HIDE DEF c
    <3> QED BY <1>1, <1>2, <1>3, <2>2, <2>4, <2>5, EntryExtends
  <2>8. PromoLeft(p) = 0 /\ Append(ledger[c], e) # <<>>
    BY <1>1, <1>3, <1>4, <2>7
  <2> QED BY <1>3, <2>6, <2>7, <2>8
<1>5. CASE ~Lapsed(p)
  <2>1. log = ledger[c]
    BY <1>2, <1>5 DEF LapseEntry
  <2>2. PromoLeft(p) = promo[c]
    BY <1>1, <1>5
  <2> QED BY <1>2, <1>3, <2>1, <2>2
<1> QED BY <1>4, <1>5

LEMMA OnlyLapsesStep ==
  ASSUME BaseInv, MoneyInv, NEW p \in Procs, HasAccount(p), OnlyLapses(p)
  PROVE  LET c == req[p].account IN
         MoneyStep(c, ledger[c] \o LapseEntry(p), paid[c], PromoLeft(p), depleted[c],
                   <<"expiry">>)
<1> DEFINE c == req[p].account
           log == ledger[c] \o LapseEntry(p)
<1>1. /\ c \in Customers /\ row[p].paid = paid[c] /\ paid[c] \in Int
      /\ promo[c] \in 0 .. Welcome /\ PromoLeft(p) \in 0 .. Welcome /\ PromoLeft(p) <= promo[c]
  BY ReadIsCurrent
<1>2. paid[c] + PromoLeft(p) > 0 => depleted[c] = Never
  <2>1. paid[c] + promo[c] > 0 => depleted[c] = Never
    BY <1>1 DEF MoneyInv, FundsRestoreWrites
  <2> QED BY <1>1, <2>1, Constants
<1>3. /\ ledger' = [ledger EXCEPT ![c] = log] /\ paid' = [paid EXCEPT ![c] = paid[c]]
      /\ promo' = [promo EXCEPT ![c] = PromoLeft(p)]
      /\ depleted' = [depleted EXCEPT ![c] = depleted[c]]
  BY <1>1 DEF OnlyLapses, Writes
<1>4. /\ GoodLog(log, paid[c], PromoLeft(p)) /\ log # <<>>
      /\ \A key : key # <<"expiry">> => (HasKey(log, key) <=> HasKey(ledger[c], key))
      /\ \/ log = ledger[c] /\ PromoLeft(p) = promo[c]
         \/ /\ Len(ledger[c]) < Len(log)
            /\ \A i \in 1 .. Len(ledger[c]) : log[i] = ledger[c][i]
  BY LapseIsGood
<1> HIDE DEF c, log
<1>5. MoneyStep(c, log, paid[c], PromoLeft(p), depleted[c], <<"expiry">>)
  BY <1>2, <1>3, <1>4 DEF MoneyStep
<1> QED BY <1>5 DEF c, log

(* A movement under a new key, after what lapsed was written off.               *)
LEMMA MovementStep ==
  ASSUME BaseInv, MoneyInv, NEW p \in Procs, HasAccount(p),
         NEW k \in Keys, k # <<"expiry">>, ~HasKey(ledger[req[p].account], k),
         NEW x \in Int, NEW y \in 0 .. Welcome, y <= PromoLeft(p), NEW amount \in Int,
         amount = x + y - (paid[req[p].account] + PromoLeft(p)),
         NEW z, x + y > 0 => z = Never,
         Writes(req[p].account, x, y, z, LapseEntry(p) \o <<Entry(k, amount, x, y)>>)
  PROVE  MoneyStep(req[p].account,
                   (ledger[req[p].account] \o LapseEntry(p)) \o <<Entry(k, amount, x, y)>>,
                   x, y, z, k)
<1> DEFINE c == req[p].account
           old == ledger[c] \o LapseEntry(p)
           e == Entry(k, amount, x, y)
           log == old \o <<e>>
<1>1. /\ c \in Customers /\ paid[c] \in Int /\ promo[c] \in 0 .. Welcome
      /\ PromoLeft(p) \in 0 .. Welcome
  BY ReadIsCurrent
<1>2. /\ GoodLog(old, paid[c], PromoLeft(p)) /\ old # <<>>
      /\ \A key : key # <<"expiry">> => (HasKey(old, key) <=> HasKey(ledger[c], key))
      /\ \/ old = ledger[c] /\ PromoLeft(p) = promo[c]
         \/ /\ Len(ledger[c]) < Len(old)
            /\ \A i \in 1 .. Len(ledger[c]) : old[i] = ledger[c][i]
  BY LapseIsGood
<1>3. /\ e \in EntryRecords /\ e.key = k /\ e.amount = amount /\ e.paid = x /\ e.promo = y
  BY EntryTyped
<1>4. old \in Seq(EntryRecords) /\ ledger[c] \in Seq(EntryRecords)
  BY <1>1, <1>2 DEF GoodLog, BaseInv, HostingTypes, MoneyTypes
<1>5. log = Append(old, e)
  BY <1>3, <1>4, ConcatenateOne
<1>6. (LapseEntry(p) \o <<e>>) \in Seq(EntryRecords)
      /\ ledger[c] \o (LapseEntry(p) \o <<e>>) = log
  <2>1. LapseEntry(p) \in Seq(EntryRecords) /\ <<e>> \in Seq(EntryRecords)
    BY <1>3, LapseTyped
  <2>2. (LapseEntry(p) \o <<e>>) \in Seq(EntryRecords)
    BY <2>1, ConcatProperties
  <2> HIDE DEF e
  <2>3. ledger[c] \o (LapseEntry(p) \o <<e>>) = (ledger[c] \o LapseEntry(p)) \o <<e>>
    <3> HIDE DEF old, c
    <3> QED BY <1>4, <2>1, LogsAssociate, Zenon
  <2> QED BY <2>2, <2>3
<1>7. /\ ledger' = [ledger EXCEPT ![c] = log] /\ paid' = [paid EXCEPT ![c] = x]
      /\ promo' = [promo EXCEPT ![c] = y] /\ depleted' = [depleted EXCEPT ![c] = z]
  BY <1>6 DEF Writes
<1>8. HasKey(old, <<"expiry">>) => PromoLeft(p) = 0
  BY <1>2 DEF GoodLog
<1> HIDE DEF c, old, e, log
<1>9. HasKey(old, <<"expiry">>) \/ e.key = <<"expiry">> => e.promo = 0
  BY <1>1, <1>3, <1>8, Constants
<1>10. PromoLeft(p) \in Int
  BY <1>1, Constants
<1>11. ~HasKey(old, e.key) /\ e.amount = e.paid + e.promo - (paid[c] + PromoLeft(p))
  BY <1>2, <1>3 DEF c
<1>12. /\ GoodLog(Append(old, e), e.paid, e.promo)
       /\ \A key : HasKey(Append(old, e), key) <=> HasKey(old, key) \/ key = e.key
       /\ Len(Append(old, e)) = Len(old) + 1
       /\ \A i \in 1 .. Len(old) : Append(old, e)[i] = old[i]
  <2>1. /\ paid[c] \in Int /\ PromoLeft(p) \in Int /\ GoodLog(old, paid[c], PromoLeft(p))
        /\ e \in EntryRecords /\ ~HasKey(old, e.key)
        /\ e.amount = e.paid + e.promo - (paid[c] + PromoLeft(p))
        /\ HasKey(old, <<"expiry">>) \/ e.key = <<"expiry">> => e.promo = 0
    BY <1>1, <1>2, <1>3, <1>9, <1>10, <1>11
  <2> QED BY <2>1, EntryExtends
<1>13. Len(ledger[c]) \in Nat /\ Len(old) \in Nat
  BY <1>4
<1>14. /\ Len(ledger[c]) < Len(log) /\ log # <<>>
       /\ \A i \in 1 .. Len(ledger[c]) : log[i] = ledger[c][i]
  BY <1>2, <1>5, <1>12, <1>13
<1>15. MoneyStep(c, log, x, y, z, k)
  BY <1>2, <1>3, <1>5, <1>7, <1>12, <1>14 DEF MoneyStep
<1> QED BY <1>15 DEF c, old, e, log

LEMMA CreditsStep ==
  ASSUME BaseInv, MoneyInv, NEW p \in Procs, HasAccount(p), NEW amount \in Nat, NEW k \in Keys,
         k # <<"expiry">>, ~HasKey(ledger[req[p].account], k), Credits(p, amount, k)
  PROVE  \E log, x, y, z : MoneyStep(req[p].account, log, x, y, z, k)
<1> DEFINE c == req[p].account
           x == paid[c] + amount
           y == PromoLeft(p)
           z == Exhausted(x + y, depleted[c])
<1>1. /\ c \in Customers /\ row[p].paid = paid[c] /\ paid[c] \in Int /\ y \in 0 .. Welcome
      /\ y <= y
  BY ReadIsCurrent, Constants
<1>2. x \in Int /\ amount = x + y - (paid[c] + y) /\ amount \in Int
  BY <1>1, Constants
<1>3. x + y > 0 => z = Never
  BY DEF Exhausted
<1>4. Writes(c, x, y, z, LapseEntry(p) \o <<Entry(k, amount, x, y)>>)
  BY <1>1, Zenon DEF Credits
<1> HIDE DEF x, z
<1>5. MoneyStep(c, (ledger[c] \o LapseEntry(p)) \o <<Entry(k, amount, x, y)>>, x, y, z, k)
  BY <1>1, <1>2, <1>3, <1>4, MovementStep
<1> QED BY <1>5

(* A charge of nothing makes no movement.                                       *)
LEMMA ChargesStep ==
  ASSUME BaseInv, MoneyInv, NEW p \in Procs, HasAccount(p), req[p] \in Audits,
         AuditStatus(req[p]) = "charged", ChargesHour(p),
         ~HasKey(ledger[req[p].account], <<"usage", req[p].w, req[p].hour>>)
  PROVE  \E log, x, y, z :
           MoneyStep(req[p].account, log, x, y, z,
                     IF Bytes(req[p]) > 0 THEN <<"usage", req[p].w, req[p].hour>>
                     ELSE <<"expiry">>)
<1> DEFINE r == req[p]
           c == r.account
           debit == Bytes(r)
           k == <<"usage", r.w, r.hour>>
           left == PromoLeft(p)
           fromPromo == IF debit < left THEN debit ELSE left
           y == left - fromPromo
           x == paid[c] - (debit - fromPromo)
           z == Exhausted(x + y, GraceSince(c, r.at))
           entry == Entry(k, -debit, x, y)
<1>1. /\ c \in Customers /\ Opened(c) /\ row[p].paid = paid[c] /\ paid[c] \in Int
      /\ left \in 0 .. Welcome /\ promo[c] \in 0 .. Welcome
  BY ReadIsCurrent
<1>2. r.w \in Workspaces /\ r.hour \in Hours /\ debit \in Nat
  BY AuditedRequest DEF BaseInv, HostingTypes
<1>3. k \in Keys /\ k # <<"expiry">>
  BY <1>2, KeysThereAre
<1>4. /\ x \in Int /\ y \in 0 .. Welcome /\ y <= left /\ -debit \in Int
      /\ -debit = x + y - (paid[c] + left)
      /\ debit = 0 => x = paid[c] /\ y = left
  <2> HIDE DEF left, debit, c
  <2> QED BY <1>1, <1>2, Constants
<1>5. x + y > 0 => z = Never
  BY DEF Exhausted
<1>6. Writes(c, x, y, z, LapseEntry(p) \o (IF debit > 0 THEN <<entry>> ELSE <<>>))
  BY <1>1, Zenon DEF ChargesHour
<1> HIDE DEF x, y, z, k, debit
<1>7. CASE debit > 0
  <2>1. Writes(c, x, y, z, LapseEntry(p) \o <<entry>>)
    BY <1>6, <1>7
  <2>2. MoneyStep(c, (ledger[c] \o LapseEntry(p)) \o <<entry>>, x, y, z, k)
    BY <1>3, <1>4, <1>5, <2>1, MovementStep DEF k
  <2> QED BY <1>7, <2>2 DEF k, debit
<1>8. CASE ~(debit > 0)
  <2>1. debit = 0
    BY <1>2, <1>8
  <2> DEFINE log == ledger[c] \o LapseEntry(p)
  <2>2. LapseEntry(p) \o <<>> = LapseEntry(p)
    BY LapseTyped
  <2>3. /\ ledger' = [ledger EXCEPT ![c] = log] /\ paid' = [paid EXCEPT ![c] = x]
        /\ promo' = [promo EXCEPT ![c] = y] /\ depleted' = [depleted EXCEPT ![c] = z]
    BY <1>6, <1>8, <2>2 DEF Writes
  <2>4. /\ GoodLog(log, paid[c], left) /\ log # <<>>
        /\ \A key : key # <<"expiry">> => (HasKey(log, key) <=> HasKey(ledger[c], key))
        /\ \/ log = ledger[c] /\ left = promo[c]
           \/ /\ Len(ledger[c]) < Len(log)
              /\ \A i \in 1 .. Len(ledger[c]) : log[i] = ledger[c][i]
    BY LapseIsGood
  <2> HIDE DEF log, left, c
  <2>5. MoneyStep(c, log, x, y, z, <<"expiry">>)
    BY <1>4, <1>5, <2>1, <2>3, <2>4 DEF MoneyStep
  <2> QED BY <1>8, <2>5 DEF debit, c
<1> QED BY <1>7, <1>8

LEMMA WelcomeStep ==
  ASSUME BaseInv, MoneyInv, NEW w \in Workspaces, NEW c \in Customers, LinkHostedAccount(w, c)
  PROVE  \/ UNCHANGED <<paid, promo, depleted, ledger>>
         \/ \E log, x, y, z : MoneyStep(c, log, x, y, z, <<"welcome">>)
<1>1. CASE UNCHANGED money
  BY <1>1 DEF money
<1>2. CASE /\ ~Opened(c)
           /\ promo' = [promo EXCEPT ![c] = Welcome]
           /\ ledger' = [ledger EXCEPT ![c] = <<Entry(<<"welcome">>, Welcome, 0, Welcome)>>]
           /\ UNCHANGED <<paid, depleted>>
  <2> DEFINE e == Entry(<<"welcome">>, Welcome, 0, Welcome)
             log == Append(<<>>, e)
  <2>1. e \in EntryRecords /\ e.key = <<"welcome">> /\ e.amount = Welcome /\ e.paid = 0
        /\ e.promo = Welcome
    <3>1. Welcome \in Int /\ 0 \in Int /\ Welcome \in 0 .. Welcome
      BY Constants
    <3> QED BY <3>1, KeysThereAre, EntryTyped
  <2>2. ledger[c] = <<>> /\ paid[c] = 0 /\ depleted[c] = Never
    <3>1. LeavesBalance(ledger[c], paid[c], promo[c])
      BY DEF MoneyInv, GoodLog
    <3> QED BY <1>2, <3>1 DEF Opened, LeavesBalance, MoneyInv
  <2> HIDE DEF e
  <2>3. <<e>> = log
    OBVIOUS
  <2>4. GoodLog(<<>>, 0, 0) /\ \A key : ~HasKey(<<>>, key)
    BY EmptyIsGood
  <2>5. e.amount = e.paid + e.promo - (0 + 0) /\ 0 \in Int
    BY <2>1, Constants
  <2>6. /\ GoodLog(log, e.paid, e.promo)
        /\ \A key : HasKey(log, key) <=> HasKey(<<>>, key) \/ key = e.key
        /\ Len(log) = Len(<<>>) + 1
    <3>1. e.key # <<"expiry">> /\ ~HasKey(<<>>, e.key) /\ ~HasKey(<<>>, <<"expiry">>)
      BY <2>1, <2>4
    <3> DEFINE none == ledger[c]
               zero == paid[c]
    <3>2. none = <<>> /\ zero = 0
      BY <2>2
    <3> HIDE DEF none, zero
    <3>3. /\ GoodLog(none, zero, zero) /\ zero \in Int /\ ~HasKey(none, e.key)
          /\ e.amount = e.paid + e.promo - (zero + zero)
          /\ HasKey(none, <<"expiry">>) \/ e.key = <<"expiry">> => e.promo = 0
      BY <2>4, <2>5, <3>1, <3>2
    <3>4. /\ GoodLog(Append(none, e), e.paid, e.promo)
          /\ \A key : HasKey(Append(none, e), key) <=> HasKey(none, key) \/ key = e.key
          /\ Len(Append(none, e)) = Len(none) + 1
      <4>1. e \in EntryRecords
        BY <2>1
      <4> QED BY <3>3, <4>1, EntryExtends
    <3> QED BY <3>2, <3>4
  <2>7. Len(<<>>) = 0 /\ log # <<>>
    BY <2>3
  <2>8. /\ ledger' = [ledger EXCEPT ![c] = log] /\ paid' = [paid EXCEPT ![c] = 0]
        /\ promo' = [promo EXCEPT ![c] = Welcome]
        /\ depleted' = [depleted EXCEPT ![c] = Never]
    BY <1>2, <2>2, <2>3 DEF e, BaseInv, HostingTypes, MoneyTypes
  <2> HIDE DEF log
  <2>9. MoneyStep(c, log, 0, Welcome, Never, <<"welcome">>)
    BY <2>1, <2>2, <2>4, <2>6, <2>7, <2>8 DEF MoneyStep
  <2> QED BY <2>9
<1> QED BY <1>1, <1>2 DEF LinkHostedAccount

(* What a step does to the money and to its evidence.                           *)
MoneyMoves ==
  \E c \in Customers, k \in Keys : \E log, x, y, z : MoneyStep(c, log, x, y, z, k) /\ Backed(k)
MoneyStays == UNCHANGED <<paid, promo, depleted, ledger>>

StripeKeysStay ==
  \A o \in Orders : \A c \in Customers :
    HasKey(ledger'[c], <<"stripe", o>>) <=> HasKey(ledger[c], <<"stripe", o>>)
UsageKeysStay ==
  \A w \in Workspaces : \A h \in Hours : \A c \in Customers :
    HasKey(ledger'[c], <<"usage", w, h>>) <=> HasKey(ledger[c], <<"usage", w, h>>)
OnlyNewKey(c, k) ==
  \A d \in Customers : \A key : key # <<"expiry">> =>
    (HasKey(ledger'[d], key) <=> HasKey(ledger[d], key) \/ (d = c /\ key = k))

LEMMA OnlyTheStepsKey ==
  ASSUME BaseInv, NEW c \in Customers, NEW k, NEW log, NEW x, NEW y, NEW z,
         MoneyStep(c, log, x, y, z, k)
  PROVE  OnlyNewKey(c, k)
<1>1. ledger'[c] = log /\ \A d \in Customers \ {c} : ledger'[d] = ledger[d]
  BY DEF MoneyStep, BaseInv, HostingTypes, MoneyTypes
<1>2. \A key : key # <<"expiry">> => (HasKey(log, key) <=> HasKey(ledger[c], key) \/ key = k)
  BY DEF MoneyStep
<1> QED BY <1>1, <1>2 DEF OnlyNewKey

LEMMA OtherKeysStay ==
  ASSUME NEW c \in Customers, NEW k, OnlyNewKey(c, k)
  PROVE  /\ (\A o \in Orders : k # <<"stripe", o>>) => StripeKeysStay
         /\ (\A w \in Workspaces : \A h \in Hours : k # <<"usage", w, h>>) => UsageKeysStay
<1>1. ASSUME \A o \in Orders : k # <<"stripe", o>> PROVE StripeKeysStay
  BY <1>1 DEF OnlyNewKey, StripeKeysStay
<1>2. ASSUME \A w \in Workspaces : \A h \in Hours : k # <<"usage", w, h>> PROVE UsageKeysStay
  BY <1>2 DEF OnlyNewKey, UsageKeysStay
<1> QED BY <1>1, <1>2

LEMMA LapsesMove ==
  ASSUME BaseInv, MoneyInv, NEW p \in Procs, HasAccount(p), OnlyLapses(p)
  PROVE  MoneyMoves /\ StripeKeysStay /\ UsageKeysStay
<1>1. req[p].account \in Customers /\ <<"expiry">> \in Keys
  BY ReadIsCurrent, KeysThereAre
<1>2. Backed(<<"expiry">>)
  BY DEF Backed
<1>3. \E log, x, y, z : MoneyStep(req[p].account, log, x, y, z, <<"expiry">>)
  BY OnlyLapsesStep
<1>4. OnlyNewKey(req[p].account, <<"expiry">>)
  BY <1>1, <1>3, OnlyTheStepsKey
<1>5. StripeKeysStay /\ UsageKeysStay
  BY <1>1, <1>4, OtherKeysStay
<1> QED BY <1>1, <1>2, <1>3, <1>5 DEF MoneyMoves

LEMMA GrantMoves ==
  ASSUME BaseInv, MoneyInv, NEW p \in Clients, GrantHostingCredit(p)
  PROVE  EvidenceStays /\ (MoneyMoves \/ MoneyStays) /\ StripeKeysStay /\ UsageKeysStay
<1> DEFINE c == req[p].account
           k == <<"admin", req[p].key>>
           prior == {i \in 1 .. Len(ledger[c]) : ledger[c][i].key = k}
<1>1. /\ p \in Procs /\ HasAccount(p) /\ req[p].kind = "grant"
      /\ UNCHANGED <<hours, payments>>
      /\ \/ prior = {} /\ Credits(p, req[p].amount, k)
         \/ OnlyLapses(p) \/ UNCHANGED money
  BY Constants DEF GrantHostingCredit
<1>2. EvidenceStays
  BY <1>1 DEF EvidenceStays, payments
<1>3. req[p].amount \in Nat /\ k \in Keys /\ c \in Customers /\ k # <<"expiry">>
  BY <1>1, RequestTyped, KeysThereAre, HostingAssumption, ReadIsCurrent DEF Grants
<1>4. Backed(k)
  BY DEF Backed
<1>5. CASE prior = {} /\ Credits(p, req[p].amount, k)
  <2>1. ~HasKey(ledger[c], k)
    BY <1>5 DEF HasKey
  <2>2. /\ \A o \in Orders : k # <<"stripe", o>>
        /\ \A w \in Workspaces : \A h \in Hours : k # <<"usage", w, h>>
    OBVIOUS
  <2> HIDE DEF k
  <2>3. \E log, x, y, z : MoneyStep(c, log, x, y, z, k)
    BY <1>1, <1>3, <1>5, <2>1, CreditsStep
  <2>4. OnlyNewKey(c, k)
    BY <1>3, <2>3, OnlyTheStepsKey
  <2>5. StripeKeysStay /\ UsageKeysStay
    BY <1>3, <2>2, <2>4, OtherKeysStay
  <2> QED BY <1>2, <1>3, <1>4, <2>3, <2>5 DEF MoneyMoves
<1>6. CASE OnlyLapses(p)
  BY <1>1, <1>2, <1>6, LapsesMove
<1>7. CASE UNCHANGED money
  BY <1>2, <1>7 DEF MoneyStays, money, StripeKeysStay, UsageKeysStay
<1> QED BY <1>1, <1>5, <1>6, <1>7

LEMMA FulfillMoves ==
  ASSUME BaseInv, MoneyInv, NEW p \in Clients, FulfillHostingCheckout(p)
  PROVE  /\ EvidenceStays /\ MoneyMoves /\ UsageKeysStay
         /\ OnlyNewKey(req[p].account, <<"stripe", req[p].order>>)
<1> DEFINE c == req[p].account
           o == req[p].order
           k == <<"stripe", o>>
<1>1. /\ p \in Procs /\ HasAccount(p) /\ req[p].kind = "fulfil" /\ ~order[o].fulfilled
      /\ order' = [order EXCEPT ![o].session = TRUE, ![o].fulfilled = TRUE]
      /\ Credits(p, Price, k) /\ UNCHANGED hours
  BY Constants DEF FulfillHostingCheckout
<1>2. o \in Orders /\ c \in Customers /\ k \in Keys /\ k # <<"expiry">> /\ Price \in Nat
  BY <1>1, RequestTyped, KeysThereAre, Constants, ReadIsCurrent DEF Fulfilments
<1>3. order'[o].fulfilled /\ \A d \in Orders \ {o} : order'[d] = order[d]
  BY <1>1, <1>2 DEF BaseInv, HostingTypes, RequestTypes, OrderRows
<1>4. EvidenceStays /\ Backed(k)
  BY <1>1, <1>2, <1>3 DEF EvidenceStays, Backed
<1>5. ~HasKey(ledger[c], k)
  BY <1>1, <1>2 DEF MoneyInv
<1>6. \A w \in Workspaces : \A h \in Hours : k # <<"usage", w, h>>
  OBVIOUS
<1> HIDE DEF k
<1>7. \E log, x, y, z : MoneyStep(c, log, x, y, z, k)
  BY <1>1, <1>2, <1>5, CreditsStep
<1>8. OnlyNewKey(c, k) /\ UsageKeysStay
  <2>1. OnlyNewKey(c, k)
    BY <1>2, <1>7, OnlyTheStepsKey
  <2> QED BY <1>2, <1>6, <2>1, OtherKeysStay
<1> QED BY <1>2, <1>4, <1>7, <1>8 DEF MoneyMoves, k

LEMMA AuditMoves ==
  ASSUME BaseInv, MoneyInv, NEW p \in Towers, AuditHostingHour(p)
  PROVE  /\ EvidenceStays /\ MoneyMoves /\ StripeKeysStay
         /\ \/ UNCHANGED hours /\ UsageKeysStay
            \/ /\ hours[req[p].w][req[p].hour] = NoHour
               /\ AuditStatus(req[p]) # "charged" /\ UsageKeysStay
               /\ hours' = [hours EXCEPT ![req[p].w][req[p].hour] =
                    Evidence(AuditStatus(req[p]), 0, req[p].sample.hour)]
            \/ /\ hours[req[p].w][req[p].hour] = NoHour
               /\ AuditStatus(req[p]) = "charged"
               /\ OnlyNewKey(req[p].account,
                    IF Bytes(req[p]) > 0 THEN <<"usage", req[p].w, req[p].hour>>
                    ELSE <<"expiry">>)
               /\ hours' = [hours EXCEPT ![req[p].w][req[p].hour] =
                    Evidence("charged", Bytes(req[p]), req[p].sample.hour)]
<1> DEFINE r == req[p]
           k == <<"usage", r.w, r.hour>>
<1>1. /\ p \in Procs /\ HasAccount(p) /\ r \in Audits
      /\ UNCHANGED payments
  BY Constants, AuditActs
<1>2. /\ r.w \in Workspaces /\ r.hour \in Hours /\ AuditStatus(r) \in Statuses
      /\ r.account \in Customers /\ k \in Keys /\ <<"expiry">> \in Keys
  BY <1>1, AuditedRequest, KeysThereAre DEF BaseInv, HostingTypes
<1>3. \/ UNCHANGED hours
      \/ /\ hours[r.w][r.hour] = NoHour
         /\ \E e : e # NoHour /\ hours' = [hours EXCEPT ![r.w][r.hour] = e]
  <2>1. \A d, h : \A s \in Statuses : Evidence(s, d, h) # NoHour
    BY DEF Statuses, Evidence, NoHour
  <2>2. "charged" \in Statuses
    BY DEF Statuses
  <2>3. ASSUME hours[r.w][r.hour] = NoHour, NEW e, e # NoHour,
               hours' = [hours EXCEPT ![r.w][r.hour] = e]
        PROVE  /\ hours[r.w][r.hour] = NoHour
               /\ \E f : f # NoHour /\ hours' = [hours EXCEPT ![r.w][r.hour] = f]
    BY <2>3
  <2>4. /\ Evidence(AuditStatus(r), 0, r.sample.hour) # NoHour
        /\ Evidence("charged", Bytes(r), r.sample.hour) # NoHour
    BY <1>2, <2>1, <2>2
  <2> QED BY <1>1, <2>3, <2>4, AuditActs
<1>4. /\ hours \in [Workspaces -> [Hours -> HourRecords]]
      /\ order' = order
  BY <1>1 DEF BaseInv, HostingTypes, MeterTypes, payments
<1>5. /\ EvidenceStays
      /\ UNCHANGED hours \/ hours'[r.w][r.hour] # NoHour
  <2>1. ASSUME hours[r.w][r.hour] = NoHour, NEW e, e # NoHour,
               hours' = [hours EXCEPT ![r.w][r.hour] = e]
        PROVE  /\ hours'[r.w][r.hour] # NoHour
               /\ \A w \in Workspaces : \A h \in Hours :
                    hours[w][h] # NoHour => hours'[w][h] # NoHour
    <3>1. hours' = [hours EXCEPT ![r.w] = [hours[r.w] EXCEPT ![r.hour] = e]]
      BY <2>1
    <3>2. hours[r.w] \in [Hours -> HourRecords]
      BY <1>2, <1>4
    <3>3. /\ hours'[r.w] = [hours[r.w] EXCEPT ![r.hour] = e]
          /\ \A w \in Workspaces \ {r.w} : hours'[w] = hours[w]
      BY <1>2, <1>4, <3>1
    <3> QED BY <1>2, <2>1, <3>2, <3>3
  <2> QED BY <1>3, <1>4, <2>1 DEF EvidenceStays
<1>6. CASE /\ hours[r.w][r.hour] = NoHour /\ AuditStatus(r) = "charged" /\ ChargesHour(p)
           /\ hours' = [hours EXCEPT ![r.w][r.hour] = Evidence("charged", Bytes(r), r.sample.hour)]
  <2>1. ~HasKey(ledger[r.account], k)
    BY <1>2, <1>6 DEF MoneyInv
  <2>2. hours'[r.w][r.hour] # NoHour
    BY <1>2, <1>4, <1>6 DEF Evidence, NoHour
  <2>3. Backed(k) /\ Backed(<<"expiry">>)
    BY <1>2, <2>2 DEF Backed
  <2> DEFINE new == IF Bytes(r) > 0 THEN k ELSE <<"expiry">>
  <2>4. new \in Keys /\ Backed(new)
    BY <1>2, <2>3
  <2>5. \E log, x, y, z : MoneyStep(r.account, log, x, y, z, new)
    BY <1>1, <1>6, <2>1, ChargesStep
  <2>6. \A o \in Orders : new # <<"stripe", o>>
    OBVIOUS
  <2> HIDE DEF new
  <2>7. OnlyNewKey(r.account, new)
    BY <1>2, <2>5, OnlyTheStepsKey
  <2>8. StripeKeysStay
    BY <1>2, <2>6, <2>7, OtherKeysStay
  <2> QED BY <1>2, <1>5, <1>6, <2>4, <2>5, <2>7, <2>8 DEF MoneyMoves, new
<1>7. CASE OnlyLapses(p)
  <2>1. MoneyMoves /\ StripeKeysStay /\ UsageKeysStay
    BY <1>1, <1>7, LapsesMove
  <2>2. \/ UNCHANGED hours
        \/ /\ hours[r.w][r.hour] = NoHour /\ AuditStatus(r) # "charged"
           /\ hours' = [hours EXCEPT ![r.w][r.hour] =
                          Evidence(AuditStatus(r), 0, r.sample.hour)]
        \/ /\ hours[r.w][r.hour] = NoHour /\ AuditStatus(r) = "charged" /\ ChargesHour(p)
           /\ hours' = [hours EXCEPT ![r.w][r.hour] = Evidence("charged", Bytes(r), r.sample.hour)]
    BY <1>1, AuditActs
  <2> QED BY <1>5, <1>6, <2>1, <2>2
<1> QED BY <1>1, <1>6, <1>7, AuditActs

LEMMA LinkMoves ==
  ASSUME BaseInv, MoneyInv, NEW w \in Workspaces, NEW c \in Customers, LinkHostedAccount(w, c)
  PROVE  EvidenceStays /\ (MoneyMoves \/ MoneyStays) /\ StripeKeysStay /\ UsageKeysStay
<1>1. EvidenceStays
  BY DEF LinkHostedAccount, EvidenceStays, payments
<1>2. Backed(<<"welcome">>) /\ <<"welcome">> \in Keys
  BY KeysThereAre DEF Backed
<1>3. CASE MoneyStays
  BY <1>1, <1>3 DEF MoneyStays, StripeKeysStay, UsageKeysStay
<1>4. CASE \E log, x, y, z : MoneyStep(c, log, x, y, z, <<"welcome">>)
  <2>1. OnlyNewKey(c, <<"welcome">>)
    BY <1>4, OnlyTheStepsKey
  <2>2. StripeKeysStay /\ UsageKeysStay
    BY <2>1, OtherKeysStay
  <2> QED BY <1>1, <1>2, <1>4, <2>2 DEF MoneyMoves
<1> QED BY <1>3, <1>4, WelcomeStep DEF MoneyStays

(* No other action touches the money, takes back a fulfilment or an hour.       *)
LEMMA OthersMoveNothing ==
  ASSUME BaseInv, HostingNext
  PROVE  \/ EvidenceStays /\ MoneyStays
         \/ \E w \in Workspaces, c \in Customers : LinkHostedAccount(w, c)
         \/ \E p \in Clients : GrantHostingCredit(p) \/ FulfillHostingCheckout(p)
         \/ \E t \in Towers : AuditHostingHour(t)
<1>1. ASSUME UNCHANGED <<money, hours, order>> PROVE EvidenceStays /\ MoneyStays
  BY <1>1 DEF EvidenceStays, MoneyStays, money
<1>2. ASSUME NEW p \in Clients, NEW c \in Customers,
             \/ \E k \in GrantKeys, amount \in Amounts : AskGrant(p, c, k, amount)
             \/ \E o \in Orders : AskCheckout(p, c, o)
      PROVE  UNCHANGED <<money, hours, order>>
  BY <1>2 DEF AskGrant, AskCheckout, payments
<1>3. ASSUME NEW p \in Procs, LockAccount(p) \/ LockOrder(p) \/ Abort(p) \/ DeadlockVictim(p)
      PROVE  UNCHANGED <<money, hours, order>>
  BY <1>3 DEF LockAccount, TakesAccount, LockOrder, Abort, DeadlockVictim, Undo, payments
<1>4. ASSUME NEW p \in Clients, CreateSession(p) \/ FulfilDuplicate(p)
      PROVE  UNCHANGED <<money, hours, order>>
  BY <1>4 DEF CreateSession, FulfilDuplicate, payments
<1>5. ASSUME NEW p \in Clients, CreateHostingCheckout(p) \/ BindSession(p)
      PROVE  EvidenceStays /\ MoneyStays
  <2>1. req[p].order \in Orders /\ order \in [Orders -> OrderRows]
    <3>1. p \in Procs /\ req[p].kind \in {"checkout", "session", "bind"}
      BY <1>5, Constants DEF CreateHostingCheckout, BindSession
    <3> QED BY <3>1, RequestTyped DEF Checkouts, BaseInv, HostingTypes, RequestTypes
  <2>2. \/ order' = [order EXCEPT ![req[p].order].account = req[p].account]
        \/ order' = [order EXCEPT ![req[p].order].session = TRUE]
    BY <1>5 DEF CreateHostingCheckout, BindSession
  <2>3. \A o \in Orders : order'[o].fulfilled = order[o].fulfilled
    BY <2>1, <2>2 DEF OrderRows
  <2>4. UNCHANGED <<money, hours>>
    BY <1>5 DEF CreateHostingCheckout, BindSession
  <2> QED BY <2>3, <2>4 DEF EvidenceStays, MoneyStays, money
<1>6. ASSUME NEW o \in Orders, Pay(o) \/ \E p \in Clients : ReceiveWebhook(p, o)
      PROVE  UNCHANGED <<money, hours, order>>
  BY <1>6 DEF Pay, ReceiveWebhook, payments
<1>7. ASSUME NEW t \in Towers, \/ StartTick(t) \/ VisitWorkspace(t) \/ MeterHour(t)
                               \/ EndTick(t) \/ LoseSession(t)
      PROVE  UNCHANGED <<money, hours, order>>
  BY <1>7 DEF StartTick, VisitWorkspace, MeterHour, EndTick, LoseSession, payments
<1>8. Advance => UNCHANGED <<money, hours, order>>
  BY DEF Advance, payments
<1> QED BY <1>1, <1>2, <1>3, <1>4, <1>5, <1>6, <1>7, <1>8 DEF HostingNext

LEMMA EveryStepMoves ==
  ASSUME BaseInv, MoneyInv, [HostingNext]_hostingVars
  PROVE  EvidenceStays /\ (MoneyMoves \/ MoneyStays)
<1>1. CASE UNCHANGED hostingVars
  BY <1>1 DEF hostingVars, money, payments, EvidenceStays, MoneyStays
<1>2. CASE HostingNext
  BY <1>2, OthersMoveNothing, LinkMoves, GrantMoves, FulfillMoves, AuditMoves
<1> QED BY <1>1, <1>2

LEMMA MoneyStepKeeps ==
  ASSUME BaseInv, MoneyInv, EvidenceStays, NEW c \in Customers, NEW k \in Keys,
         NEW log, NEW x, NEW y, NEW z, MoneyStep(c, log, x, y, z, k), Backed(k)
  PROVE  MoneyInv'
<1>1. /\ \A d \in Customers \ {c} : /\ ledger'[d] = ledger[d] /\ paid'[d] = paid[d]
                                   /\ promo'[d] = promo[d] /\ depleted'[d] = depleted[d]
      /\ ledger'[c] = log /\ paid'[c] = x /\ promo'[c] = y /\ depleted'[c] = z
  BY DEF MoneyStep, BaseInv, HostingTypes, MoneyTypes
<1>2. GoodLog(log, x, y) /\ log # <<>> /\ (x + y > 0 => z = Never)
  BY DEF MoneyStep
<1>3. \A d \in Customers : GoodLog(ledger'[d], paid'[d], promo'[d])
  BY <1>1, <1>2 DEF MoneyInv
<1>4. (\A d \in Customers : ~Opened(d) => depleted[d] = Never)'
  BY <1>1, <1>2 DEF MoneyInv, Opened
<1>5. FundsRestoreWrites'
  BY <1>1, <1>2 DEF MoneyInv, FundsRestoreWrites
<1>6. ASSUME NEW key, key # <<"expiry">>, NEW d \in Customers, HasKey(ledger'[d], key)
      PROVE  HasKey(ledger[d], key) \/ key = k
  BY <1>1, <1>6 DEF MoneyStep
<1>7. ASSUME NEW o \in Orders, NEW d \in Customers, HasKey(ledger'[d], <<"stripe", o>>)
      PROVE  order'[o].fulfilled
  BY <1>6, <1>7 DEF MoneyInv, EvidenceStays, Backed
<1>8. ASSUME NEW w \in Workspaces, NEW h \in Hours, NEW d \in Customers,
             HasKey(ledger'[d], <<"usage", w, h>>)
      PROVE  hours'[w][h] # NoHour
  BY <1>6, <1>8 DEF MoneyInv, EvidenceStays, Backed
<1> QED BY <1>3, <1>4, <1>5, <1>7, <1>8 DEF MoneyInv, HasKey, GoodLog

LEMMA MoneyInit ==
  ASSUME HostingInit
  PROVE  MoneyInv
<1>1. \A c \in Customers : ledger[c] = <<>> /\ paid[c] = 0 /\ promo[c] = 0 /\ depleted[c] = Never
  BY DEF HostingInit, HostingStart
<1> QED BY <1>1, EmptyIsGood DEF MoneyInv, FundsRestoreWrites

LEMMA MoneyStepPreserves ==
  ASSUME BaseInv, MoneyInv, [HostingNext]_hostingVars
  PROVE  MoneyInv'
<1>1. EvidenceStays /\ (MoneyMoves \/ MoneyStays)
  BY EveryStepMoves
<1>2. CASE MoneyStays
  BY <1>1, <1>2 DEF MoneyStays, MoneyInv, EvidenceStays, FundsRestoreWrites, Opened
<1>3. CASE MoneyMoves
  BY <1>1, <1>3, MoneyStepKeeps DEF MoneyMoves
<1> QED BY <1>1, <1>2, <1>3

LEMMA MoneyHolds == HostingSpec => []MoneyInv
BY MoneyInit, MoneyStepPreserves, BaseHolds, PTL DEF HostingSpec

--------------------------------------------------------------------------------
(* The meter: a tick goes on where the record of its workspace ends.            *)

RecordedBefore(w, h) ==
  /\ link[w] # Nobody /\ FirstHour(w) <= h
  /\ \A g \in Hours : FirstHour(w) <= g /\ g < h => hours[w][g] # NoHour
TickResumes(t) ==
  /\ \A item \in tick[t].rest : RecordedBefore(item.w, item.start)
  /\ tick[t].left # 0 /\ req[t] = Idle => RecordedBefore(tick[t].w, tick[t].next)
  /\ req[t] # Idle =>
       /\ req[t].kind = "audit" /\ req[t].w = tick[t].w
       /\ req[t].hour + 1 = tick[t].next
       /\ RecordedBefore(req[t].w, req[t].hour) /\ req[t].account = link[req[t].w]
HourIsBacked(w, h) ==
  /\ hours[w][h] # NoHour => RecordedBefore(w, h)
  /\ \A c \in Customers : HasKey(ledger[c], <<"usage", w, h>>) =>
       link[w] = c /\ hours[w][h].status = "charged"
  /\ hours[w][h].debit > 0 => HasKey(ledger[link[w]], <<"usage", w, h>>)
  /\ hours[w][h].status = "charged" => hours[w][h].sampled = h /\ enabled[w] <= 2 * h
MeterInv ==
  /\ \A t \in Towers : TickResumes(t)
  /\ \A w \in Workspaces : \A h \in Hours : HourIsBacked(w, h)

LinksStay ==
  \A w \in Workspaces : link[w] # Nobody => link'[w] = link[w] /\ enabled'[w] = enabled[w]

LEMMA HourTypes ==
  ASSUME BaseInv
  PROVE  /\ \A w \in Workspaces : FirstHour(w) \in Hours /\ enabled[w] \in Time
         /\ \A w \in Workspaces : \A h \in Hours : hours[w][h] \in HourRecords
         /\ Hours \subseteq Int /\ NextHours \subseteq Int
         /\ \A t \in Towers : tick[t] \in Ticks /\ t \in Procs
         /\ \A t \in Towers : \A item \in tick[t].rest :
              item.w \in Workspaces /\ item.start \in NextHours
<1>1. \A w \in Workspaces : FirstHour(w) \in Hours /\ enabled[w] \in Time
  BY HoursOfTimes DEF BaseInv, HostingTypes, MeterTypes, FirstHour
<1>2. \A w \in Workspaces : \A h \in Hours : hours[w][h] \in HourRecords
  BY DEF BaseInv, HostingTypes, MeterTypes
<1>3. Hours \subseteq Int /\ NextHours \subseteq Int
  BY Constants DEF Hours, NextHours
<1>4. \A t \in Towers : tick[t] \in Ticks /\ t \in Procs
  BY Constants DEF BaseInv, HostingTypes, MeterTypes
<1>5. \A t \in Towers : \A item \in tick[t].rest :
        item.w \in Workspaces /\ item.start \in NextHours
  BY <1>4 DEF Ticks
<1> QED BY <1>1, <1>2, <1>3, <1>4, <1>5

(* What is recorded before an hour stays so.                                    *)
LEMMA RecordStays ==
  ASSUME LinksStay, EvidenceStays, NEW w \in Workspaces, NEW h, RecordedBefore(w, h)
  PROVE  /\ link'[w] # Nobody /\ (FirstHour(w) <= h)'
         /\ \A g \in Hours : (FirstHour(w) <= g)' /\ g < h => hours'[w][g] # NoHour
         /\ RecordedBefore(w, h)'
<1>1. link'[w] = link[w] /\ enabled'[w] = enabled[w]
  BY DEF LinksStay, RecordedBefore
<1> QED BY <1>1 DEF RecordedBefore, FirstHour, EvidenceStays

LEMMA LinksNeverChange ==
  ASSUME BaseInv, [HostingNext]_hostingVars
  PROVE  LinksStay
<1>1. CASE UNCHANGED enrolment
  BY <1>1 DEF LinksStay, enrolment
<1>2. ASSUME NEW w \in Workspaces, NEW c \in Customers, LinkHostedAccount(w, c)
      PROVE  LinksStay
  BY <1>2 DEF LinkHostedAccount, LinksStay, BaseInv, HostingTypes, MeterTypes
<1>3. ASSUME HostingNext
      PROVE  \/ UNCHANGED enrolment
             \/ \E w \in Workspaces, c \in Customers : LinkHostedAccount(w, c)
  <2>1. ASSUME NEW p \in Clients, NEW c \in Customers,
               \/ \E k \in GrantKeys, amount \in Amounts : AskGrant(p, c, k, amount)
               \/ \E o \in Orders : AskCheckout(p, c, o)
        PROVE  UNCHANGED enrolment
    BY <2>1 DEF AskGrant, AskCheckout
  <2>2. ASSUME NEW p \in Procs, LockAccount(p) \/ LockOrder(p) \/ Abort(p) \/ DeadlockVictim(p)
        PROVE  UNCHANGED enrolment
    BY <2>2 DEF LockAccount, TakesAccount, LockOrder, Abort, DeadlockVictim, Undo
  <2>3. ASSUME NEW p \in Clients,
               \/ GrantHostingCredit(p) \/ CreateHostingCheckout(p) \/ CreateSession(p)
               \/ BindSession(p) \/ FulfilDuplicate(p) \/ FulfillHostingCheckout(p)
        PROVE  UNCHANGED enrolment
    BY <2>3 DEF GrantHostingCredit, CreateHostingCheckout, CreateSession, BindSession,
                FulfilDuplicate, FulfillHostingCheckout
  <2>4. ASSUME NEW o \in Orders, Pay(o) \/ \E p \in Clients : ReceiveWebhook(p, o)
        PROVE  UNCHANGED enrolment
    BY <2>4 DEF Pay, ReceiveWebhook
  <2>5. ASSUME NEW t \in Towers, \/ StartTick(t) \/ VisitWorkspace(t) \/ MeterHour(t)
                                 \/ AuditHostingHour(t) \/ EndTick(t) \/ LoseSession(t)
        PROVE  UNCHANGED enrolment
    BY <2>5 DEF StartTick, VisitWorkspace, MeterHour, AuditHostingHour, EndTick, LoseSession
  <2>6. Advance => UNCHANGED enrolment
    BY DEF Advance
  <2> QED BY <1>3, <2>1, <2>2, <2>3, <2>4, <2>5, <2>6 DEF HostingNext
<1>4. UNCHANGED hostingVars => UNCHANGED enrolment
  BY DEF hostingVars
<1> QED BY <1>1, <1>2, <1>3, <1>4

(* An hour and its charge, when neither moves.                                   *)
LEMMA HourStaysBacked ==
  ASSUME BaseInv, MeterInv, LinksStay, EvidenceStays, NEW w \in Workspaces, NEW h \in Hours,
         hours'[w][h] = hours[w][h],
         \A c \in Customers :
           HasKey(ledger'[c], <<"usage", w, h>>) <=> HasKey(ledger[c], <<"usage", w, h>>)
  PROVE  HourIsBacked(w, h)'
<1>1. HourIsBacked(w, h) /\ hours[w][h] \in HourRecords
  BY HourTypes DEF MeterInv
<1>2. (hours[w][h] # NoHour => RecordedBefore(w, h))'
  BY <1>1, RecordStays DEF HourIsBacked
<1>3. hours[w][h] # NoHour =>
        /\ link'[w] = link[w] /\ enabled'[w] = enabled[w] /\ link[w] \in Customers
  BY <1>1 DEF HourIsBacked, RecordedBefore, LinksStay, BaseInv, HostingTypes, MeterTypes
<1>4. hours[w][h] = NoHour =>
        ~(hours[w][h].debit > 0) /\ hours[w][h].status # "charged"
  BY DEF NoHour
<1>5. \A c \in Customers : HasKey(ledger'[c], <<"usage", w, h>>) =>
        link'[w] = c /\ hours'[w][h].status = "charged"
  BY <1>1, <1>3, <1>4 DEF HourIsBacked
<1>6. hours'[w][h].debit > 0 => HasKey(ledger'[link'[w]], <<"usage", w, h>>)
  BY <1>1, <1>3, <1>4 DEF HourIsBacked
<1>7. hours'[w][h].status = "charged" => hours'[w][h].sampled = h /\ enabled'[w] <= 2 * h
  BY <1>1, <1>3, <1>4 DEF HourIsBacked
<1> QED BY <1>2, <1>5, <1>6, <1>7 DEF HourIsBacked, HasKey

(* A tick and its audit, when neither moves.                                    *)
LEMMA TickStays ==
  ASSUME BaseInv, MeterInv, LinksStay, EvidenceStays, NEW t \in Towers,
         tick'[t] = tick[t], req'[t] = req[t]
  PROVE  TickResumes(t)'
<1>1. TickResumes(t) /\ tick[t] \in Ticks /\ t \in Procs
  BY HourTypes DEF MeterInv
<1>2. \A item \in tick[t].rest : RecordedBefore(item.w, item.start)'
  BY <1>1, HourTypes, RecordStays DEF TickResumes
<1>3. tick[t].left # 0 => tick[t].w \in Workspaces
  BY DEF BaseInv, AccountsAreOpened, TickIsLinked
<1>4. (tick[t].left # 0 /\ req[t] = Idle => RecordedBefore(tick[t].w, tick[t].next))'
  <2>1. tick[t].left # 0 /\ req[t] = Idle => RecordedBefore(tick[t].w, tick[t].next)
    BY <1>1 DEF TickResumes
  <2> QED BY <1>3, <2>1 DEF RecordedBefore, LinksStay, EvidenceStays, FirstHour
<1>5. req[t] # Idle =>
        /\ req[t].kind = "audit" /\ req[t].w = tick[t].w /\ req[t].hour + 1 = tick[t].next
        /\ req[t].w \in Workspaces /\ req[t].hour \in Hours
        /\ RecordedBefore(req[t].w, req[t].hour) /\ req[t].account = link[req[t].w]
  BY <1>1, RequestTyped DEF TickResumes, Audits
<1>6. (req[t] # Idle =>
         /\ RecordedBefore(req[t].w, req[t].hour) /\ req[t].account = link[req[t].w])'
  BY <1>5 DEF RecordedBefore, LinksStay, EvidenceStays, FirstHour
<1>7. (\A item \in tick[t].rest : RecordedBefore(item.w, item.start))'
  <2>1. (\A item \in tick[t].rest : RecordedBefore(item.w, item.start))
           /\ \A item \in tick[t].rest : item.w \in Workspaces
    BY <1>1, HourTypes DEF TickResumes
  <2> QED BY <2>1 DEF RecordedBefore, LinksStay, EvidenceStays, FirstHour
<1> QED BY <1>4, <1>5, <1>6, <1>7 DEF TickResumes

(* No audit commits and at most the tick of t moves.                            *)
LEMMA OneTickMoves ==
  ASSUME BaseInv, MeterInv, LinksStay, EvidenceStays, UsageKeysStay, UNCHANGED hours,
         NEW T \in SUBSET Towers, \A t \in T : TickResumes(t)',
         \A t \in Towers \ T : tick'[t] = tick[t] /\ req'[t] = req[t]
  PROVE  MeterInv'
<1>1. \A t \in Towers : TickResumes(t)'
  BY TickStays
<1>2. ASSUME NEW w \in Workspaces, NEW h \in Hours PROVE HourIsBacked(w, h)'
  BY HourStaysBacked DEF UsageKeysStay
<1> QED BY <1>1, <1>2 DEF MeterInv

LEMMA NoTickMoves ==
  ASSUME BaseInv, MeterInv, LinksStay, EvidenceStays, UsageKeysStay, UNCHANGED hours,
         \A t \in Towers : tick'[t] = tick[t] /\ req'[t] = req[t]
  PROVE  MeterInv'
<1> DEFINE T == {}
<1>1. T \in SUBSET Towers /\ (\A t \in T : TickResumes(t)')
      /\ \A t \in Towers \ T : tick'[t] = tick[t] /\ req'[t] = req[t]
  OBVIOUS
<1> QED BY <1>1, OneTickMoves

(* A tick that ended, or never started, resumes nothing.                        *)
LEMMA NoTickResumes ==
  ASSUME NEW t \in Towers, tick'[t] = NoTick, req'[t] = Idle
  PROVE  TickResumes(t)'
BY DEF TickResumes, NoTick

LEMMA StartResumes ==
  ASSUME BaseInv, MeterInv, NEW t \in Towers, tick[t] = NoTick, StartTick(t)
  PROVE  TickResumes(t)'
<1>1. /\ tick' = [tick EXCEPT ![t] =
             [NoTick EXCEPT !.at = now, !.rest = {[w |-> w, start |-> NextHour(w)] : w \in Links}]]
      /\ UNCHANGED <<link, enabled, hours, req>>
  BY DEF StartTick, enrolment
<1>2. /\ tick'[t].rest = {[w |-> w, start |-> NextHour(w)] : w \in Links}
      /\ tick'[t].left = 0
  BY <1>1 DEF NoTick, BaseInv, HostingTypes, MeterTypes
<1>3. req[t] = Idle
  <2>1. TickResumes(t)
    BY DEF MeterInv
  <2>2. req[t] # Idle => req[t].kind = "audit" /\ req[t].hour + 1 = 0
    BY <2>1 DEF TickResumes, NoTick
  <2>3. req[t].kind = "audit" => req[t].hour \in Hours
    BY HourTypes, RequestTyped DEF Audits
  <2> QED BY <2>2, <2>3, Constants DEF Hours
<1>4. ASSUME NEW w \in Links PROVE RecordedBefore(w, NextHour(w))
  <2>1. /\ w \in Workspaces /\ link[w] # Nobody /\ NextHour(w) \in Int /\ FirstHour(w) \in Int
        /\ Hours \subseteq Int
    BY <1>4, HourTypes, NextHourIsNext DEF Links, BaseInv, HostingTypes
  <2>2. CASE Recorded(w) = {}
    BY <2>1, <2>2, NextHourIsNext DEF RecordedBefore, BaseInv, HostingTypes
  <2>3. CASE Recorded(w) # {}
    <3>1. NextHour(w) - 1 \in Hours /\ hours[w][NextHour(w) - 1] # NoHour
      BY <2>1, <2>3, NextHourIsNext DEF Recorded, BaseInv, HostingTypes
    <3>2. RecordedBefore(w, NextHour(w) - 1)
      <4>1. HourIsBacked(w, NextHour(w) - 1)
        BY <2>1, <3>1, Zenon DEF MeterInv
      <4> QED BY <3>1, <4>1, Zenon DEF HourIsBacked
    <3>3. FirstHour(w) <= NextHour(w)
      BY <2>1, <3>2 DEF RecordedBefore
    <3>4. ASSUME NEW g \in Hours, FirstHour(w) <= g, g < NextHour(w) PROVE hours[w][g] # NoHour
      <4>1. g < NextHour(w) - 1 \/ g = NextHour(w) - 1
        BY <2>1, <3>4
      <4> QED BY <3>1, <3>2, <3>4, <4>1 DEF RecordedBefore
    <3> QED BY <2>1, <3>3, <3>4 DEF RecordedBefore
  <2> QED BY <2>2, <2>3
<1>5. \A item \in tick'[t].rest : RecordedBefore(item.w, item.start)
  BY <1>2, <1>4
<1> QED BY <1>1, <1>2, <1>3, <1>5 DEF TickResumes, RecordedBefore, FirstHour

LEMMA VisitResumes ==
  ASSUME BaseInv, MeterInv, NEW t \in Towers, VisitWorkspace(t)
  PROVE  TickResumes(t)'
<1>1. PICK item \in tick[t].rest :
        tick' = [tick EXCEPT ![t].rest = @ \ {item}, ![t].w = item.w,
                             ![t].next = item.start, ![t].left = Batch]
  BY DEF VisitWorkspace
<1>2. /\ tick'[t].rest = tick[t].rest \ {item} /\ tick'[t].w = item.w
      /\ tick'[t].next = item.start /\ tick'[t].left = Batch
  BY <1>1 DEF BaseInv, HostingTypes, MeterTypes, Ticks
<1>3. req[t] = Idle /\ UNCHANGED <<link, enabled, hours, req>>
  BY DEF VisitWorkspace, enrolment
<1>4. \A i \in tick[t].rest : RecordedBefore(i.w, i.start)
  BY DEF MeterInv, TickResumes
<1> QED BY <1>2, <1>3, <1>4 DEF TickResumes, RecordedBefore, FirstHour

LEMMA MeterHourResumes ==
  ASSUME BaseInv, MeterInv, NEW t \in Towers, MeterHour(t)
  PROVE  TickResumes(t)'
<1> DEFINE h == tick[t].next
           w == tick[t].w
<1>1. /\ req[t] = Idle /\ tick[t].left # 0 /\ UNCHANGED <<link, enabled, hours>>
      /\ \E s : req' = [req EXCEPT ![t] = [kind |-> "audit", account |-> link[w], w |-> w,
                                          hour |-> h, at |-> tick[t].at, sample |-> s]]
      /\ tick' = [tick EXCEPT ![t].next = @ + 1, ![t].left = @ - 1]
  BY DEF MeterHour, Visited, enrolment
<1>2. RecordedBefore(w, h) /\ \A i \in tick[t].rest : RecordedBefore(i.w, i.start)
  BY <1>1 DEF MeterInv, TickResumes
<1>3. /\ tick'[t].rest = tick[t].rest /\ tick'[t].w = w /\ tick'[t].next = h + 1
  BY <1>1 DEF BaseInv, HostingTypes, MeterTypes, Ticks
<1>4. /\ req'[t].kind = "audit" /\ req'[t].account = link[w] /\ req'[t].w = w
      /\ req'[t].hour = h /\ req'[t] # Idle
  BY <1>1, HourTypes DEF BaseInv, HostingTypes, RequestTypes, Idle
<1> QED BY <1>1, <1>2, <1>3, <1>4 DEF TickResumes, RecordedBefore, FirstHour

(* After an audit its hour is on record, whoever put it there.                  *)
LEMMA AuditRecords ==
  ASSUME BaseInv, MeterInv, NEW t \in Towers, AuditHostingHour(t)
  PROVE  /\ hours'[req[t].w][req[t].hour] # NoHour
         /\ \A w \in Workspaces : \A h \in Hours :
              <<w, h>> # <<req[t].w, req[t].hour>> => hours'[w][h] = hours[w][h]
<1> DEFINE r == req[t]
<1>1. t \in Procs /\ r \in Audits
  BY HourTypes, AuditActs
<1>2. /\ r.w \in Workspaces /\ r.hour \in Hours /\ AuditStatus(r) \in Statuses
      /\ hours \in [Workspaces -> [Hours -> HourRecords]]
  BY <1>1, AuditedRequest DEF BaseInv, HostingTypes, MeterTypes
<1>3. ~(r.hour < FirstHour(r.w))
  <2>1. FirstHour(r.w) <= r.hour
    BY <1>1 DEF MeterInv, TickResumes, RecordedBefore, Audits, Idle
  <2> QED BY <1>2, <2>1, HourTypes
<1>4. \/ hours[r.w][r.hour] # NoHour /\ UNCHANGED hours
      \/ \E d : hours' = [hours EXCEPT ![r.w][r.hour] =
                           Evidence(AuditStatus(r), d, r.sample.hour)]
  BY <1>3 DEF AuditHostingHour
<1>5. CASE hours[r.w][r.hour] # NoHour /\ UNCHANGED hours
  BY <1>5
<1>6. ASSUME NEW d, hours' = [hours EXCEPT ![r.w][r.hour] =
                                Evidence(AuditStatus(r), d, r.sample.hour)]
      PROVE  /\ hours'[r.w][r.hour] # NoHour
             /\ \A w \in Workspaces : \A h \in Hours :
                  <<w, h>> # <<r.w, r.hour>> => hours'[w][h] = hours[w][h]
  <2> DEFINE e == Evidence(AuditStatus(r), d, r.sample.hour)
  <2>1. e # NoHour
    BY <1>2 DEF Statuses, Evidence, NoHour
  <2> HIDE DEF e
  <2>2. hours' = [hours EXCEPT ![r.w] = [hours[r.w] EXCEPT ![r.hour] = e]]
    BY <1>6 DEF e
  <2>3. hours[r.w] \in [Hours -> HourRecords]
    BY <1>2
  <2>4. /\ hours'[r.w] = [hours[r.w] EXCEPT ![r.hour] = e]
        /\ \A w \in Workspaces \ {r.w} : hours'[w] = hours[w]
    BY <1>2, <2>2
  <2> HIDE DEF r
  <2> QED BY <1>2, <2>1, <2>3, <2>4
<1> QED BY <1>4, <1>5, <1>6

LEMMA AuditKeepsMeter ==
  ASSUME BaseInv, MoneyInv, MeterInv, LinksStay, NEW t \in Towers, AuditHostingHour(t)
  PROVE  MeterInv'
<1> DEFINE r == req[t]
           k == <<"usage", r.w, r.hour>>
<1>1. /\ t \in Procs /\ r \in Audits /\ Ends(t) /\ UNCHANGED meter
      /\ r.w \in Workspaces /\ r.hour \in Hours /\ r.account \in Customers
  BY HourTypes, AuditActs, AuditedRequest DEF BaseInv, HostingTypes
<1>2. EvidenceStays
  BY AuditMoves
<1>3. /\ r.w = tick[t].w /\ r.hour + 1 = tick[t].next
      /\ RecordedBefore(r.w, r.hour) /\ r.account = link[r.w]
  BY <1>1 DEF MeterInv, TickResumes, Audits, Idle
<1>4. /\ hours'[r.w][r.hour] # NoHour
      /\ \A w \in Workspaces : \A h \in Hours :
           <<w, h>> # <<r.w, r.hour>> => hours'[w][h] = hours[w][h]
  BY AuditRecords
<1>5. /\ req'[t] = Idle /\ \A u \in Towers \ {t} : req'[u] = req[u]
      /\ tick' = tick
  BY <1>1 DEF Ends, meter, BaseInv, HostingTypes, RequestTypes, Procs
<1>6. TickResumes(t)'
  <2>1. \A item \in tick[t].rest : RecordedBefore(item.w, item.start)'
    BY <1>2, HourTypes, RecordStays DEF MeterInv, TickResumes
  <2>2. PICK v \in Workspaces, i \in Hours : v = r.w /\ i = r.hour
    BY <1>1
  <2>3. RecordedBefore(v, i + 1)'
    <3>1. /\ link'[v] # Nobody /\ (FirstHour(v) <= i)'
          /\ \A g \in Hours : (FirstHour(v) <= g)' /\ g < i => hours'[v][g] # NoHour
      BY <1>2, <1>3, <2>2, RecordStays
    <3>2. enabled'[v] = enabled[v] /\ FirstHour(v) \in Int /\ i \in Int
          /\ Hours \subseteq Int
      BY <1>3, <2>2, HourTypes DEF LinksStay, RecordedBefore
    <3>3. FirstHour(v) <= i => FirstHour(v) <= i + 1
      BY <3>2
    <3>4. ASSUME NEW g \in Hours, FirstHour(v) <= g, g < i + 1
          PROVE  hours'[v][g] # NoHour
      <4>1. g < i \/ g = i
        BY <3>2, <3>4
      <4> QED BY <1>4, <2>2, <3>1, <3>2, <3>4, <4>1 DEF FirstHour
    <3> QED BY <3>1, <3>2, <3>3, <3>4 DEF RecordedBefore, FirstHour
  <2>4. tick[t].w = v /\ tick[t].next = i + 1
    BY <1>3, <2>2
  <2>5. link'[v] # Nobody /\ (FirstHour(v) <= i + 1)'
        /\ \A g \in Hours : (FirstHour(v) <= g)' /\ g < i + 1 => hours'[v][g] # NoHour
    BY <2>3 DEF RecordedBefore
  <2>6. RecordedBefore(tick[t].w, tick[t].next)'
    BY <1>5, <2>4, <2>5 DEF RecordedBefore, FirstHour
  <2>7. (\A item \in tick[t].rest : RecordedBefore(item.w, item.start))'
    BY <1>5, <2>1 DEF RecordedBefore, FirstHour
  <2> QED BY <1>5, <2>6, <2>7 DEF TickResumes
<1>7. \A u \in Towers : TickResumes(u)'
  BY <1>2, <1>5, <1>6, TickStays
<1>8. ASSUME NEW w \in Workspaces, NEW h \in Hours PROVE HourIsBacked(w, h)'
  <2> DEFINE key == <<"usage", w, h>>
  <2>1. CASE /\ hours'[w][h] = hours[w][h]
             /\ \A c \in Customers : HasKey(ledger'[c], key) <=> HasKey(ledger[c], key)
    BY <1>2, <2>1, HourStaysBacked
  <2>2. CASE w = r.w /\ h = r.hour /\ hours[r.w][r.hour] = NoHour
    <3>1. link'[r.w] = link[r.w] /\ enabled'[r.w] = enabled[r.w] /\ link[r.w] = r.account
      BY <1>1, <1>3 DEF LinksStay, RecordedBefore
    <3>2. (hours[w][h] # NoHour => RecordedBefore(w, h))'
      BY <1>2, <1>3, <2>2, RecordStays
    <3>3. \A c \in Customers : ~HasKey(ledger[c], k)
      BY <1>1, <2>2 DEF MoneyInv
    <3>4. hours \in [Workspaces -> [Hours -> HourRecords]]
      BY DEF BaseInv, HostingTypes, MeterTypes
    <3>5. ASSUME NEW s, NEW d, hours' = [hours EXCEPT ![r.w][r.hour] = Evidence(s, d, r.sample.hour)]
          PROVE  /\ hours'[r.w][r.hour].status = s /\ hours'[r.w][r.hour].debit = d
                 /\ hours'[r.w][r.hour].sampled = r.sample.hour
      BY <1>1, <3>4, <3>5 DEF Evidence
    <3>6. CASE /\ AuditStatus(r) # "charged" /\ UsageKeysStay
               /\ hours' = [hours EXCEPT ![r.w][r.hour] =
                              Evidence(AuditStatus(r), 0, r.sample.hour)]
      <4>1. hours'[r.w][r.hour].status # "charged" /\ hours'[r.w][r.hour].debit = 0
        BY <3>5, <3>6
      <4>2. \A c \in Customers : ~HasKey(ledger'[c], k)
        BY <1>1, <3>3, <3>6 DEF UsageKeysStay
      <4> QED BY <2>2, <3>2, <4>1, <4>2 DEF HourIsBacked
    <3>7. CASE /\ AuditStatus(r) = "charged"
               /\ OnlyNewKey(r.account, IF Bytes(r) > 0 THEN k ELSE <<"expiry">>)
               /\ hours' = [hours EXCEPT ![r.w][r.hour] =
                              Evidence("charged", Bytes(r), r.sample.hour)]
      <4>1. /\ hours'[r.w][r.hour].status = "charged" /\ hours'[r.w][r.hour].debit = Bytes(r)
            /\ hours'[r.w][r.hour].sampled = r.sample.hour
        BY <3>5, <3>7
      <4>2. r.sample.hour = r.hour /\ enabled[r.w] <= 2 * r.hour
        BY <1>1, <3>7, AuditedRequest DEF BaseInv, HostingTypes
      <4>3. k # <<"expiry">>
        OBVIOUS
      <4>4. \A c \in Customers :
              HasKey(ledger'[c], k) <=> c = r.account /\ Bytes(r) > 0
        BY <3>3, <3>7, <4>3 DEF OnlyNewKey
      <4>5. \A c \in Customers : HasKey(ledger'[c], k) =>
              link'[r.w] = c /\ hours'[r.w][r.hour].status = "charged"
        BY <3>1, <4>1, <4>4
      <4>6. hours'[r.w][r.hour].debit > 0 => HasKey(ledger'[link'[r.w]], k)
        BY <1>1, <3>1, <4>1, <4>4
      <4>7. hours'[r.w][r.hour].sampled = r.hour /\ enabled'[r.w] <= 2 * r.hour
        BY <3>1, <4>1, <4>2
      <4> QED BY <2>2, <3>2, <4>5, <4>6, <4>7 DEF HourIsBacked, HasKey
    <3>8. \/ UNCHANGED hours
          \/ /\ AuditStatus(r) # "charged" /\ UsageKeysStay
             /\ hours' = [hours EXCEPT ![r.w][r.hour] =
                            Evidence(AuditStatus(r), 0, r.sample.hour)]
          \/ /\ AuditStatus(r) = "charged"
             /\ OnlyNewKey(r.account, IF Bytes(r) > 0 THEN k ELSE <<"expiry">>)
             /\ hours' = [hours EXCEPT ![r.w][r.hour] =
                            Evidence("charged", Bytes(r), r.sample.hour)]
      BY AuditMoves
    <3> QED BY <1>4, <2>2, <3>6, <3>7, <3>8
  <2>3. CASE <<w, h>> # <<r.w, r.hour>>
    <3>1. hours'[w][h] = hours[w][h]
      BY <1>4, <2>3
    <3>2. key # k /\ key # <<"expiry">>
      BY <2>3
    <3>3. UsageKeysStay \/ OnlyNewKey(r.account, IF Bytes(r) > 0 THEN k ELSE <<"expiry">>)
      BY AuditMoves
    <3>4. \A c \in Customers : HasKey(ledger'[c], key) <=> HasKey(ledger[c], key)
      <4>1. CASE UsageKeysStay
        BY <4>1 DEF UsageKeysStay
      <4>2. CASE OnlyNewKey(r.account, IF Bytes(r) > 0 THEN k ELSE <<"expiry">>)
        <5> DEFINE new == IF Bytes(r) > 0 THEN k ELSE <<"expiry">>
        <5>1. key # new
          BY <3>2
        <5> HIDE DEF new, key
        <5> QED BY <3>2, <4>2, <5>1 DEF OnlyNewKey, new
      <4> QED BY <3>3, <4>1, <4>2
    <3> QED BY <2>1, <3>1, <3>4
  <2>4. CASE w = r.w /\ h = r.hour /\ hours[r.w][r.hour] # NoHour
    <3>1. UNCHANGED hours /\ UsageKeysStay
      BY <2>4, AuditMoves
    <3>2. \A c \in Customers : HasKey(ledger'[c], key) <=> HasKey(ledger[c], key)
      BY <3>1 DEF UsageKeysStay
    <3> QED BY <2>1, <3>1, <3>2
  <2> QED BY <2>2, <2>3, <2>4
<1> QED BY <1>7, <1>8 DEF MeterInv

(* Every other step leaves the hours, and moves one tick at most.               *)
LEMMA TicksMoveAlone ==
  ASSUME BaseInv, MeterInv, HostingNext
  PROVE  \/ \E t \in Towers : AuditHostingHour(t)
         \/ UNCHANGED hours /\ \A t \in Towers : tick'[t] = tick[t] /\ req'[t] = req[t]
         \/ /\ UNCHANGED <<hours, ledger>>
            /\ \E t \in Towers :
                 /\ \A u \in Towers \ {t} : tick'[u] = tick[u] /\ req'[u] = req[u]
                 /\ \/ StartTick(t) /\ tick[t] = NoTick
                    \/ VisitWorkspace(t) \/ MeterHour(t)
                    \/ tick'[t] = NoTick /\ req'[t] = Idle
<1> DEFINE Aside == UNCHANGED hours /\ \A t \in Towers : tick'[t] = tick[t] /\ req'[t] = req[t]
           Alone(t) == \A u \in Towers \ {t} : tick'[u] = tick[u] /\ req'[u] = req[u]
<1>1. /\ req \in [Procs -> Requests] /\ tick \in [Towers -> Ticks]
      /\ \A p \in Clients : p \notin Towers
  BY Constants DEF BaseInv, HostingTypes, RequestTypes, MeterTypes
<1>2. ASSUME NEW p \in Clients, NEW r, req' = [req EXCEPT ![p] = r], UNCHANGED <<hours, tick>>
      PROVE  Aside
  BY <1>1, <1>2
<1>3. ASSUME UNCHANGED <<hours, req, tick>> PROVE Aside
  BY <1>3
<1>4. ASSUME NEW p \in Clients, NEW c \in Customers,
             \/ \E k \in GrantKeys, amount \in Amounts : AskGrant(p, c, k, amount)
             \/ \E o \in Orders : AskCheckout(p, c, o)
      PROVE  Aside
  <2>1. UNCHANGED <<hours, tick>> /\ \E r : req' = [req EXCEPT ![p] = r]
    BY <1>4 DEF AskGrant, AskCheckout, meter
  <2> QED BY <1>2, <2>1
<1>5. ASSUME NEW p \in Clients, NEW o \in Orders, ReceiveWebhook(p, o)
      PROVE  Aside
  <2>1. UNCHANGED <<hours, tick>> /\ \E r : req' = [req EXCEPT ![p] = r]
    BY <1>5 DEF ReceiveWebhook, meter
  <2> QED BY <1>2, <2>1
<1>6. ASSUME NEW p \in Clients,
             \/ GrantHostingCredit(p) \/ CreateHostingCheckout(p) \/ CreateSession(p)
             \/ BindSession(p) \/ FulfilDuplicate(p) \/ FulfillHostingCheckout(p)
      PROVE  Aside
  <2>1. /\ UNCHANGED <<hours, tick>>
        /\ \/ Ends(p) \/ req' = [req EXCEPT ![p].kind = "session"]
           \/ req' = [req EXCEPT ![p].kind = "bind"] \/ req' = [req EXCEPT ![p] = Idle]
    BY <1>6 DEF GrantHostingCredit, CreateHostingCheckout, CreateSession, BindSession,
                FulfilDuplicate, FulfillHostingCheckout, meter
  <2>2. \E r : req' = [req EXCEPT ![p] = r]
    BY <2>1 DEF Ends
  <2> QED BY <1>2, <2>1, <2>2
<1>7. ASSUME NEW p \in Procs, Abort(p) \/ DeadlockVictim(p)
      PROVE  \/ Aside
             \/ /\ UNCHANGED <<hours, ledger>> /\ p \in Towers /\ Alone(p)
                /\ tick'[p] = NoTick /\ req'[p] = Idle
  <2>1. Undo(p)
    BY <1>7 DEF Abort, DeadlockVictim
  <2>2. req' = [req EXCEPT ![p] = Idle] /\ UNCHANGED <<hours, ledger>>
    BY <2>1 DEF Undo, Ends, money
  <2>3. CASE p \in Towers
    <3>1. tick' = [tick EXCEPT ![p] = NoTick]
      BY <2>1, <2>3 DEF Undo, Quits
    <3> QED BY <1>1, <2>2, <2>3, <3>1
  <2>4. CASE p \notin Towers
    <3>1. p \in Clients /\ UNCHANGED tick
      BY <2>1, <2>4 DEF Undo, meter, Procs
    <3> QED BY <1>2, <2>2, <3>1
  <2> QED BY <2>3, <2>4
<1>8. ASSUME NEW t \in Towers, StartTick(t) \/ VisitWorkspace(t) \/ MeterHour(t) \/ EndTick(t)
      PROVE  /\ UNCHANGED <<hours, ledger>> /\ Alone(t)
             /\ \/ StartTick(t) /\ tick[t] = NoTick
                \/ VisitWorkspace(t) \/ MeterHour(t)
                \/ tick'[t] = NoTick /\ req'[t] = Idle
  <2>1. UNCHANGED <<hours, ledger>>
    BY <1>8 DEF StartTick, VisitWorkspace, MeterHour, EndTick, money
  <2>2. CASE StartTick(t)
    BY <1>1, <2>1, <2>2 DEF StartTick
  <2>3. CASE VisitWorkspace(t)
    BY <1>1, <2>1, <2>3 DEF VisitWorkspace
  <2>4. CASE MeterHour(t)
    <3>1. /\ tick' = [tick EXCEPT ![t].next = @ + 1, ![t].left = @ - 1]
          /\ \E r : req' = [req EXCEPT ![t] = r]
      BY <2>4 DEF MeterHour
    <3>2. /\ \A u \in Towers \ {t} : tick'[u] = tick[u]
          /\ \A u \in Towers \ {t} : req'[u] = req[u]
      BY <1>1, <3>1 DEF Procs
    <3> QED BY <2>1, <2>4, <3>2
  <2>5. CASE EndTick(t)
    BY <1>1, <2>1, <2>5 DEF EndTick, Quits
  <2> QED BY <1>8, <2>2, <2>3, <2>4, <2>5
<1>9. ASSUME \/ \E w \in Workspaces, c \in Customers : LinkHostedAccount(w, c)
             \/ \E p \in Procs : LockAccount(p) \/ LockOrder(p)
             \/ \E o \in Orders : Pay(o)
             \/ \E t \in Towers : LoseSession(t)
             \/ Advance
      PROVE  Aside
  <2>1. UNCHANGED <<hours, req, tick>>
    BY <1>9 DEF LinkHostedAccount, LockAccount, TakesAccount, LockOrder, Pay, LoseSession,
                Advance, meter
  <2> QED BY <1>3, <2>1
<1> HIDE DEF Aside, Alone
<1>10. \/ \E t \in Towers : AuditHostingHour(t)
       \/ Aside
       \/ /\ UNCHANGED <<hours, ledger>>
          /\ \E t \in Towers :
               /\ Alone(t)
               /\ \/ StartTick(t) /\ tick[t] = NoTick
                  \/ VisitWorkspace(t) \/ MeterHour(t)
                  \/ tick'[t] = NoTick /\ req'[t] = Idle
  BY <1>4, <1>5, <1>6, <1>7, <1>8, <1>9 DEF HostingNext
<1> QED BY <1>10 DEF Aside, Alone

LEMMA OnlyAuditsCharge ==
  ASSUME BaseInv, MoneyInv, HostingNext
  PROVE  UsageKeysStay \/ \E t \in Towers : AuditHostingHour(t)
<1>1. MoneyStays => UsageKeysStay
  BY DEF MoneyStays, UsageKeysStay
<1> QED BY <1>1, OthersMoveNothing, LinkMoves, GrantMoves, FulfillMoves

LEMMA MeterStep ==
  ASSUME BaseInv, MoneyInv, MeterInv, [HostingNext]_hostingVars
  PROVE  MeterInv'
<1>1. LinksStay /\ EvidenceStays
  BY LinksNeverChange, EveryStepMoves
<1>2. CASE UNCHANGED hostingVars
  <2>1. UsageKeysStay /\ UNCHANGED hours /\ \A t \in Towers : tick'[t] = tick[t] /\ req'[t] = req[t]
    BY <1>2 DEF hostingVars, money, meter, UsageKeysStay
  <2> QED BY <1>1, <2>1, NoTickMoves
<1>3. CASE HostingNext
  <2>1. CASE \E t \in Towers : AuditHostingHour(t)
    BY <1>1, <2>1, AuditKeepsMeter
  <2>2. CASE UNCHANGED hours /\ \A t \in Towers : tick'[t] = tick[t] /\ req'[t] = req[t]
    BY <1>1, <1>3, <2>1, <2>2, OnlyAuditsCharge, NoTickMoves
  <2>3. ASSUME UNCHANGED <<hours, ledger>>, NEW t \in Towers,
               \A u \in Towers \ {t} : tick'[u] = tick[u] /\ req'[u] = req[u],
               \/ StartTick(t) /\ tick[t] = NoTick
               \/ VisitWorkspace(t) \/ MeterHour(t)
               \/ tick'[t] = NoTick /\ req'[t] = Idle
        PROVE  MeterInv'
    <3>1. TickResumes(t)'
      BY <2>3, StartResumes, VisitResumes, MeterHourResumes, NoTickResumes
    <3>2. UsageKeysStay
      BY <2>3 DEF UsageKeysStay
    <3> DEFINE T == {t}
    <3>3. T \in SUBSET Towers /\ (\A u \in T : TickResumes(u)')
          /\ \A u \in Towers \ T : tick'[u] = tick[u] /\ req'[u] = req[u]
      BY <2>3, <3>1
    <3> QED BY <1>1, <2>3, <3>2, <3>3, OneTickMoves
  <2> QED BY <1>3, <2>1, <2>2, <2>3, TicksMoveAlone
<1> QED BY <1>2, <1>3

LEMMA MeterInit ==
  ASSUME HostingInit
  PROVE  MeterInv
<1>1. /\ \A t \in Towers : tick[t] = NoTick /\ t \in Procs /\ req[t] = Idle
      /\ \A w \in Workspaces : \A h \in Hours : hours[w][h] = NoHour
      /\ \A c \in Customers : ledger[c] = <<>>
  BY Constants DEF HostingInit, HostingStart
<1>2. ASSUME NEW w \in Workspaces, NEW h \in Hours PROVE HourIsBacked(w, h)
  <2>1. \A c \in Customers : ~HasKey(ledger[c], <<"usage", w, h>>)
    BY <1>1, EmptyIsGood
  <2>2. hours[w][h].status = "none" /\ hours[w][h].debit = 0
    BY <1>1 DEF NoHour
  <2> QED BY <1>1, <2>1, <2>2 DEF HourIsBacked
<1> QED BY <1>1, <1>2 DEF MeterInv, TickResumes, NoTick

LEMMA MeterHolds == HostingSpec => []MeterInv
BY MeterInit, MeterStep, BaseHolds, MoneyHolds, PTL DEF HostingSpec

--------------------------------------------------------------------------------
(* The orders: whoever works on one is its customer, a fulfilment has a paid     *)
(* session behind it, and an order's credit is there once it is fulfilled.       *)

AskingKinds == {"checkout", "session", "bind"}
AsksFor(p, o) == req[p].kind \in AskingKinds /\ req[p].order = o
Fulfils(p, o) == req[p].kind = "fulfil" /\ req[p].order = o
OrdersInv ==
  /\ \A p \in Clients : \A o \in Orders :
       AsksFor(p, o) => order[o].account \in {Nobody, req[p].account}
  /\ \A p, q \in Clients : \A o \in Orders :
       AsksFor(p, o) /\ AsksFor(q, o) => req[p].account = req[q].account
  /\ \A p \in Clients : \A o \in Orders :
       Fulfils(p, o) => session[o] = "paid" /\ order[o].account = req[p].account
  /\ \A o \in Orders : order[o].fulfilled => session[o] = "paid"
  /\ \A o \in Orders : \A c \in Customers :
       HasKey(ledger[c], <<"stripe", o>>) <=> order[o].fulfilled /\ order[o].account = c

(* A request goes on with its order, turns to something else, or begins as      *)
(* AskCheckout and ReceiveWebhook let it.                                       *)
RequestIsOwn(p) ==
  \/ req'[p] = req[p]
  \/ req'[p].kind \notin AskingKinds \cup {"fulfil"}
  \/ /\ req[p].kind \in AskingKinds /\ req'[p].kind \in AskingKinds
     /\ req'[p].order = req[p].order /\ req'[p].account = req[p].account
  \/ req'[p].kind = "checkout" /\ OrderIsOf(req'[p].order, req'[p].account)
  \/ /\ req'[p].kind = "fulfil" /\ session[req'[p].order] = "paid"
     /\ order[req'[p].order].account = req'[p].account
OrderIsKept(o) ==
  /\ order'[o].fulfilled = order[o].fulfilled
  /\ session[o] = "paid" => session'[o] = "paid"
  /\ \/ order'[o].account = order[o].account
     \/ \E p \in Clients : AsksFor(p, o) /\ order'[o].account = req[p].account

LEMMA OrderOfItsCustomer ==
  ASSUME BaseInv, OrdersInv, NEW o \in Orders, OrderIsKept(o)
  PROVE  /\ order[o].account # Nobody => order'[o].account = order[o].account
         /\ \A p \in Clients : AsksFor(p, o) => order'[o].account \in {Nobody, req[p].account}
         /\ session[o] = "paid" => order'[o].account = order[o].account
<1>1. order[o].account # Nobody => order'[o].account = order[o].account
  BY DEF OrderIsKept, OrdersInv
<1>2. \A p \in Clients : AsksFor(p, o) => order'[o].account \in {Nobody, req[p].account}
  BY DEF OrderIsKept, OrdersInv
<1>3. session[o] = "paid" => order[o].account # Nobody
  BY DEF BaseInv, AccountsAreOpened
<1> QED BY <1>1, <1>2, <1>3

LEMMA OrdersStay ==
  ASSUME BaseInv, OrdersInv, StripeKeysStay, NEW p, RequestTypes',
         \A q \in Clients \ {p} : req'[q] = req[q], p \in Clients => RequestIsOwn(p),
         \A o \in Orders : OrderIsKept(o)
  PROVE  OrdersInv'
<1>1. /\ \A q \in Clients : \A o \in Orders : AsksFor(q, o) => req[q].account \in Customers
      /\ Nobody \notin Customers
  BY Constants, RequestTyped DEF AsksFor, AskingKinds, Checkouts
<1>2. ASSUME NEW q \in Clients, NEW o \in Orders, AsksFor(q, o)'
      PROVE  /\ order'[o].account \in {Nobody, req'[q].account}
             /\ \A s \in Clients : AsksFor(s, o) => req[s].account = req'[q].account
  <2>1. CASE AsksFor(q, o) /\ req'[q].account = req[q].account
    BY <2>1, OrderOfItsCustomer DEF OrdersInv
  <2>2. CASE OrderIsOf(o, req'[q].account)
    <3>1. \A s \in Clients : AsksFor(s, o) => req[s].account = req'[q].account
      BY <2>2 DEF OrderIsOf, AsksFor, AskingKinds
    <3>2. order[o].account \in {Nobody, req'[q].account}
      BY <2>2 DEF OrderIsOf
    <3> QED BY <3>1, <3>2 DEF OrderIsKept
  <2>3. q # p => AsksFor(q, o) /\ req'[q].account = req[q].account
    BY <1>2 DEF AsksFor
  <2>4. q = p => \/ AsksFor(q, o) /\ req'[q].account = req[q].account
                 \/ OrderIsOf(o, req'[q].account)
    BY <1>2 DEF AsksFor, RequestIsOwn, AskingKinds
  <2> QED BY <2>1, <2>2, <2>3, <2>4
<1>3. ASSUME NEW q \in Clients, NEW s \in Clients, NEW o \in Orders,
             AsksFor(q, o)', AsksFor(s, o)'
      PROVE  req'[q].account = req'[s].account
  <2>1. q # p => AsksFor(q, o) /\ req'[q].account = req[q].account
    BY <1>3 DEF AsksFor
  <2>2. s # p => AsksFor(s, o) /\ req'[s].account = req[s].account
    BY <1>3 DEF AsksFor
  <2> QED BY <1>2, <1>3, <2>1, <2>2
<1>4. ASSUME NEW q \in Clients, NEW o \in Orders, Fulfils(q, o)'
      PROVE  session'[o] = "paid" /\ order'[o].account = req'[q].account
  <2>1. session[o] = "paid" /\ order[o].account = req'[q].account
    <3>1. CASE req'[q] = req[q]
      BY <1>4, <3>1 DEF Fulfils, OrdersInv
    <3>2. CASE q = p /\ req'[q] # req[q]
      BY <1>4, <3>2 DEF Fulfils, RequestIsOwn, AskingKinds
    <3> QED BY <3>1, <3>2
  <2> QED BY <2>1, OrderOfItsCustomer DEF OrderIsKept
<1>5. ASSUME NEW o \in Orders, order'[o].fulfilled PROVE session'[o] = "paid"
  BY <1>5 DEF OrderIsKept, OrdersInv
<1>6. ASSUME NEW o \in Orders, NEW c \in Customers
      PROVE  (HasKey(ledger[c], <<"stripe", o>>) <=> order[o].fulfilled /\ order[o].account = c)'
  <2>1. HasKey(ledger'[c], <<"stripe", o>>) <=> order[o].fulfilled /\ order[o].account = c
    BY DEF StripeKeysStay, OrdersInv
  <2>2. order[o].fulfilled => order'[o].account = order[o].account
    BY OrderOfItsCustomer DEF OrdersInv
  <2>3. order'[o].fulfilled = order[o].fulfilled
    BY DEF OrderIsKept
  <2> QED BY <2>1, <2>2, <2>3 DEF HasKey
<1> QED BY <1>2, <1>3, <1>4, <1>5, <1>6 DEF OrdersInv

LEMMA FulfillKeepsOrders ==
  ASSUME BaseInv, MoneyInv, OrdersInv, NEW p \in Clients, FulfillHostingCheckout(p)
  PROVE  OrdersInv'
<1> DEFINE o == req[p].order
           a == req[p].account
<1>1. /\ p \in Procs /\ req[p].kind = "fulfil" /\ UNCHANGED session
      /\ order' = [order EXCEPT ![o].session = TRUE, ![o].fulfilled = TRUE]
      /\ req' = [req EXCEPT ![p] = Idle]
  BY Constants DEF FulfillHostingCheckout, Ends
<1>2. o \in Orders /\ a \in Customers /\ session[o] = "paid" /\ order[o].account = a
  BY <1>1, RequestTyped DEF Fulfilments, OrdersInv, Fulfils
<1>3. /\ order'[o].fulfilled /\ \A d \in Orders \ {o} : order'[d] = order[d]
      /\ \A d \in Orders : order'[d].account = order[d].account
  BY <1>1, <1>2 DEF BaseInv, HostingTypes, RequestTypes, OrderRows
<1>4. OnlyNewKey(a, <<"stripe", o>>)
  BY FulfillMoves
<1>5. \A q \in Clients : req'[q] = req[q] \/ req'[q] = Idle
  BY <1>1, Constants DEF BaseInv, HostingTypes, RequestTypes
<1> HIDE DEF o, a
<1>6. \A q \in Clients : \A d \in Orders :
        /\ AsksFor(q, d)' => AsksFor(q, d) /\ req'[q] = req[q]
        /\ Fulfils(q, d)' => Fulfils(q, d) /\ req'[q] = req[q]
  BY <1>5 DEF AsksFor, Fulfils, Idle, AskingKinds
<1>7. ASSUME NEW d \in Orders, NEW c \in Customers
      PROVE  HasKey(ledger'[c], <<"stripe", d>>) <=> order'[d].fulfilled /\ order'[d].account = c
  <2>1. HasKey(ledger'[c], <<"stripe", d>>) <=>
          HasKey(ledger[c], <<"stripe", d>>) \/ (c = a /\ d = o)
    <3>1. <<"stripe", d>> # <<"expiry">> /\ (<<"stripe", d>> = <<"stripe", o>> <=> d = o)
      OBVIOUS
    <3> QED BY <1>4, <3>1 DEF OnlyNewKey
  <2>2. HasKey(ledger[c], <<"stripe", d>>) <=> order[d].fulfilled /\ order[d].account = c
    BY DEF OrdersInv
  <2> QED BY <1>2, <1>3, <2>1, <2>2
<1>8. \A q \in Clients : \A d \in Orders :
        AsksFor(q, d)' => order'[d].account \in {Nobody, req'[q].account}
  BY <1>3, <1>6 DEF OrdersInv
<1>9. \A q, s \in Clients : \A d \in Orders :
        AsksFor(q, d)' /\ AsksFor(s, d)' => req'[q].account = req'[s].account
  BY <1>6 DEF OrdersInv
<1>10. \A q \in Clients : \A d \in Orders :
         Fulfils(q, d)' => session'[d] = "paid" /\ order'[d].account = req'[q].account
  <2> SUFFICES ASSUME NEW q \in Clients, NEW d \in Orders, Fulfils(q, d)'
               PROVE  session'[d] = "paid" /\ order'[d].account = req'[q].account
    OBVIOUS
  <2>1. Fulfils(q, d) /\ req'[q] = req[q]
    BY <1>6
  <2>2. session[d] = "paid" /\ order[d].account = req[q].account
    BY <2>1 DEF OrdersInv
  <2>3. order'[d].account = order[d].account /\ session' = session
    BY <1>1, <1>3
  <2> QED BY <2>1, <2>2, <2>3
<1>11. \A d \in Orders : order'[d].fulfilled => session'[d] = "paid"
  BY <1>1, <1>2, <1>3 DEF OrdersInv
<1> QED BY <1>7, <1>8, <1>9, <1>10, <1>11 DEF OrdersInv, HasKey

(* Every other step moves one request at most, and keeps every order.           *)
LEMMA OneRequestMoves ==
  ASSUME BaseInv, OrdersInv, HostingNext
  PROVE  \/ \E p \in Clients : FulfillHostingCheckout(p)
         \/ /\ \A o \in Orders : OrderIsKept(o)
            /\ \E p : /\ \A q \in Clients \ {p} : req'[q] = req[q]
                      /\ p \in Clients => RequestIsOwn(p)
<1> DEFINE Kept2 == \A o \in Orders : OrderIsKept(o)
           One(p) == /\ \A q \in Clients \ {p} : req'[q] = req[q]
                     /\ p \in Clients => RequestIsOwn(p)
<1>1. /\ req \in [Procs -> Requests] /\ order \in [Orders -> OrderRows]
      /\ session \in [Orders -> {"none", "open", "paid"}]
      /\ \A p \in Clients : p \in Procs
      /\ \A t \in Towers : t \notin Clients
  BY Constants DEF BaseInv, HostingTypes, RequestTypes
<1>2. UNCHANGED payments => Kept2
  BY DEF OrderIsKept, payments
<1>3. ASSUME UNCHANGED <<payments, req>> PROVE Kept2 /\ \E p : One(p)
  <2>1. One(Nobody)
    BY <1>3 DEF RequestIsOwn
  <2> QED BY <1>2, <1>3, <2>1
<1>4. ASSUME NEW p, NEW r, req' = [req EXCEPT ![p] = r]
      PROVE  /\ \A q \in Clients \ {p} : req'[q] = req[q]
             /\ p \in Clients => req'[p] = r
  BY <1>1, <1>4
<1>5. ASSUME NEW p, req' = [req EXCEPT ![p] = Idle]
      PROVE  One(p)
  <2>1. p \in Clients => RequestIsOwn(p)
    BY <1>4, <1>5 DEF RequestIsOwn, Idle, AskingKinds
  <2> QED BY <1>4, <1>5, <2>1
<1>6. ASSUME NEW p \in Clients, NEW c \in Customers, NEW k \in GrantKeys, NEW amount \in Amounts,
             AskGrant(p, c, k, amount)
      PROVE  Kept2 /\ One(p)
  <2> DEFINE r == [kind |-> "grant", account |-> c, key |-> k, amount |-> amount, at |-> now]
  <2>1. UNCHANGED payments /\ req' = [req EXCEPT ![p] = r] /\ r.kind = "grant"
    BY <1>6 DEF AskGrant
  <2> HIDE DEF r
  <2>2. RequestIsOwn(p)
    BY <1>4, <2>1 DEF RequestIsOwn, AskingKinds
  <2> QED BY <1>2, <1>4, <2>1, <2>2
<1>7. ASSUME NEW p \in Clients, NEW c \in Customers, NEW o \in Orders, AskCheckout(p, c, o)
      PROVE  Kept2 /\ One(p)
  <2> DEFINE r == [kind |-> "checkout", account |-> c, order |-> o]
  <2>1. /\ UNCHANGED payments /\ req' = [req EXCEPT ![p] = r] /\ OrderIsOf(o, c)
        /\ r.kind = "checkout" /\ r.account = c /\ r.order = o
    BY <1>7 DEF AskCheckout
  <2> HIDE DEF r
  <2>2. req'[p] = r
    BY <1>4, <2>1
  <2>3. RequestIsOwn(p)
    BY <2>1, <2>2 DEF RequestIsOwn
  <2> QED BY <1>2, <1>4, <2>1, <2>3
<1>8. ASSUME NEW p \in Clients, NEW o \in Orders, ReceiveWebhook(p, o)
      PROVE  Kept2 /\ One(p)
  <2> DEFINE r == [kind |-> "fulfil", account |-> order[o].account, order |-> o, at |-> now]
  <2>1. /\ UNCHANGED payments /\ req' = [req EXCEPT ![p] = r] /\ session[o] = "paid"
        /\ r.kind = "fulfil" /\ r.account = order[o].account /\ r.order = o
    BY <1>8 DEF ReceiveWebhook, ToFulfil
  <2> HIDE DEF r
  <2>2. req'[p] = r
    BY <1>4, <2>1
  <2>3. RequestIsOwn(p)
    BY <2>1, <2>2 DEF RequestIsOwn
  <2> QED BY <1>2, <1>4, <2>1, <2>3
<1>9. ASSUME NEW p \in Procs, Abort(p) \/ DeadlockVictim(p)
      PROVE  Kept2 /\ One(p)
  <2>1. UNCHANGED payments /\ req' = [req EXCEPT ![p] = Idle]
    BY <1>9 DEF Abort, DeadlockVictim, Undo, Ends
  <2> QED BY <1>2, <1>5, <2>1
<1>10. ASSUME NEW p \in Clients, GrantHostingCredit(p) \/ FulfilDuplicate(p)
       PROVE  Kept2 /\ One(p)
  <2>1. UNCHANGED payments /\ req' = [req EXCEPT ![p] = Idle]
    BY <1>10 DEF GrantHostingCredit, FulfilDuplicate, Ends
  <2> QED BY <1>2, <1>5, <2>1
<1>11. ASSUME NEW p \in Clients, CreateHostingCheckout(p) \/ CreateSession(p) \/ BindSession(p)
       PROVE  Kept2 /\ One(p)
  <2>1. p \in Procs /\ req[p].kind \in AskingKinds
    BY <1>11, Constants DEF CreateHostingCheckout, CreateSession, BindSession, AskingKinds
  <2>2. req[p] \in Checkouts /\ req[p].order \in Orders
    BY <2>1, RequestTyped DEF AskingKinds, Checkouts
  <2>3. Kept2
    <3>1. CASE CreateHostingCheckout(p)
      <4>1. UNCHANGED session /\ order' = [order EXCEPT ![req[p].order].account = req[p].account]
        BY <3>1 DEF CreateHostingCheckout
      <4>2. \A o \in Orders :
              /\ order'[o].fulfilled = order[o].fulfilled
              /\ \/ order'[o].account = order[o].account
                 \/ o = req[p].order /\ order'[o].account = req[p].account
        BY <1>1, <2>2, <4>1 DEF OrderRows
      <4> QED BY <2>1, <4>1, <4>2 DEF OrderIsKept, AsksFor
    <3>2. CASE CreateSession(p)
      BY <1>1, <2>2, <3>2 DEF CreateSession, OrderIsKept
    <3>3. CASE BindSession(p)
      <4>1. UNCHANGED session /\ order' = [order EXCEPT ![req[p].order].session = TRUE]
        BY <3>3 DEF BindSession
      <4>2. \A o \in Orders : /\ order'[o].fulfilled = order[o].fulfilled
                              /\ order'[o].account = order[o].account
        BY <1>1, <2>2, <4>1 DEF OrderRows
      <4> QED BY <4>1, <4>2 DEF OrderIsKept
    <3> QED BY <1>11, <3>1, <3>2, <3>3
  <2>4. \/ req' = [req EXCEPT ![p] = [req[p] EXCEPT !.kind = "session"]]
        \/ req' = [req EXCEPT ![p] = [req[p] EXCEPT !.kind = "bind"]]
        \/ req' = [req EXCEPT ![p] = Idle]
    BY <1>11 DEF CreateHostingCheckout, CreateSession, BindSession
  <2>5. ASSUME NEW kind \in {"session", "bind"},
               req' = [req EXCEPT ![p] = [req[p] EXCEPT !.kind = kind]]
        PROVE  One(p)
    <3>1. req'[p] = [req[p] EXCEPT !.kind = kind]
      BY <1>4, <2>5
    <3>2. req'[p].kind = kind /\ req'[p].order = req[p].order /\ req'[p].account = req[p].account
      BY <2>2, <3>1 DEF Checkouts
    <3>3. RequestIsOwn(p)
      BY <2>1, <3>2 DEF RequestIsOwn, AskingKinds
    <3> QED BY <1>4, <2>5, <3>3
  <2> QED BY <1>5, <2>3, <2>4, <2>5
<1>12. ASSUME NEW o \in Orders, Pay(o) PROVE Kept2 /\ \E p : One(p)
  <2>1. UNCHANGED <<order, req>> /\ session' = [session EXCEPT ![o] = "paid"]
    BY <1>12 DEF Pay
  <2>2. Kept2
    BY <1>1, <2>1 DEF OrderIsKept
  <2>3. One(Nobody)
    BY <2>1 DEF RequestIsOwn
  <2> QED BY <2>2, <2>3
<1>13. ASSUME NEW t \in Towers, MeterHour(t) \/ AuditHostingHour(t)
       PROVE  Kept2 /\ One(t)
  <2>1. UNCHANGED payments /\ \E r : req' = [req EXCEPT ![t] = r]
    BY <1>13 DEF MeterHour, AuditHostingHour, Ends
  <2> QED BY <1>1, <1>2, <1>4, <2>1
<1>14. ASSUME \/ \E w \in Workspaces, c \in Customers : LinkHostedAccount(w, c)
              \/ \E p \in Procs : LockAccount(p) \/ LockOrder(p)
              \/ \E t \in Towers : StartTick(t) \/ VisitWorkspace(t) \/ EndTick(t) \/ LoseSession(t)
              \/ Advance
       PROVE  Kept2 /\ \E p : One(p)
  <2>1. UNCHANGED <<payments, req>>
    BY <1>14 DEF LinkHostedAccount, LockAccount, TakesAccount, LockOrder, StartTick,
                 VisitWorkspace, EndTick, LoseSession, Advance
  <2> QED BY <1>3, <2>1
<1> HIDE DEF Kept2, One
<1>15. \/ \E p \in Clients : FulfillHostingCheckout(p)
       \/ Kept2 /\ \E p : One(p)
  BY <1>6, <1>7, <1>8, <1>9, <1>10, <1>11, <1>12, <1>13, <1>14 DEF HostingNext
<1> QED BY <1>15 DEF Kept2, One

LEMMA OnlyFulfilmentsCredit ==
  ASSUME BaseInv, MoneyInv, HostingNext
  PROVE  StripeKeysStay \/ \E p \in Clients : FulfillHostingCheckout(p)
<1>1. MoneyStays => StripeKeysStay
  BY DEF MoneyStays, StripeKeysStay
<1> QED BY <1>1, OthersMoveNothing, LinkMoves, GrantMoves, AuditMoves

LEMMA OrdersStep ==
  ASSUME BaseInv, MoneyInv, OrdersInv, [HostingNext]_hostingVars
  PROVE  OrdersInv'
<1>1. RequestTypes'
  BY BaseStep DEF BaseInv, HostingTypes
<1>2. CASE UNCHANGED hostingVars
  BY <1>2 DEF hostingVars, payments, money, OrdersInv, AsksFor, Fulfils
<1>3. CASE HostingNext
  BY <1>1, <1>3, FulfillKeepsOrders, OneRequestMoves, OnlyFulfilmentsCredit, OrdersStay
<1> QED BY <1>2, <1>3

LEMMA OrdersInit ==
  ASSUME HostingInit
  PROVE  OrdersInv
<1>1. /\ \A p \in Clients : p \in Procs /\ req[p] = Idle
      /\ \A o \in Orders : order[o].account = Nobody /\ ~order[o].fulfilled
      /\ \A c \in Customers : ledger[c] = <<>>
  BY Constants DEF HostingInit, HostingStart
<1>2. \A c \in Customers : \A key : ~HasKey(ledger[c], key)
  BY <1>1, EmptyIsGood
<1> QED BY <1>1, <1>2 DEF OrdersInv, AsksFor, Fulfils, AskingKinds, Idle

LEMMA OrdersHold == HostingSpec => []OrdersInv
BY OrdersInit, OrdersStep, BaseHolds, MoneyHolds, PTL DEF HostingSpec

--------------------------------------------------------------------------------
(* The refinement.                                                              *)

ShownEntries(log) ==
  [i \in DOMAIN log |-> [key |-> log[i].key, amount |-> log[i].amount,
                         after |-> log[i].paid + log[i].promo]]
Movements == [key : Keys, amount : Int, after : Int]

LEMMA ShownLog ==
  ASSUME NEW log \in Seq(EntryRecords)
  PROVE  /\ ShownEntries(log) \in Seq(Movements) /\ Len(ShownEntries(log)) = Len(log) /\ Len(log) \in Nat
         /\ \A i \in 1 .. Len(log) :
              /\ ShownEntries(log)[i].key = log[i].key /\ ShownEntries(log)[i].amount = log[i].amount
              /\ ShownEntries(log)[i].after = Total(log[i])
<1>1. DOMAIN log = 1 .. Len(log) /\ Len(log) \in Nat
  OBVIOUS
<1>2. \A i \in 1 .. Len(log) : log[i] \in EntryRecords /\ Total(log[i]) \in Int
  BY LogFacts DEF Total
<1>3. \A i \in 1 .. Len(log) :
        [key |-> log[i].key, amount |-> log[i].amount, after |-> log[i].paid + log[i].promo]
          \in Movements
  BY <1>2 DEF EntryRecords, Movements, Total
<1>4. ShownEntries(log) \in [1 .. Len(log) -> Movements]
  BY <1>1, <1>3 DEF ShownEntries
<1>5. ShownEntries(log) \in Seq(Movements) /\ Len(ShownEntries(log)) = Len(log)
  BY <1>1, <1>4
<1> QED BY <1>1, <1>5 DEF ShownEntries, Total

ShownLedger == [c \in Customers |-> ShownEntries(ledger[c])]
ShownBalance == [c \in Customers |-> paid[c] + promo[c]]

(* A good log is one that PrepaidLedger lets be posted, and ends in the balance. *)
LEMMA GoodLogIsPrepaid ==
  ASSUME NEW log, NEW x \in Int, NEW y \in Int, GoodLog(log, x, y), log # <<>>
  PROVE  Ledger!Chained(ShownEntries(log)) /\ Ledger!KeysOnce(ShownEntries(log))
         /\ Ledger!After(ShownEntries(log)) = x + y
<1>1. log \in Seq(EntryRecords) /\ ChainedLog(log) /\ UniqueKeys(log) /\ LeavesBalance(log, x, y)
  BY DEF GoodLog
<1>2. /\ ShownEntries(log) \in Seq(Movements) /\ Len(ShownEntries(log)) = Len(log) /\ Len(log) \in Nat
      /\ \A i \in 1 .. Len(log) :
           /\ ShownEntries(log)[i].key = log[i].key /\ ShownEntries(log)[i].amount = log[i].amount
           /\ ShownEntries(log)[i].after = Total(log[i])
  BY <1>1, ShownLog
<1>3. Ledger!Chained(ShownEntries(log))
  <2> SUFFICES ASSUME NEW i \in 1 .. Len(log)
               PROVE  ShownEntries(log)[i].after =
                        ShownEntries(log)[i].amount + (IF i = 1 THEN 0 ELSE ShownEntries(log)[i - 1].after)
    BY <1>2 DEF Ledger!Chained
  <2>1. Total(log[i]) = log[i].amount + TotalBefore(log, i)
    BY <1>1 DEF ChainedLog
  <2>2. i # 1 => i - 1 \in 1 .. Len(log)
    BY <1>2
  <2> QED BY <1>2, <2>1, <2>2 DEF TotalBefore
<1>4. Ledger!KeysOnce(ShownEntries(log))
  BY <1>1, <1>2 DEF Ledger!KeysOnce, UniqueKeys
<1>5. Len(log) \in 1 .. Len(log)
  BY <1>1, <1>2, LogFacts
<1>6. ShownEntries(log) # <<>>
  BY <1>2, <1>5, EmptySeq
<1>7. Ledger!After(ShownEntries(log)) = Total(log[Len(log)])
  BY <1>2, <1>5, <1>6 DEF Ledger!After
<1> QED BY <1>1, <1>3, <1>4, <1>7 DEF LeavesBalance, Total

LEMMA MoneyStepPosts ==
  ASSUME BaseInv, MoneyInv, MoneyTypes', NEW c \in Customers, NEW k,
         NEW log, NEW x, NEW y, NEW z, MoneyStep(c, log, x, y, z, k)
  PROVE  \/ ShownLedger' = ShownLedger /\ ShownBalance' = ShownBalance
         \/ /\ Ledger!Continues(ShownLedger[c], ShownLedger'[c])
            /\ Ledger!Chained(ShownLedger'[c]) /\ Ledger!KeysOnce(ShownLedger'[c])
            /\ ShownLedger' = [ShownLedger EXCEPT ![c] = ShownLedger'[c]]
            /\ ShownBalance' = [ShownBalance EXCEPT ![c] = Ledger!After(ShownLedger'[c])]
<1>1. /\ \A d \in Customers \ {c} : /\ ledger'[d] = ledger[d] /\ paid'[d] = paid[d]
                                   /\ promo'[d] = promo[d]
      /\ ledger'[c] = log /\ paid'[c] = x /\ promo'[c] = y
  BY DEF MoneyStep, BaseInv, HostingTypes, MoneyTypes
<1>2. GoodLog(log, x, y) /\ log # <<>> /\ log \in Seq(EntryRecords)
      /\ ledger[c] \in Seq(EntryRecords)
  BY DEF MoneyStep, GoodLog, BaseInv, HostingTypes, MoneyTypes
<1>3. x \in Int /\ y \in Int
  BY <1>1, Constants DEF MoneyTypes
<1>4. /\ ShownLedger' = [ShownLedger EXCEPT ![c] = ShownEntries(log)]
      /\ ShownBalance' = [ShownBalance EXCEPT ![c] = x + y]
      /\ ShownLedger'[c] = ShownEntries(log) /\ ShownLedger[c] = ShownEntries(ledger[c])
  BY <1>1 DEF ShownLedger, ShownBalance
<1>5. CASE log = ledger[c] /\ x = paid[c] /\ y = promo[c]
  BY <1>4, <1>5 DEF ShownLedger, ShownBalance
<1>6. CASE Len(ledger[c]) < Len(log) /\ \A i \in 1 .. Len(ledger[c]) : log[i] = ledger[c][i]
  <2>1. Len(ShownEntries(ledger[c])) = Len(ledger[c]) /\ Len(ShownEntries(log)) = Len(log)
        /\ Len(ledger[c]) \in Nat /\ Len(log) \in Nat
    BY <1>2, ShownLog
  <2>2. \A i \in 1 .. Len(ledger[c]) : ShownEntries(log)[i] = ShownEntries(ledger[c])[i]
    BY <1>2, <1>6, <2>1 DEF ShownEntries
  <2>3. Ledger!Continues(ShownEntries(ledger[c]), ShownEntries(log))
    BY <1>6, <2>1, <2>2 DEF Ledger!Continues
  <2>4. Ledger!Chained(ShownEntries(log)) /\ Ledger!KeysOnce(ShownEntries(log))
        /\ Ledger!After(ShownEntries(log)) = x + y
    BY <1>2, <1>3, GoodLogIsPrepaid
  <2> QED BY <1>4, <2>3, <2>4
<1> QED BY <1>5, <1>6 DEF MoneyStep

(* HostingCredits implements PrepaidLedger.                                     *)
THEOREM HostingIsPrepaid == HostingSpec => BalanceIsPrepaid
<1>1. HostingInit => Ledger!Init
  <2> SUFFICES ASSUME HostingInit PROVE Ledger!Init
    OBVIOUS
  <2>1. \A c \in Customers : ledger[c] = <<>> /\ paid[c] = 0 /\ promo[c] = 0
    BY DEF HostingInit, HostingStart
  <2>2. \A c \in Customers : [i \in DOMAIN ledger[c] |->
          [key |-> ledger[c][i].key, amount |-> ledger[c][i].amount,
           after |-> ledger[c][i].paid + ledger[c][i].promo]] = <<>>
    BY <2>1
  <2> QED BY <2>1, <2>2 DEF Ledger!Init
<1>2. BaseInv /\ BaseInv' /\ MoneyInv /\ [HostingNext]_hostingVars
      => [Ledger!Next]_<<ShownLedger, ShownBalance>>
  <2> SUFFICES ASSUME BaseInv, BaseInv', MoneyInv, [HostingNext]_hostingVars
               PROVE  Ledger!Next \/ UNCHANGED <<ShownLedger, ShownBalance>>
    OBVIOUS
  <2>1. CASE MoneyStays
    BY <2>1 DEF MoneyStays, ShownLedger, ShownBalance
  <2>2. CASE MoneyMoves
    <3>1. PICK c \in Customers, k \in Keys : \E log, x, y, z : MoneyStep(c, log, x, y, z, k)
      BY <2>2 DEF MoneyMoves
    <3>2. PICK log, x, y, z : MoneyStep(c, log, x, y, z, k)
      BY <3>1
    <3>3. MoneyTypes'
      BY DEF BaseInv, HostingTypes
    <3>4. CASE UNCHANGED <<ShownLedger, ShownBalance>>
      BY <3>4
    <3>5. CASE ~UNCHANGED <<ShownLedger, ShownBalance>>
      <4>1. /\ Ledger!Continues(ShownLedger[c], ShownLedger'[c])
            /\ Ledger!Chained(ShownLedger'[c]) /\ Ledger!KeysOnce(ShownLedger'[c])
            /\ ShownLedger' = [ShownLedger EXCEPT ![c] = ShownLedger'[c]]
            /\ ShownBalance' = [ShownBalance EXCEPT ![c] = Ledger!After(ShownLedger'[c])]
        BY <3>2, <3>3, <3>5, MoneyStepPosts
      <4>2. Ledger!Post(c)
        BY <4>1 DEF Ledger!Post, ShownLedger, ShownBalance, ShownEntries
      <4> QED BY <4>2 DEF Ledger!Next
    <3> QED BY <3>4, <3>5
  <2> QED BY <2>1, <2>2, EveryStepMoves
<1>3. [Ledger!Next]_<<ShownLedger, ShownBalance>> =>
      [Ledger!Next]_<<[c \in Customers |-> [i \in DOMAIN ledger[c] |->
                [key |-> ledger[c][i].key, amount |-> ledger[c][i].amount,
                 after |-> ledger[c][i].paid + ledger[c][i].promo]]],
               [c \in Customers |-> paid[c] + promo[c]]>>
  BY DEF ShownLedger, ShownBalance, ShownEntries
<1> QED BY <1>1, <1>2, <1>3, BaseHolds, MoneyHolds, PTL
        DEF HostingSpec, BalanceIsPrepaid, Ledger!Spec

(* Money lets a customer write again: no account with a positive balance is     *)
(* marked exhausted, whichever of a charge and a payment committed last.        *)
THEOREM FundsLiftTheMark == HostingSpec => []FundsRestoreWrites
<1>1. MoneyInv => FundsRestoreWrites
  BY DEF MoneyInv
<1> QED BY <1>1, MoneyHolds, PTL

(* The tables hold what their columns allow, and a locked row is locked by the  *)
(* request that works on it.                                                    *)
THEOREM HostingTyped == HostingSpec => []HostingTypeOK
<1>1. BaseInv => HostingTypeOK
  <2> SUFFICES ASSUME BaseInv PROVE HostingTypeOK
    OBVIOUS
  <2>1. MoneyTypes /\ CounterTypes /\ RequestTypes /\ LockTypes /\ MeterTypes
    BY DEF BaseInv, HostingTypes
  <2>2. /\ \A c \in Customers : accountLock[c] # Nobody =>
             HasAccount(accountLock[c]) /\ req[accountLock[c]].account = c
        /\ \A o \in Orders : orderLock[o] # Nobody =>
             HasOrder(orderLock[o]) /\ req[orderLock[o]].order = o
    BY DEF BaseInv, LocksAreHeld
  <2> QED BY <2>1, <2>2 DEF HostingTypeOK, MoneyTypes, CounterTypes, RequestTypes, LockTypes,
        MeterTypes, EntryRecords, OrderRows, AccountRows, HourRecords, Ticks, NextHours
<1> QED BY <1>1, BaseHolds, PTL

(* The meter's record has no hole: the hours on record run without a gap from   *)
(* the enrolment, so a tick that stopped anywhere resumes where it stopped.     *)
THEOREM MeterLeavesNoGap == HostingSpec => []HoursHaveNoGap
<1>1. BaseInv /\ MeterInv => HoursHaveNoGap
  <2> SUFFICES ASSUME BaseInv, MeterInv, NEW w \in Links, NEW h \in Recorded(w)
               PROVE  FirstHour(w) <= h /\ FirstHour(w) .. h \subseteq Recorded(w)
    BY DEF HoursHaveNoGap
  <2>1. w \in Workspaces /\ h \in Hours /\ hours[w][h] # NoHour
    BY DEF Links, Recorded
  <2>2. RecordedBefore(w, h)
    BY <2>1 DEF MeterInv, HourIsBacked
  <2>3. ASSUME NEW g \in FirstHour(w) .. h PROVE g \in Recorded(w)
    <3>1. FirstHour(w) \in Hours
      BY <2>1, HourTypes
    <3>2. g \in Hours /\ FirstHour(w) <= g /\ (g < h \/ g = h)
      BY <2>1, <2>3, <3>1, Constants DEF Hours
    <3> QED BY <2>1, <2>2, <3>2 DEF RecordedBefore, Recorded
  <2> QED BY <2>2, <2>3 DEF RecordedBefore
<1> QED BY <1>1, BaseHolds, MeterHolds, PTL

(* Evidence and money agree: an hour is debited once and exactly when its row   *)
(* says it was charged, from a sample taken in that hour of a workspace that    *)
(* was enrolled when it began, and an order adds its price once and only if     *)
(* Stripe says it was paid.                                                     *)
THEOREM EvidenceAndMoneyAgree == HostingSpec => []EvidenceMatchesLedger
<1>1. MeterInv /\ OrdersInv => EvidenceMatchesLedger
  <2> SUFFICES ASSUME MeterInv, OrdersInv PROVE EvidenceMatchesLedger
    OBVIOUS
  <2>1. \A c, key : HasEntry(c, key) <=> HasKey(ledger[c], key)
    BY DEF HasEntry, HasKey
  <2>2. ASSUME NEW w \in Workspaces, NEW h \in Hours
        PROVE  /\ \A c \in Customers : HasEntry(c, <<"usage", w, h>>) =>
                    link[w] = c /\ hours[w][h].status = "charged"
               /\ hours[w][h].debit > 0 => HasEntry(link[w], <<"usage", w, h>>)
               /\ hours[w][h].status = "charged" =>
                    hours[w][h].sampled = h /\ enabled[w] <= 2 * h
    <3>1. HourIsBacked(w, h)
      BY DEF MeterInv
    <3> QED BY <2>1, <3>1 DEF HourIsBacked
  <2>3. ASSUME NEW o \in Orders, NEW c \in Customers
        PROVE  HasEntry(c, <<"stripe", o>>) <=>
                 (order[o].fulfilled /\ order[o].account = c /\ session[o] = "paid")
    BY <2>1 DEF OrdersInv
  <2> QED BY <2>2, <2>3 DEF EvidenceMatchesLedger
<1> QED BY <1>1, MeterHolds, OrdersHold, PTL
=================================================================================
