------------------------ MODULE NotificationInboxProofs ------------------------
(* Theorems about NotificationInbox for any recipients, workers, pages, kinds of *)
(* event and bounds.                                                             *)
(*                                                                               *)
(* Every writer of an inbox does one of four things to it: it changes some items *)
(* and numbers them anew (Renumbered), folds an event in, appends an item, or    *)
(* prunes tombstones.  BoxOK says what each of these keeps of one inbox, and     *)
(* BoxMove what the other actors may rely on.  On that stand the layers of the   *)
(* inductive invariant: Types; Boxes, what one inbox holds; Jobs, what a worker  *)
(* on its page may assume; Reach, how far each event has got; Places, which      *)
(* gives every item an event of its own; and Copies, what a client holds.        *)
EXTENDS NotificationInbox, FiniteSetTheorems, SequenceTheorems, WellFoundedInduction, TLAPS

--------------------------------------------------------------------------------
(* The types.                                                                    *)

States   == {"pending", "leased", "done", "dead"}
EventStates == {"accepted", "projected", "rejected"}
Rows     == [op : Ops, target : Nat, event : EventStates, state : States, due : BOOLEAN,
             leased : BOOLEAN, attempts : 0 .. MaxAttempts, resume : Recipients \cup {0},
             version : Nat]
Groups   == {"thread", "app", "none"}
Reads    == {"no", "viewed", "user", "bulk", "resolved"}
ItemStatuses == {"active", "resolved"}
Items    == [group : Groups, events : SUBSET Nat, count : Nat, version : Nat, seq : Nat,
             read : Reads, marked : BOOLEAN, closed : BOOLEAN, status : ItemStatuses,
             removed : BOOLEAN, gone : BOOLEAN]
Boxes    == [seq : Nat, floor : Nat, viewed : Nat, lock : Projectors \cup {0},
             items : Seq(Items)]
Phases   == {"idle", "claimed", "open", "rejected", "failed"}
Jobs     == [phase : Phases, row : Nat, attempts : 0 .. MaxAttempts,
             resume : Recipients \cup {0}, page : SUBSET Recipients,
             seen : [Recipients -> Nat]]
Shows    == [count : Nat, read : BOOLEAN, closed : BOOLEAN, status : ItemStatuses] \cup {Absent}
Copies   == [cold : BOOLEAN, swept : BOOLEAN, pos : Nat, held : [1 .. MaxEvents -> Shows]]

QueueTypes ==
  /\ queue \in Seq(Rows)
  /\ Len(queue) =< MaxEvents
  /\ source \in {"active", "disabled", "revoked"}
  /\ \A e \in DOMAIN queue :
       /\ queue[e].leased => queue[e].state = "leased"
       /\ queue[e].version # 0 <=> queue[e].op = "rule"
InboxTypes ==
  /\ QueueTypes
  /\ inbox \in [Recipients -> Boxes]
  /\ job \in [Projectors -> Jobs]
  /\ copy \in [Recipients -> Copies]
  /\ moves \in Nat

--------------------------------------------------------------------------------
(* One inbox, when there are n events.                                           *)

Unseen(x) ==
  Present(x) /\ x.read = "no" /\ ~x.marked /\ x.status = "active" /\ x.version # 0
ItemOK(x, b, n) ==
  /\ x.seq \in 1 .. b.seq
  /\ x.gone => x.removed /\ x.seq =< b.floor
  /\ x.events \subseteq 1 .. n
  /\ x.events = {} <=> x.gone
  /\ x.count = Cardinality(x.events)
  /\ x.group = "thread" => x.version # 0
  /\ Unseen(x) => x.version > b.viewed
NumbersDiffer(b) ==
  \A i, j \in DOMAIN b.items : b.items[i].seq = b.items[j].seq => i = j
EventsDiffer(b) ==
  \A i, j \in DOMAIN b.items : i # j => b.items[i].events \cap b.items[j].events = {}
GroupsDiffer(b) ==
  \A i, j \in DOMAIN b.items :
    Open(b.items[i]) /\ Open(b.items[j]) /\ b.items[i].group = b.items[j].group => i = j
BoxOK(b, n) ==
  /\ b.floor =< b.seq
  /\ NumbersDiffer(b) /\ EventsDiffer(b) /\ GroupsDiffer(b)
  /\ \A i \in DOMAIN b.items : ItemOK(b.items[i], b, n)

(* A change of an item comes with a number above all that were given.  A pruned  *)
(* tombstone keeps its number, which the floor has passed.                       *)
ItemMove(x, y, b) ==
  \/ y = x
  \/ y.seq > b.seq /\ ~x.gone /\ ~y.gone /\ x.events \subseteq y.events
  \/ x.removed /\ y.removed /\ y.gone /\ y.seq = x.seq
BoxMove(b, b2) ==
  /\ b.seq =< b2.seq /\ b.floor =< b2.floor
  /\ DOMAIN b.items \subseteq DOMAIN b2.items
  /\ \A i \in DOMAIN b.items : ItemMove(b.items[i], b2.items[i], b)
  /\ \A i \in DOMAIN b2.items \ DOMAIN b.items : b2.items[i].seq > b.seq

--------------------------------------------------------------------------------
(* Workers, the reach of events, the events of items, and copies.                *)

JobOK(w) ==
  LET j == job[w]
      op == queue[j.row].op
  IN  /\ j.phase = "idle" <=> j.row = 0
      /\ j.row # 0 => j.row \in DOMAIN queue
      /\ j.phase \in {"idle", "claimed", "rejected", "failed"} => j.page = {}
      /\ j.phase = "open" =>
           j.page = IF op \in {"rule", "publish"} THEN PageAfter(j.resume) ELSE {}
      /\ j.phase = "rejected" => op # "rule" /\ source # "active"
LockOK(r) ==
  LET w == inbox[r].lock
  IN  w # 0 => r \in job[w].page /\ job[w].seen[r] = inbox[r].viewed

Reached(r, e) ==
  \/ Received(inbox[r], e)
  \/ \E i \in DOMAIN inbox[r].items : inbox[r].items[i].gone
  \/ queue[e].op = "publish" /\ source = "revoked"

(* The source was stopped before a worker came to the event.                     *)
TurnedAway(e) ==
  queue[e].op = "publish" /\ source # "active" /\ queue[e].event = "rejected"
RowOK(e) ==
  queue[e].op \in {"rule", "publish"} =>
    /\ queue[e].state = "done" =>
         TurnedAway(e) \/ \A r \in Recipients : Reached(r, e)
    /\ \A r \in Recipients : r =< queue[e].resume => Reached(r, e)
    /\ \A w \in Projectors : job[w].row = e =>
         \A r \in Recipients : r =< job[w].resume => Reached(r, e)

(* No worker has the event, and none will.                                       *)
Finished(e) ==
  queue[e].state \in {"done", "dead"} /\ \A w \in Projectors : job[w].row # e
PlaceOf(f, r) ==
  /\ \A i, j \in DOMAIN inbox[r].items : f[i] = f[j] => i = j
  /\ \A i \in DOMAIN inbox[r].items :
       IF inbox[r].items[i].gone THEN Finished(f[i]) ELSE f[i] \in inbox[r].items[i].events
PlacesOK(r) == \E f \in [DOMAIN inbox[r].items -> DOMAIN queue] : PlaceOf(f, r)

CopyOK(r) ==
  /\ copy[r].pos =< inbox[r].seq
  /\ ~copy[r].cold /\ ~BelowFloor(r) =>
       \A i \in DOMAIN inbox[r].items :
         inbox[r].items[i].seq =< copy[r].pos =>
           copy[r].held[i] = IF Present(inbox[r].items[i])
                             THEN Shown(inbox[r].items[i]) ELSE Absent

BoxesOK   == \A r \in Recipients : BoxOK(inbox[r], Len(queue)) /\ inbox[r].viewed =< Activity
JobsOK    == (\A w \in Projectors : JobOK(w)) /\ (\A r \in Recipients : LockOK(r))
RowsReach == \A e \in DOMAIN queue : RowOK(e)
Places    == \A r \in Recipients : PlacesOK(r)
CopiesOK  == \A r \in Recipients : CopyOK(r)

--------------------------------------------------------------------------------
(* Numbers given by rank.                                                        *)

LEMMA LargestOfSome ==
  ASSUME NEW S, IsFiniteSet(S), S \subseteq Int, S # {}
  PROVE  Max(S) \in S /\ \A x \in S : x =< Max(S)
<1> DEFINE Topless == {U \in FiniteSubsetsOf(S) : U # {} /\ \A x \in U : \E y \in U : y > x}
<1>1. S \in FiniteSubsetsOf(S)
  BY DEF FiniteSubsetsOf
<1>2. Topless = {}
  <2> SUFFICES ASSUME Topless # {} PROVE FALSE
    OBVIOUS
  <2>1. PICK U \in Topless : \A V \in Topless : ~(<<V, U>> \in StrictSubsetOrdering(S))
    <3>1. IsWellFoundedOn(StrictSubsetOrdering(S), FiniteSubsetsOf(S))
      BY FS_StrictSubsetOrderingWellFounded
    <3>2. Topless \subseteq FiniteSubsetsOf(S)
      OBVIOUS
    <3> QED BY <3>1, <3>2, WFMin
  <2>2. PICK x \in U : TRUE
    OBVIOUS
  <2>3. U \in SUBSET S /\ IsFiniteSet(U) /\ U \subseteq Int
    BY DEF FiniteSubsetsOf
  <2> DEFINE V == U \ {x}
  <2>4. V \in FiniteSubsetsOf(S) /\ <<V, U>> \in StrictSubsetOrdering(S)
    BY <2>2, <2>3, FS_RemoveElement DEF FiniteSubsetsOf, StrictSubsetOrdering
  <2>5. V \notin Topless
    BY <2>1, <2>4
  <2>6. PICK y \in U : y > x
    BY <2>2
  <2>7. y \in V
    BY <2>2, <2>3, <2>6
  <2>8. PICK m \in V : \A z \in V : ~(z > m)
    BY <2>4, <2>5, <2>7
  <2>9. \A z \in U : ~(z > m)
    BY <2>2, <2>3, <2>6, <2>7, <2>8
  <2> QED BY <2>8, <2>9
<1>3. PICK m \in S : \A y \in S : ~(y > m)
  BY <1>1, <1>2
<1>4. \A y \in S : m >= y
  BY <1>3
<1>5. Max(S) \in S /\ \A y \in S : Max(S) >= y
  BY <1>4 DEF Max
<1> QED BY <1>5

RankOf(S, f, x) == Cardinality({y \in S : f[y] =< f[x]})

(* The ranks of distinct keys are 1, 2, ... in the order of the keys.            *)
LEMMA RanksInOrder ==
  ASSUME NEW S, IsFiniteSet(S), NEW f, \A x \in S : f[x] \in Int,
         \A x, y \in S : f[x] = f[y] => x = y
  PROVE  /\ Cardinality(S) \in Nat
         /\ \A x \in S : RankOf(S, f, x) \in 1 .. Cardinality(S)
         /\ \A x, y \in S : f[x] < f[y] => RankOf(S, f, x) < RankOf(S, f, y)
         /\ \A x, y \in S : RankOf(S, f, x) = RankOf(S, f, y) => x = y
         /\ S # {} => \E x \in S : RankOf(S, f, x) = 1
<1> DEFINE Upto(x) == {y \in S : f[y] =< f[x]}
           n == Cardinality(S)
<1>1. n \in Nat
  BY FS_CardinalityType
<1>2. \A x \in S : IsFiniteSet(Upto(x)) /\ Cardinality(Upto(x)) \in Nat /\ Cardinality(Upto(x)) =< n
  BY FS_Subset, FS_CardinalityType
<1>3. \A x \in S : Cardinality(Upto(x)) \in 1 .. n
  <2> TAKE x \in S
  <2>1. x \in Upto(x)
    OBVIOUS
  <2>2. IsFiniteSet(Upto(x)) /\ Cardinality(Upto(x)) \in Nat /\ Cardinality(Upto(x)) =< n
    BY <1>2
  <2> HIDE DEF Upto, n
  <2>3. Cardinality(Upto(x)) # 0
    BY <2>1, <2>2, FS_EmptySet
  <2> QED BY <1>1, <2>2, <2>3
<1>4. \A x, y \in S : f[x] < f[y] => Cardinality(Upto(x)) < Cardinality(Upto(y))
  <2> SUFFICES ASSUME NEW x \in S, NEW y \in S, f[x] < f[y]
               PROVE  Cardinality(Upto(x)) < Cardinality(Upto(y))
    OBVIOUS
  <2>1. Upto(x) \subseteq Upto(y) /\ y \in Upto(y) /\ y \notin Upto(x)
    OBVIOUS
  <2>2. /\ IsFiniteSet(Upto(y))
        /\ Cardinality(Upto(x)) \in Nat /\ Cardinality(Upto(y)) \in Nat
    BY <1>2
  <2> HIDE DEF Upto
  <2>3. Cardinality(Upto(x)) =< Cardinality(Upto(y))
    BY <2>1, <2>2, FS_Subset
  <2>4. Cardinality(Upto(x)) # Cardinality(Upto(y))
    BY <2>1, <2>2, FS_Subset
  <2> QED BY <2>2, <2>3, <2>4
<1>5. \A x \in S : RankOf(S, f, x) = Cardinality(Upto(x))
  BY DEF RankOf
<1> HIDE DEF Upto, n
<1>6. \A x \in S : RankOf(S, f, x) \in 1 .. n
  BY <1>3, <1>5
<1>7. \A x, y \in S : f[x] < f[y] => RankOf(S, f, x) < RankOf(S, f, y)
  BY <1>4, <1>5
<1>8. \A x, y \in S : RankOf(S, f, x) = RankOf(S, f, y) => x = y
  <2> SUFFICES ASSUME NEW x \in S, NEW y \in S, RankOf(S, f, x) = RankOf(S, f, y), x # y
               PROVE  FALSE
    OBVIOUS
  <2>1. f[x] < f[y] \/ f[y] < f[x]
    OBVIOUS
  <2> QED BY <1>1, <1>6, <1>7, <2>1
<1>9. S # {} => \E x \in S : RankOf(S, f, x) = 1
  <2> SUFFICES ASSUME S # {} PROVE \E x \in S : RankOf(S, f, x) = 1
    OBVIOUS
  <2> DEFINE g == [x \in S |-> RankOf(S, f, x)]
  <2>1. g \in Injection(S, 1 .. n)
    BY <1>6, <1>8 DEF Injection, IsInjective
  <2>2. IsFiniteSet(1 .. n) /\ Cardinality(1 .. n) = n
    BY <1>1, FS_Interval
  <2>3. g \in Surjection(S, 1 .. n)
    BY <2>1, <2>2, FS_Injection DEF n
  <2>4. 1 \in 1 .. n
    BY <1>1, <1>6
  <2>5. \E x \in S : g[x] = 1
    BY <2>3, <2>4 DEF Surjection
  <2> QED BY <2>5
<1> QED BY <1>1, <1>6, <1>7, <1>8, <1>9 DEF n

--------------------------------------------------------------------------------
(* The ways to write an inbox.                                                   *)

LEMMA BoxFacts ==
  ASSUME NEW b \in Boxes
  PROVE  /\ b.seq \in Nat /\ b.floor \in Nat /\ b.viewed \in Nat
         /\ b.lock \in Projectors \cup {0}
         /\ b.items \in Seq(Items) /\ Len(b.items) \in Nat
         /\ DOMAIN b.items = 1 .. Len(b.items) /\ IsFiniteSet(DOMAIN b.items)
         /\ \A i \in DOMAIN b.items : b.items[i] \in Items
<1>1. /\ b.seq \in Nat /\ b.floor \in Nat /\ b.viewed \in Nat /\ b.items \in Seq(Items)
      /\ b.lock \in Projectors \cup {0}
  BY DEF Boxes
<1>2. Len(b.items) \in Nat /\ DOMAIN b.items = 1 .. Len(b.items)
  BY <1>1, LenProperties
<1>3. IsFiniteSet(1 .. Len(b.items))
  <2>1. 1 \in Int /\ Len(b.items) \in Int
    BY <1>2
  <2> QED BY <2>1, FS_Interval, Zenon
<1>4. \A i \in DOMAIN b.items : b.items[i] \in Items
  BY <1>1, <1>2, ElementOfSeq
<1> QED BY <1>1, <1>2, <1>3, <1>4

LEMMA ItemFacts ==
  ASSUME NEW x \in Items
  PROVE  /\ x.group \in Groups /\ x.events \in SUBSET Nat /\ x.count \in Nat
         /\ x.version \in Nat /\ x.seq \in Nat /\ x.read \in Reads /\ x.status \in ItemStatuses
         /\ x.marked \in BOOLEAN /\ x.closed \in BOOLEAN /\ x.removed \in BOOLEAN
         /\ x.gone \in BOOLEAN
BY DEF Items

(* The items S are changed and numbered anew, above all earlier numbers.         *)
Renumbered(b, b2, S) ==
  /\ b2.seq = b.seq + Cardinality(S) /\ b2.floor = b.floor /\ b2.lock = b.lock
  /\ DOMAIN b2.items = DOMAIN b.items
  /\ \A i \in DOMAIN b.items \ S : b2.items[i] = b.items[i]
  /\ \A i \in S : b2.items[i].seq \in b.seq + 1 .. b2.seq
  /\ \A i, j \in S : b2.items[i].seq = b2.items[j].seq => i = j

(* Changed, with functions for the order and for the changes.                    *)
Bumped(b, S, key, new) ==
  [b EXCEPT !.seq = @ + Cardinality(S),
            !.items = [i \in DOMAIN b.items |->
               IF i \in S THEN [new[i] EXCEPT !.seq = b.seq + RankOf(S, key, i)]
               ELSE b.items[i]]]

Renewed(b, b2, S, new) ==
  /\ Renumbered(b, b2, S) /\ b2.viewed = b.viewed
  /\ \A i \in S : b2.items[i] = [new[i] EXCEPT !.seq = b2.items[i].seq]
InOrder(b2, S, key) ==
  \A i, j \in S : key[i] < key[j] => b2.items[i].seq < b2.items[j].seq

LEMMA BumpedRenumbers ==
  ASSUME NEW b \in Boxes, NEW S \in SUBSET DOMAIN b.items,
         NEW key, \A i \in S : key[i] \in Int, \A i, j \in S : key[i] = key[j] => i = j,
         NEW new, \A i \in S : new[i] \in Items,
         NEW b2, b2 = Bumped(b, S, key, new)
  PROVE  /\ b2 \in Boxes
         /\ Renewed(b, b2, S, new)
         /\ InOrder(b2, S, key)
<1> DEFINE rank == [i \in S |-> RankOf(S, key, i)]
           n == Cardinality(S)
           items2 == [i \in DOMAIN b.items |->
                        IF i \in S THEN [new[i] EXCEPT !.seq = b.seq + rank[i]]
                        ELSE b.items[i]]
<1>1. IsFiniteSet(S)
  BY BoxFacts, FS_Subset
<1>2. /\ n \in Nat
      /\ \A i \in S : rank[i] \in 1 .. n
      /\ \A i, j \in S : key[i] < key[j] => rank[i] < rank[j]
      /\ \A i, j \in S : rank[i] = rank[j] => i = j
  <2>1. \A i \in S : rank[i] = RankOf(S, key, i)
    OBVIOUS
  <2> HIDE DEF rank
  <2> QED BY <1>1, <2>1, RanksInOrder
<1>3. b2 = [b EXCEPT !.seq = @ + n, !.items = items2]
  BY DEF Bumped
<1> HIDE DEF rank, n
<1>4. \A i \in S : [new[i] EXCEPT !.seq = b.seq + rank[i]] \in Items
  <2> TAKE i \in S
  <2>1. b.seq + rank[i] \in Nat
    BY <1>2, BoxFacts
  <2> QED BY <2>1 DEF Items
<1>5. items2 \in Seq(Items)
  <2>1. \A i \in DOMAIN b.items : items2[i] \in Items
    BY <1>4, BoxFacts
  <2>2. items2 \in [1 .. Len(b.items) -> Items]
    <3>1. items2 \in [DOMAIN b.items -> Items]
      <4>1. items2 = [i \in DOMAIN b.items |-> items2[i]]
        OBVIOUS
      <4> HIDE DEF items2
      <4> QED BY <2>1, <4>1
    <3> QED BY <3>1, BoxFacts
  <2> HIDE DEF items2
  <2> QED BY <2>2, BoxFacts, SeqDef
<1>6. DOMAIN items2 = DOMAIN b.items
  OBVIOUS
<1>7. /\ b2.seq = b.seq + n /\ b2.floor = b.floor /\ b2.lock = b.lock /\ b2.viewed = b.viewed
      /\ b2.items = items2
  BY <1>3 DEF Boxes
<1>8. \A i \in S : items2[i] = [new[i] EXCEPT !.seq = b.seq + rank[i]]
  OBVIOUS
<1>9. \A i \in DOMAIN b.items \ S : items2[i] = b.items[i]
  OBVIOUS
<1> HIDE DEF items2
<1>10. b2 \in Boxes
  <2>1. b.seq + n \in Nat
    BY <1>2, BoxFacts
  <2> QED BY <1>3, <1>5, <2>1 DEF Boxes
<1>11. \A i \in S : items2[i].seq = b.seq + rank[i]
  BY <1>8 DEF Items
<1>12. \A i \in S : b2.items[i] = [new[i] EXCEPT !.seq = b2.items[i].seq]
  BY <1>7, <1>8, <1>11
<1>13. InOrder(b2, S, key)
  <2> SUFFICES ASSUME NEW i \in S, NEW j \in S, key[i] < key[j]
               PROVE  b2.items[i].seq < b2.items[j].seq
    BY DEF InOrder
  <2>1. b2.items[i].seq = b.seq + rank[i] /\ b2.items[j].seq = b.seq + rank[j]
    BY <1>7, <1>11
  <2>2. rank[i] \in Nat /\ rank[j] \in Nat /\ rank[i] < rank[j]
    BY <1>2
  <2>3. b.seq \in Nat
    BY BoxFacts
  <2> QED BY <2>1, <2>2, <2>3
<1>14. Renumbered(b, b2, S)
  <2>1. \A i \in S : items2[i].seq \in b.seq + 1 .. b.seq + n
    BY <1>2, <1>11, BoxFacts
  <2>2. \A i, j \in S : items2[i].seq = items2[j].seq => i = j
    BY <1>2, <1>11, BoxFacts
  <2>3. /\ DOMAIN b2.items = DOMAIN b.items
        /\ \A i \in DOMAIN b.items \ S : b2.items[i] = b.items[i]
    BY <1>6, <1>7, <1>9
  <2>4. /\ \A i \in S : b2.items[i].seq \in b.seq + 1 .. b2.seq
        /\ \A i, j \in S : b2.items[i].seq = b2.items[j].seq => i = j
    BY <1>7, <2>1, <2>2
  <2> QED BY <1>7, <2>3, <2>4 DEF Renumbered, n
<1> QED BY <1>7, <1>10, <1>12, <1>13, <1>14 DEF Renewed

(* Changes other than folds: what the changed items may become.                  *)
Rewritten(x, y) ==
  /\ Present(x) /\ ~y.gone /\ y.events = x.events /\ y.count = x.count
  /\ y.version = x.version /\ (y.group = "thread" => x.group = "thread")

LEMMA RenumberedKeeps ==
  ASSUME NEW b \in Boxes, NEW b2 \in Boxes, NEW n \in Nat, BoxOK(b, n),
         NEW S \in SUBSET DOMAIN b.items, Renumbered(b, b2, S),
         \A i \in S : Rewritten(b.items[i], b2.items[i]),
         GroupsDiffer(b2),
         \A i \in DOMAIN b.items : Unseen(b2.items[i]) => b2.items[i].version > b2.viewed
  PROVE  BoxOK(b2, n) /\ BoxMove(b, b2)
<1>1. /\ b.seq \in Nat /\ b2.seq \in Nat /\ b.floor \in Nat /\ b2.floor = b.floor
      /\ DOMAIN b2.items = DOMAIN b.items
      /\ \A i \in DOMAIN b.items : b.items[i] \in Items /\ b2.items[i] \in Items
  BY BoxFacts DEF Renumbered
<1>2. b.seq =< b2.seq
  BY <1>1, BoxFacts, FS_Subset, FS_CardinalityType DEF Renumbered
<1>3. \A i \in DOMAIN b.items : ItemMove(b.items[i], b2.items[i], b)
  BY <1>1, ItemFacts DEF Renumbered, Rewritten, ItemMove, Present
<1>4. \A i \in DOMAIN b.items : ItemOK(b2.items[i], b2, n)
  <2> SUFFICES ASSUME NEW i \in DOMAIN b.items PROVE ItemOK(b2.items[i], b2, n)
    OBVIOUS
  <2>1. ItemOK(b.items[i], b, n) /\ b.items[i] \in Items /\ b2.items[i] \in Items
    BY <1>1 DEF BoxOK
  <2>2. CASE i \in S
    <3>1. Rewritten(b.items[i], b2.items[i]) /\ b2.items[i].seq \in b.seq + 1 .. b2.seq
      BY <2>2 DEF Renumbered
    <3> QED BY <1>1, <2>1, <3>1, ItemFacts DEF ItemOK, Rewritten, Present
  <2>3. CASE i \notin S
    <3>1. b2.items[i] = b.items[i]
      BY <2>3 DEF Renumbered
    <3> QED BY <1>1, <1>2, <2>1, <3>1, ItemFacts DEF ItemOK
  <2> QED BY <2>2, <2>3
<1>5. NumbersDiffer(b2)
  <2> SUFFICES ASSUME NEW i \in DOMAIN b.items, NEW j \in DOMAIN b.items,
                      b2.items[i].seq = b2.items[j].seq
               PROVE  i = j
    BY <1>1 DEF NumbersDiffer
  <2>1. b.items[i].seq \in 1 .. b.seq /\ b.items[j].seq \in 1 .. b.seq
    BY DEF BoxOK, ItemOK
  <2>2. NumbersDiffer(b)
    BY DEF BoxOK
  <2> QED BY <1>1, <2>1, <2>2 DEF Renumbered, NumbersDiffer
<1>6. EventsDiffer(b2)
  <2>1. \A i \in DOMAIN b.items : b2.items[i].events = b.items[i].events
    BY DEF Renumbered, Rewritten
  <2> QED BY <1>1, <2>1 DEF EventsDiffer, BoxOK
<1>7. b2.floor =< b2.seq
  BY <1>1, <1>2 DEF BoxOK
<1> QED BY <1>1, <1>2, <1>3, <1>4, <1>5, <1>6, <1>7 DEF BoxOK, BoxMove

(* A step that writes an inbox.                                                  *)
Wrote(b, b2, n) == b2 \in Boxes /\ BoxOK(b2, n) /\ BoxMove(b, b2)

(* The recipient's own marks, the lock and what is pruned stay; nothing is read  *)
(* in bulk.                                                                      *)
Steady(b, b2) ==
  /\ b2.viewed = b.viewed /\ b2.lock = b.lock /\ DOMAIN b2.items = DOMAIN b.items
  /\ \A i \in DOMAIN b.items : b2.items[i].gone = b.items[i].gone
Quiet(b, b2) ==
  \A i \in DOMAIN b.items : b2.items[i].read = "bulk" => b.items[i].read = "bulk"

(* The changed item may be open only where an open item of its group was, or     *)
(* where there was none.                                                         *)
MayBeOpen(b, S, i, y) ==
  Open(y) => \/ Open(b.items[i]) /\ y.group = b.items[i].group
             \/ S = {i} /\ OpenIn(b, y.group) \subseteq {i}

LEMMA BumpedKeeps ==
  ASSUME NEW b \in Boxes, NEW n \in Nat, BoxOK(b, n), NEW S \in SUBSET DOMAIN b.items,
         NEW key, \A i \in S : key[i] \in Int, \A i, j \in S : key[i] = key[j] => i = j,
         NEW new, \A i \in S : new[i] \in Items,
         \A i \in S : Rewritten(b.items[i], new[i]),
         \A i \in S : MayBeOpen(b, S, i, new[i]),
         \A i \in S : Unseen(new[i]) => Unseen(b.items[i]),
         NEW b2, b2 = Bumped(b, S, key, new)
  PROVE  Wrote(b, b2, n) /\ Renewed(b, b2, S, new) /\ Steady(b, b2)
<1>1. b2 \in Boxes /\ Renewed(b, b2, S, new)
  BY BumpedRenumbers
<1>2. /\ Renumbered(b, b2, S) /\ DOMAIN b2.items = DOMAIN b.items
      /\ \A i \in DOMAIN b.items : b2.items[i] \in Items /\ b.items[i] \in Items
      /\ \A i \in DOMAIN b.items \ S : b2.items[i] = b.items[i]
  BY <1>1, BoxFacts DEF Renewed, Renumbered
<1>3. \A i \in S : /\ Rewritten(b.items[i], b2.items[i])
                   /\ Unseen(b2.items[i]) => Unseen(b.items[i])
                   /\ Open(b2.items[i]) <=> Open(new[i])
                   /\ b2.items[i].group = new[i].group
  <2> SUFFICES ASSUME NEW i \in S
               PROVE  /\ Rewritten(b.items[i], b2.items[i])
                      /\ Unseen(b2.items[i]) => Unseen(b.items[i])
                      /\ Open(b2.items[i]) <=> Open(new[i])
                      /\ b2.items[i].group = new[i].group
    OBVIOUS
  <2>1. b2.items[i] = [new[i] EXCEPT !.seq = b2.items[i].seq] /\ new[i] \in Items
    BY <1>1 DEF Renewed
  <2>2. Rewritten(b.items[i], new[i]) /\ (Unseen(new[i]) => Unseen(b.items[i]))
    OBVIOUS
  <2> QED BY <2>1, <2>2 DEF Items, Rewritten, Unseen, Open, Present
<1>4. GroupsDiffer(b2)
  <2> SUFFICES ASSUME NEW i \in DOMAIN b.items, NEW j \in DOMAIN b.items,
                      Open(b2.items[i]), Open(b2.items[j]),
                      b2.items[i].group = b2.items[j].group
               PROVE  i = j
    BY <1>2 DEF GroupsDiffer
  <2>1. \A k \in DOMAIN b.items : Open(b2.items[k]) =>
          \/ Open(b.items[k]) /\ b2.items[k].group = b.items[k].group
          \/ k \in S /\ S = {k} /\ OpenIn(b, b2.items[k].group) \subseteq {k}
    BY <1>2, <1>3 DEF MayBeOpen
  <2>2. \A k, l \in DOMAIN b.items :
          OpenIn(b, b2.items[k].group) \subseteq {k} /\ Open(b.items[l])
            /\ b.items[l].group = b2.items[k].group => l = k
    <3> SUFFICES ASSUME NEW k \in DOMAIN b.items, NEW l \in DOMAIN b.items,
                        OpenIn(b, b2.items[k].group) \subseteq {k},
                        Open(b.items[l]), b.items[l].group = b2.items[k].group
                 PROVE  l = k
      OBVIOUS
    <3>1. l \in OpenIn(b, b2.items[k].group)
      BY DEF OpenIn
    <3> QED BY <3>1
  <2> QED BY <2>1, <2>2 DEF BoxOK, GroupsDiffer
<1>5. \A i \in DOMAIN b.items : Unseen(b2.items[i]) => b2.items[i].version > b2.viewed
  BY <1>1, <1>2, <1>3 DEF Renewed, BoxOK, ItemOK, Rewritten
<1>6. BoxOK(b2, n) /\ BoxMove(b, b2)
  BY <1>1, <1>2, <1>3, <1>4, <1>5, RenumberedKeeps
<1>7. Steady(b, b2)
  BY <1>1, <1>2, <1>3, ItemFacts DEF Steady, Renewed, Renumbered, Rewritten, Present
<1> QED BY <1>1, <1>6, <1>7 DEF Wrote

LEMMA RenewedIsQuiet ==
  ASSUME NEW b, NEW b2, NEW S, NEW new, Renewed(b, b2, S, new),
         \A i \in S : new[i] \in Items,
         \A i \in S : new[i].read = "bulk" => b.items[i].read = "bulk"
  PROVE  Quiet(b, b2)
<1>1. \A i \in S : b2.items[i].read = new[i].read
  <2> TAKE i \in S
  <2>1. b2.items[i] = [new[i] EXCEPT !.seq = b2.items[i].seq] /\ new[i] \in Items
    BY DEF Renewed
  <2> QED BY <2>1 DEF Items
<1> QED BY <1>1 DEF Quiet, Renewed, Renumbered

LEMMA RemovedIsItem ==
  ASSUME NEW x \in Items
  PROVE  Removed(x) \in Items
BY DEF Removed, Items, Groups

(* Items that are there are removed.                                             *)
LEMMA TombstonedKeeps ==
  ASSUME NEW b \in Boxes, NEW n \in Nat, BoxOK(b, n), NEW S \in SUBSET DOMAIN b.items,
         \A i \in S : Present(b.items[i])
  PROVE  /\ Wrote(b, Tombstoned(b, S), n)
         /\ Steady(b, Tombstoned(b, S)) /\ Quiet(b, Tombstoned(b, S))
<1> DEFINE key == [i \in S |-> i]
           new == [i \in S |-> Removed(b.items[i])]
<1>1. \A i \in S : new[i] = Removed(b.items[i])
  OBVIOUS
<1>2. Tombstoned(b, S) = Bumped(b, S, key, new)
  <2>1. \A i \in S : {y \in S : y =< i} = {y \in S : key[y] =< key[i]}
    OBVIOUS
  <2>2. \A i \in S : RankOf(S, key, i) = Cardinality({y \in S : y =< i})
    BY <2>1 DEF RankOf
  <2> HIDE DEF key, new
  <2> QED BY <1>1, <2>2 DEF Tombstoned, Changed, Rank, Bumped
<1>3. /\ \A i \in S : key[i] \in Int
      /\ \A i, j \in S : key[i] = key[j] => i = j
      /\ \A i \in S : new[i] \in Items
  BY BoxFacts, RemovedIsItem
<1> HIDE DEF key, new
<1>4. \A i \in S : /\ Rewritten(b.items[i], new[i]) /\ ~Present(new[i])
                   /\ new[i].read = b.items[i].read
  <2> SUFFICES ASSUME NEW i \in S
               PROVE  /\ Rewritten(b.items[i], Removed(b.items[i]))
                      /\ ~Present(Removed(b.items[i]))
                      /\ Removed(b.items[i]).read = b.items[i].read
    BY <1>1
  <2>1. b.items[i] \in Items /\ Present(b.items[i])
    BY BoxFacts
  <2> QED BY <2>1 DEF Removed, Items, Rewritten, Present
<1>5. \A i \in S : MayBeOpen(b, S, i, new[i]) /\ ~Unseen(new[i])
  BY <1>4 DEF MayBeOpen, Unseen, Open
<1>6. /\ Wrote(b, Tombstoned(b, S), n) /\ Renewed(b, Tombstoned(b, S), S, new)
      /\ Steady(b, Tombstoned(b, S))
  BY <1>2, <1>3, <1>4, <1>5, BumpedKeeps
<1>7. Quiet(b, Tombstoned(b, S))
  BY <1>3, <1>4, <1>6, RenewedIsQuiet
<1> QED BY <1>6, <1>7

LEMMA NothingChanges ==
  ASSUME NEW b \in Boxes, NEW n \in Nat, BoxOK(b, n)
  PROVE  Wrote(b, b, n) /\ Steady(b, b) /\ Quiet(b, b)
BY BoxFacts DEF Wrote, Steady, Quiet, BoxMove, ItemMove

LEMMA AnsweredKeeps ==
  ASSUME NEW b \in Boxes, NEW n \in Nat, BoxOK(b, n), NEW row
  PROVE  /\ Wrote(b, Answered(b, row), n)
         /\ Steady(b, Answered(b, row)) /\ Quiet(b, Answered(b, row))
<1> DEFINE S == {i \in DOMAIN b.items : Concerned(b.items[i], row)}
           key == [i \in S |-> i]
           new == [i \in S |-> Resolved(b.items[i])]
           b2 == Answered(b, row)
<1>1. CASE row.op = "resolve"
  <2>1. \A i \in S : new[i] = Resolved(b.items[i])
    OBVIOUS
  <2>2. b2 = Bumped(b, S, key, new)
    <3>1. \A i \in S : {y \in S : y =< i} = {y \in S : key[y] =< key[i]}
      OBVIOUS
    <3>2. \A i \in S : RankOf(S, key, i) = Cardinality({y \in S : y =< i})
      BY <3>1 DEF RankOf
    <3> HIDE DEF key, new
    <3> QED BY <1>1, <2>1, <3>2 DEF Answered, Changed, Rank, Bumped
  <2>3. \A i \in S : i \in DOMAIN b.items /\ Present(b.items[i])
    BY DEF Concerned
  <2>4. /\ \A i \in S : key[i] \in Int
        /\ \A i, j \in S : key[i] = key[j] => i = j
        /\ S \in SUBSET DOMAIN b.items
    BY BoxFacts
  <2> HIDE DEF S, key, new, b2
  <2>5. \A i \in S : /\ new[i] \in Items /\ Rewritten(b.items[i], new[i])
                     /\ new[i].read # "no"
                     /\ new[i].read = "bulk" => b.items[i].read = "bulk"
    <3> SUFFICES ASSUME NEW i \in S, NEW x, x = b.items[i]
                 PROVE  /\ Resolved(x) \in Items /\ Rewritten(x, Resolved(x))
                        /\ Resolved(x).read # "no" /\ (Resolved(x).read = "bulk" => x.read = "bulk")
      BY <2>1
    <3>1. x \in Items /\ Present(x)
      BY <2>3, BoxFacts
    <3> QED BY <3>1 DEF Resolved, Items, Reads, ItemStatuses, Rewritten, Present
  <2>6. \A i \in S : MayBeOpen(b, S, i, new[i]) /\ ~Unseen(new[i])
    BY <2>5 DEF MayBeOpen, Unseen, Open
  <2>7. Wrote(b, b2, n) /\ Renewed(b, b2, S, new) /\ Steady(b, b2)
    BY <2>2, <2>4, <2>5, <2>6, BumpedKeeps
  <2>8. Quiet(b, b2)
    BY <2>5, <2>7, RenewedIsQuiet
  <2> QED BY <2>7, <2>8 DEF b2
<1>2. CASE row.op = "withdraw"
  <2>1. b2 = Tombstoned(b, S)
    BY <1>2 DEF Answered
  <2>2. S \in SUBSET DOMAIN b.items /\ \A i \in S : Present(b.items[i])
    BY DEF Concerned
  <2> HIDE DEF S
  <2> QED BY <2>1, <2>2, TombstonedKeeps
<1>3. CASE row.op \notin {"resolve", "withdraw"}
  <2>1. b2 = b
    BY <1>3 DEF Answered
  <2> QED BY <2>1, NothingChanges
<1> QED BY <1>1, <1>2, <1>3

(* The recipient views the thread.                                               *)
SeenBy(b, v) ==
  {i \in DOMAIN b.items : /\ Present(b.items[i]) /\ b.items[i].status = "active"
                          /\ b.items[i].read = "no" /\ b.items[i].version \in 1 .. v}
ViewedItem(x) == [x EXCEPT !.read = "viewed"]
AfterView(b, v) ==
  [Bumped(b, SeenBy(b, v), [i \in SeenBy(b, v) |-> i],
          [i \in SeenBy(b, v) |-> ViewedItem(b.items[i])]) EXCEPT !.viewed = v]

LEMMA ViewKeeps ==
  ASSUME NEW b \in Boxes, NEW n \in Nat, BoxOK(b, n), NEW v \in Nat, b.viewed < v
  PROVE  /\ Wrote(b, AfterView(b, v), n) /\ Quiet(b, AfterView(b, v))
         /\ AfterView(b, v).lock = b.lock /\ AfterView(b, v).viewed = v
         /\ DOMAIN AfterView(b, v).items = DOMAIN b.items
         /\ \A i \in DOMAIN b.items : AfterView(b, v).items[i].gone = b.items[i].gone
<1> DEFINE S == SeenBy(b, v)
           key == [i \in S |-> i]
           new == [i \in S |-> ViewedItem(b.items[i])]
           b1 == Bumped(b, S, key, new)
           b2 == AfterView(b, v)
<1>1. /\ \A i \in S : new[i] = ViewedItem(b.items[i])
      /\ b2 = [b1 EXCEPT !.viewed = v]
  BY DEF AfterView
<1>2. /\ \A i \in S : key[i] \in Int
      /\ \A i, j \in S : key[i] = key[j] => i = j
      /\ S \in SUBSET DOMAIN b.items
      /\ \A i \in S : Present(b.items[i])
      /\ \A i \in DOMAIN b.items \ S : Unseen(b.items[i]) => b.items[i].version \notin 1 .. v
  BY BoxFacts DEF SeenBy, Unseen
<1> HIDE DEF S, key, new
<1>3. \A i \in S : /\ new[i] \in Items /\ Rewritten(b.items[i], new[i])
                   /\ new[i].read = "viewed"
  <2> SUFFICES ASSUME NEW i \in S, NEW x, x = b.items[i]
               PROVE  /\ ViewedItem(x) \in Items /\ Rewritten(x, ViewedItem(x))
                      /\ ViewedItem(x).read = "viewed"
    BY <1>1
  <2>1. x \in Items /\ Present(x)
    BY <1>2, BoxFacts
  <2> QED BY <2>1 DEF ViewedItem, Items, Reads, Rewritten, Present
<1>4. \A i \in S : MayBeOpen(b, S, i, new[i]) /\ ~Unseen(new[i])
  BY <1>3 DEF MayBeOpen, Unseen, Open
<1>5. b1 \in Boxes /\ Wrote(b, b1, n) /\ Renewed(b, b1, S, new) /\ Steady(b, b1)
  BY <1>2, <1>3, <1>4, BumpedKeeps DEF Wrote
<1>6. Quiet(b, b1)
  BY <1>3, <1>5, RenewedIsQuiet
<1> HIDE DEF b1, b2
<1>7. /\ b2 \in Boxes /\ b2.viewed = v /\ b2.seq = b1.seq /\ b2.floor = b1.floor
      /\ b2.lock = b1.lock /\ b2.items = b1.items
  BY <1>1, <1>5 DEF Boxes
<1>8. \A i \in DOMAIN b1.items : ItemOK(b1.items[i], b2, n)
  <2> SUFFICES ASSUME NEW i \in DOMAIN b1.items PROVE ItemOK(b1.items[i], b2, n)
    OBVIOUS
  <2>1. ItemOK(b1.items[i], b1, n) /\ i \in DOMAIN b.items /\ b1.items[i] \in Items
    BY <1>5, BoxFacts DEF Wrote, BoxOK, Steady
  <2>2. Unseen(b1.items[i]) => b1.items[i].version > v
    <3>1. i \notin S => b1.items[i] = b.items[i]
      BY <1>5, <2>1 DEF Renewed, Renumbered
    <3>2. i \in S => ~Unseen(b1.items[i])
      <4>1. i \in S => b1.items[i] = [new[i] EXCEPT !.seq = b1.items[i].seq]
        BY <1>5 DEF Renewed
      <4> QED BY <1>3, <4>1 DEF Unseen, Items
    <3>3. b1.items[i].version \in Nat /\ (Unseen(b1.items[i]) => b1.items[i].version # 0)
      BY <2>1, ItemFacts DEF Unseen
    <3> QED BY <1>2, <2>1, <3>1, <3>2, <3>3
  <2> QED BY <1>7, <2>1, <2>2 DEF ItemOK
<1>9. BoxOK(b2, n)
  BY <1>5, <1>7, <1>8 DEF Wrote, BoxOK, NumbersDiffer, EventsDiffer, GroupsDiffer
<1>10. BoxMove(b, b2) /\ Quiet(b, b2)
  BY <1>5, <1>6, <1>7 DEF Wrote, BoxMove, Quiet
<1> QED BY <1>5, <1>7, <1>9, <1>10 DEF Wrote, Steady, b2

(* The recipient changes one item.                                               *)
AfterPatch(b, i, p) ==
  Bumped(b, {i}, [j \in {i} |-> j], [j \in {i} |-> Patched(b.items[i], p)])

LEMMA PatchKeeps ==
  ASSUME NEW b \in Boxes, NEW n \in Nat, BoxOK(b, n), NEW p \in Patches,
         NEW i \in DOMAIN b.items, Present(b.items[i]),
         Open(Patched(b.items[i], p)) => OpenIn(b, b.items[i].group) \subseteq {i}
  PROVE  /\ Wrote(b, AfterPatch(b, i, p), n)
         /\ Steady(b, AfterPatch(b, i, p)) /\ Quiet(b, AfterPatch(b, i, p))
<1> DEFINE S == {i}
           key == [j \in S |-> j]
           new == [j \in S |-> Patched(b.items[i], p)]
           b2 == AfterPatch(b, i, p)
           x == b.items[i]
<1>1. /\ new[i] = Patched(x, p) /\ b2 = Bumped(b, S, key, new)
      /\ S \in SUBSET DOMAIN b.items
      /\ \A j \in S : key[j] \in Int
      /\ \A j, k \in S : key[j] = key[k] => j = k
      /\ \A j \in S : j = i
  BY BoxFacts DEF AfterPatch
<1>2. x \in Items /\ Present(x) /\ (Open(Patched(x, p)) => OpenIn(b, x.group) \subseteq {i})
  BY BoxFacts
<1> HIDE DEF key, new, x, b2
<1>3. /\ Patched(x, p) \in Items /\ Patched(x, p).group = x.group
      /\ Rewritten(x, Patched(x, p))
      /\ Patched(x, p).read = "bulk" => x.read = "bulk"
  BY <1>2 DEF Patched, Patches, Items, Reads, Rewritten, Present
<1>4. Unseen(Patched(x, p)) => Unseen(x)
  <2>1. /\ Patched(x, p).version = x.version /\ Patched(x, p).status = x.status
        /\ Patched(x, p).marked = ((p = "unread") \/ (x.marked /\ p = "restore"))
        /\ Patched(x, p).read = IF p = "unread" THEN "no"
                                ELSE IF p \in {"read", "close"} /\ x.read = "no" THEN "user"
                                ELSE x.read
    BY <1>2 DEF Patched, Items
  <2> QED BY <1>2, <2>1 DEF Unseen, Patches
<1>5. Wrote(b, b2, n) /\ Renewed(b, b2, S, new) /\ Steady(b, b2)
  <2>1. /\ \A j \in S : new[j] \in Items
        /\ \A j \in S : Rewritten(b.items[j], new[j])
        /\ \A j \in S : MayBeOpen(b, S, j, new[j])
        /\ \A j \in S : Unseen(new[j]) => Unseen(b.items[j])
    BY <1>1, <1>2, <1>3, <1>4 DEF MayBeOpen, x
  <2> QED BY <1>1, <2>1, BumpedKeeps
<1>6. Quiet(b, b2)
  <2>1. \A j \in S : new[j] \in Items /\ (new[j].read = "bulk" => b.items[j].read = "bulk")
    BY <1>1, <1>3 DEF x
  <2> QED BY <1>5, <2>1, RenewedIsQuiet
<1> QED BY <1>5, <1>6 DEF b2

(* The recipient marks what was seen as read.                                    *)
BulkRead(x) == [x EXCEPT !.read = "bulk", !.marked = FALSE]
AfterBulk(b, S) ==
  Bumped(b, S, [i \in S |-> b.items[i].seq], [i \in S |-> BulkRead(b.items[i])])

LEMMA BulkKeeps ==
  ASSUME NEW b \in Boxes, NEW n \in Nat, BoxOK(b, n),
         NEW S \in SUBSET DOMAIN b.items, \A i \in S : Present(b.items[i])
  PROVE  /\ Wrote(b, AfterBulk(b, S), n) /\ Steady(b, AfterBulk(b, S))
         /\ \A i \in DOMAIN b.items \ S : AfterBulk(b, S).items[i] = b.items[i]
<1> DEFINE key == [i \in S |-> b.items[i].seq]
           new == [i \in S |-> BulkRead(b.items[i])]
           b2 == AfterBulk(b, S)
<1>1. /\ \A i \in S : new[i] = BulkRead(b.items[i])
      /\ \A i \in S : key[i] = b.items[i].seq
      /\ b2 = Bumped(b, S, key, new)
  BY DEF AfterBulk
<1> HIDE DEF key, new, b2
<1>2. /\ \A i \in S : key[i] \in Int
      /\ \A i, j \in S : key[i] = key[j] => i = j
  BY <1>1, BoxFacts, ItemFacts DEF BoxOK, NumbersDiffer
<1>3. \A i \in S : /\ new[i] \in Items /\ Rewritten(b.items[i], new[i])
                   /\ new[i].read = "bulk"
  <2> SUFFICES ASSUME NEW i \in S, NEW x, x = b.items[i]
               PROVE  /\ BulkRead(x) \in Items /\ Rewritten(x, BulkRead(x))
                      /\ BulkRead(x).read = "bulk"
    BY <1>1
  <2>1. x \in Items /\ Present(x)
    BY BoxFacts
  <2> QED BY <2>1 DEF BulkRead, Items, Reads, Rewritten, Present
<1>4. \A i \in S : MayBeOpen(b, S, i, new[i]) /\ ~Unseen(new[i])
  BY <1>3 DEF MayBeOpen, Unseen, Open
<1>5. Wrote(b, b2, n) /\ Renewed(b, b2, S, new) /\ Steady(b, b2)
  BY <1>1, <1>2, <1>3, <1>4, BumpedKeeps
<1> QED BY <1>5 DEF b2, Renewed, Renumbered

(* A projection writes an event.                                                 *)
FoldedItem(x, e) ==
  [x EXCEPT !.count = @ + 1, !.events = @ \cup {e},
            !.version = IF queue[e].version > @ THEN queue[e].version ELSE @]
AfterFold(b, m, e) ==
  Bumped(b, {m}, [j \in {m} |-> j], [j \in {m} |-> FoldedItem(b.items[m], e)])

LEMMA QueueFacts ==
  ASSUME QueueTypes
  PROVE  /\ Len(queue) \in Nat /\ DOMAIN queue = 1 .. Len(queue)
         /\ \A e \in DOMAIN queue :
              /\ queue[e] \in Rows /\ e \in Nat /\ e # 0
              /\ queue[e].version \in Nat /\ queue[e].resume \in Recipients \cup {0}
              /\ queue[e].op \in {"rule", "publish", "resolve", "withdraw"}
              /\ queue[e].attempts \in 0 .. MaxAttempts
<1>1. queue \in Seq(Rows)
  BY DEF QueueTypes
<1>2. Len(queue) \in Nat /\ DOMAIN queue = 1 .. Len(queue)
  BY <1>1, LenProperties
<1>3. \A e \in DOMAIN queue : queue[e] \in Rows
  BY <1>1, <1>2, ElementOfSeq
<1>4. \A q \in Rows : /\ q.version \in Nat /\ q.resume \in Recipients \cup {0}
                      /\ q.op \in Ops /\ q.attempts \in 0 .. MaxAttempts
  BY DEF Rows
<1>5. Ops \subseteq {"rule", "publish", "resolve", "withdraw"}
  BY InboxAssumption
<1>6. \A e \in DOMAIN queue : e \in Nat /\ e # 0
  BY <1>2
<1> QED BY <1>2, <1>3, <1>4, <1>5, <1>6

LEMMA FoldKeeps ==
  ASSUME QueueTypes, NEW b \in Boxes, BoxOK(b, Len(queue)), NEW e \in DOMAIN queue,
         ~Received(b, e), NEW m \in OpenIn(b, Thread(queue[e].op))
  PROVE  /\ Wrote(b, AfterFold(b, m, e), Len(queue))
         /\ Steady(b, AfterFold(b, m, e)) /\ Quiet(b, AfterFold(b, m, e))
         /\ Received(AfterFold(b, m, e), e)
<1> DEFINE n == Len(queue)
           S == {m}
           key == [j \in S |-> j]
           new == [j \in S |-> FoldedItem(b.items[m], e)]
           b2 == AfterFold(b, m, e)
           x == b.items[m]
           y == b2.items[m]
<1>1. /\ m \in DOMAIN b.items /\ x \in Items /\ Open(x)
      /\ x.group = Thread(queue[e].op) /\ ItemOK(x, b, n)
  BY BoxFacts DEF OpenIn, BoxOK
<1>2. n \in Nat /\ e \in 1 .. n /\ queue[e].version \in Nat
      /\ (queue[e].version # 0 <=> queue[e].op = "rule")
  BY QueueFacts DEF QueueTypes
<1>3. /\ new[m] = FoldedItem(x, e) /\ b2 = Bumped(b, S, key, new)
      /\ S \in SUBSET DOMAIN b.items
      /\ \A j \in S : key[j] \in Int
      /\ \A j, k \in S : key[j] = key[k] => j = k
      /\ \A j \in S : j = m
  BY <1>1, BoxFacts DEF AfterFold
<1>4. e \notin x.events /\ \A i \in DOMAIN b.items : e \notin b.items[i].events
  BY <1>1 DEF Received
<1> HIDE DEF n, key, new, x, b2
<1>5. /\ FoldedItem(x, e) \in Items /\ FoldedItem(x, e).read = x.read
  <2>1. x.count + 1 \in Nat /\ x.events \cup {e} \in SUBSET Nat
        /\ (IF queue[e].version > x.version THEN queue[e].version ELSE x.version) \in Nat
    BY <1>1, <1>2, ItemFacts
  <2> QED BY <1>1, <2>1 DEF FoldedItem, Items
<1>6. b2 \in Boxes /\ Renewed(b, b2, S, new)
  <2>1. \A j \in S : new[j] \in Items
    BY <1>3, <1>5
  <2> QED BY <1>3, <2>1, BumpedRenumbers
<1>7. /\ Renumbered(b, b2, S) /\ b2.viewed = b.viewed /\ DOMAIN b2.items = DOMAIN b.items
      /\ b2.floor = b.floor /\ b2.lock = b.lock
      /\ \A i \in DOMAIN b.items : i # m => b2.items[i] = b.items[i]
      /\ y = [FoldedItem(x, e) EXCEPT !.seq = y.seq] /\ y.seq \in b.seq + 1 .. b2.seq
  BY <1>3, <1>6 DEF Renewed, Renumbered
<1> HIDE DEF y
<1>8. /\ y.events = x.events \cup {e} /\ y.count = x.count + 1 /\ y.group = x.group
      /\ y.version = (IF queue[e].version > x.version THEN queue[e].version ELSE x.version)
      /\ y.read = x.read /\ y.marked = x.marked /\ y.closed = x.closed
      /\ y.status = x.status /\ y.removed = x.removed /\ y.gone = x.gone
  BY <1>1, <1>5, <1>7 DEF FoldedItem, Items
<1>9. /\ b.seq \in Nat /\ b2.seq \in Nat /\ b.seq < b2.seq /\ b.floor \in Nat
      /\ b.viewed \in Nat
  BY <1>6, <1>7, BoxFacts
<1>10. ItemOK(y, b2, n)
  <2>1. /\ y.count = Cardinality(y.events) /\ y.events \subseteq 1 .. n /\ y.events # {}
    <3>1. x.events \subseteq 1 .. n /\ x.count = Cardinality(x.events)
      BY <1>1 DEF ItemOK
    <3>2. IsFiniteSet(1 .. n)
      BY <1>2, FS_Interval
    <3>3. IsFiniteSet(x.events)
      BY <3>1, <3>2, FS_Subset
    <3>4. Cardinality(x.events \cup {e}) = Cardinality(x.events) + 1
      BY <1>4, <3>3, FS_AddElement
    <3> QED BY <1>2, <1>8, <3>1, <3>4
  <2>2. ~y.gone
    BY <1>1, <1>8 DEF Open, Present
  <2>3. x.version \in Nat /\ y.version \in Nat /\ y.version >= x.version
    BY <1>1, <1>2, <1>8, ItemFacts
  <2>4. y.group = "thread" => y.version # 0
    BY <1>1, <1>8, <2>3 DEF ItemOK
  <2>5. Unseen(y) => y.version > b2.viewed
    <3>1. Unseen(y) => Unseen(x)
      <4>1. x.version = 0 => queue[e].version = 0
        BY <1>1, <1>2 DEF ItemOK, Thread
      <4> QED BY <1>8, <2>3, <4>1 DEF Unseen, Present
    <3> QED BY <1>1, <1>7, <1>9, <2>3, <3>1 DEF ItemOK
  <2>6. y.seq \in 1 .. b2.seq
    BY <1>7, <1>9
  <2> QED BY <2>1, <2>2, <2>4, <2>5, <2>6 DEF ItemOK
<1>11. \A i \in DOMAIN b.items : i # m => ItemOK(b.items[i], b2, n)
  <2> SUFFICES ASSUME NEW i \in DOMAIN b.items PROVE ItemOK(b.items[i], b2, n)
    OBVIOUS
  <2>1. ItemOK(b.items[i], b, n)
    BY DEF BoxOK, n
  <2> QED BY <1>7, <1>9, <2>1 DEF ItemOK
<1>12. \A i \in DOMAIN b.items : ItemOK(b2.items[i], b2, n)
  BY <1>7, <1>10, <1>11 DEF y
<1>13. NumbersDiffer(b2)
  <2>1. \A i \in DOMAIN b.items : b.items[i].seq \in 1 .. b.seq
    BY DEF BoxOK, ItemOK
  <2>2. \A i \in DOMAIN b.items : i # m => b2.items[i].seq # y.seq
    BY <1>7, <1>9, <2>1
  <2> QED BY <1>7, <2>2 DEF BoxOK, NumbersDiffer, y
<1>14. EventsDiffer(b2)
  <2>1. \A i \in DOMAIN b.items : i # m => b2.items[i].events \cap y.events = {}
    BY <1>1, <1>4, <1>7, <1>8 DEF BoxOK, EventsDiffer, x
  <2> QED BY <1>7, <2>1 DEF BoxOK, EventsDiffer, y
<1>15. GroupsDiffer(b2)
  <2>1. (Open(y) <=> Open(x)) /\ y.group = x.group
    BY <1>8 DEF Open, Present
  <2>2. \A i \in DOMAIN b.items :
          (Open(b2.items[i]) <=> Open(b.items[i])) /\ b2.items[i].group = b.items[i].group
    BY <1>7, <2>1 DEF x, y
  <2> QED BY <1>7, <2>2 DEF BoxOK, GroupsDiffer
<1>16. BoxOK(b2, n)
  BY <1>7, <1>9, <1>12, <1>13, <1>14, <1>15 DEF BoxOK
<1>17. BoxMove(b, b2)
  <2>1. ItemMove(x, y, b)
    BY <1>1, <1>7, <1>8, <1>9 DEF ItemMove, Open, Present
  <2>2. \A i \in DOMAIN b.items : ItemMove(b.items[i], b2.items[i], b)
    BY <1>7, <2>1 DEF ItemMove, x, y
  <2> QED BY <1>7, <1>9, <2>2 DEF BoxMove
<1>18. Received(b2, e)
  BY <1>1, <1>7, <1>8 DEF Received, y
<1>19. Steady(b, b2) /\ Quiet(b, b2)
  BY <1>7, <1>8 DEF Steady, Quiet, x, y
<1> QED BY <1>6, <1>16, <1>17, <1>18, <1>19 DEF Wrote, b2, n

NewItem(b, e) ==
  [group |-> Thread(queue[e].op), events |-> {e}, count |-> 1,
   version |-> queue[e].version, seq |-> b.seq + 1,
   read |-> IF queue[e].version # 0 /\ queue[e].version =< b.viewed THEN "viewed" ELSE "no",
   marked |-> FALSE, closed |-> FALSE, status |-> "active", removed |-> FALSE, gone |-> FALSE]
AfterNew(b, e) == [b EXCEPT !.seq = @ + 1, !.items = Append(@, NewItem(b, e))]

(* One more item, which holds the event.                                         *)
Grown(b, b2, e) ==
  /\ Len(b2.items) = Len(b.items) + 1
  /\ \A i \in DOMAIN b.items : b2.items[i] = b.items[i]
  /\ b2.items[Len(b2.items)].events = {e} /\ ~b2.items[Len(b2.items)].gone

LEMMA NewKeeps ==
  ASSUME QueueTypes, NEW b \in Boxes, BoxOK(b, Len(queue)), NEW e \in DOMAIN queue,
         ~Received(b, e), OpenIn(b, Thread(queue[e].op)) = {}
  PROVE  /\ Wrote(b, AfterNew(b, e), Len(queue))
         /\ Grown(b, AfterNew(b, e), e) /\ Received(AfterNew(b, e), e)
         /\ AfterNew(b, e).viewed = b.viewed /\ AfterNew(b, e).lock = b.lock
<1> DEFINE n == Len(queue)
           k == Len(b.items) + 1
           y == NewItem(b, e)
           b2 == AfterNew(b, e)
<1>1. /\ b.seq \in Nat /\ b.floor \in Nat /\ b.viewed \in Nat
      /\ b.items \in Seq(Items) /\ Len(b.items) \in Nat /\ DOMAIN b.items = 1 .. Len(b.items)
      /\ \A i \in DOMAIN b.items : b.items[i] \in Items
  BY BoxFacts
<1>2. n \in Nat /\ e \in 1 .. n /\ queue[e].version \in Nat
      /\ (queue[e].version # 0 <=> queue[e].op = "rule")
  BY QueueFacts DEF QueueTypes
<1>3. /\ y \in Items /\ y.events = {e} /\ y.count = 1 /\ y.seq = b.seq + 1
      /\ ~y.gone /\ ~y.removed /\ y.version = queue[e].version
      /\ y.group = Thread(queue[e].op)
      /\ (y.read = "no" /\ y.version # 0 => y.version > b.viewed)
  <2>1. b.seq + 1 \in Nat /\ {e} \in SUBSET Nat /\ Thread(queue[e].op) \in Groups
    BY <1>1, <1>2 DEF Thread, Groups
  <2>2. y \in Items
    BY <1>2, <2>1 DEF NewItem, Items, Reads, ItemStatuses
  <2> QED BY <1>1, <1>2, <2>2 DEF NewItem
<1> HIDE DEF y
<1>4. /\ Append(b.items, y) \in Seq(Items) /\ Len(Append(b.items, y)) = k
      /\ Append(b.items, y)[k] = y
      /\ \A i \in DOMAIN b.items : Append(b.items, y)[i] = b.items[i]
      /\ DOMAIN Append(b.items, y) = 1 .. k
  BY <1>1, <1>3, AppendProperties, LenProperties
<1>5. b2 \in Boxes /\ b2.seq = b.seq + 1 /\ b2.items = Append(b.items, y)
      /\ b2.floor = b.floor /\ b2.viewed = b.viewed /\ b2.lock = b.lock
  <2>1. b2 = [b EXCEPT !.seq = b.seq + 1, !.items = Append(b.items, y)]
    BY DEF AfterNew, y, Boxes
  <2> DEFINE items2 == Append(b.items, y)
  <2>2. b.seq + 1 \in Nat /\ items2 \in Seq(Items)
    BY <1>1, <1>4
  <2>3. b2 = [b EXCEPT !.seq = b.seq + 1, !.items = items2]
    BY <2>1
  <2> HIDE DEF b2, items2
  <2>4. /\ b2 \in Boxes /\ b2.seq = b.seq + 1 /\ b2.items = items2
        /\ b2.floor = b.floor /\ b2.viewed = b.viewed /\ b2.lock = b.lock
    BY <2>2, <2>3 DEF Boxes
  <2> QED BY <2>4 DEF items2
<1> HIDE DEF b2, n
<1>6. /\ DOMAIN b2.items = 1 .. k /\ b2.items[k] = y /\ k \notin DOMAIN b.items
      /\ \A i \in DOMAIN b.items : i \in DOMAIN b2.items /\ b2.items[i] = b.items[i]
      /\ \A i \in DOMAIN b2.items : i = k \/ i \in DOMAIN b.items
      /\ k \in DOMAIN b2.items /\ Len(b2.items) = k
  BY <1>1, <1>4, <1>5
<1>7. \A i \in DOMAIN b.items : ItemOK(b.items[i], b, n)
  BY DEF BoxOK, n
<1>8. ItemOK(y, b2, n)
  <2>1. Cardinality({e}) = 1
    BY FS_Singleton
  <2>2. y.group = "thread" => y.version # 0
    BY <1>2, <1>3 DEF Thread
  <2> QED BY <1>1, <1>2, <1>3, <1>5, <2>1, <2>2 DEF ItemOK, Unseen
<1>9. \A i \in DOMAIN b.items : ItemOK(b.items[i], b2, n)
  <2> SUFFICES ASSUME NEW i \in DOMAIN b.items PROVE ItemOK(b.items[i], b2, n)
    OBVIOUS
  <2>1. ItemOK(b.items[i], b, n)
    BY <1>7
  <2>2. b.items[i].seq \in 1 .. b2.seq
    BY <1>1, <1>5, <2>1 DEF ItemOK
  <2> QED BY <1>5, <2>1, <2>2 DEF ItemOK
<1>10. \A i \in DOMAIN b2.items : ItemOK(b2.items[i], b2, n)
  BY <1>6, <1>8, <1>9
<1>11. NumbersDiffer(b2)
  <2>1. \A i \in DOMAIN b.items : b.items[i].seq # y.seq
    BY <1>1, <1>3, <1>7 DEF ItemOK
  <2> QED BY <1>6, <2>1 DEF BoxOK, NumbersDiffer
<1>12. EventsDiffer(b2)
  <2>1. \A i \in DOMAIN b.items : b.items[i].events \cap y.events = {}
    BY <1>3 DEF Received
  <2> QED BY <1>6, <2>1 DEF BoxOK, EventsDiffer
<1>13. GroupsDiffer(b2)
  <2>1. \A i \in DOMAIN b.items : Open(b.items[i]) => b.items[i].group # y.group
    BY <1>3 DEF OpenIn
  <2>2. GroupsDiffer(b)
    BY DEF BoxOK
  <2> SUFFICES ASSUME NEW i \in DOMAIN b2.items, NEW j \in DOMAIN b2.items,
                      Open(b2.items[i]), Open(b2.items[j]),
                      b2.items[i].group = b2.items[j].group
               PROVE  i = j
    BY DEF GroupsDiffer
  <2>3. (i = k /\ j = k) \/ (i \in DOMAIN b.items /\ j \in DOMAIN b.items)
    BY <1>6, <2>1
  <2> QED BY <1>6, <2>2, <2>3 DEF GroupsDiffer
<1>14. b2.floor =< b2.seq
  BY <1>1, <1>5 DEF BoxOK
<1>15. BoxMove(b, b2)
  BY <1>1, <1>3, <1>5, <1>6 DEF BoxMove, ItemMove
<1>16. Received(b2, e) /\ Grown(b, b2, e)
  BY <1>3, <1>6 DEF Received, Grown
<1> QED BY <1>5, <1>10, <1>11, <1>12, <1>13, <1>14, <1>15, <1>16 DEF Wrote, BoxOK, b2, n

(* What a projection does to the inbox of a recipient of its page.               *)
LEMMA WrittenKeeps ==
  ASSUME QueueTypes, NEW b \in Boxes, BoxOK(b, Len(queue)), NEW e \in DOMAIN queue
  PROVE  /\ Wrote(b, Written(b, e, b.viewed), Len(queue))
         /\ Written(b, e, b.viewed).viewed = b.viewed
         /\ Written(b, e, b.viewed).lock = b.lock
         /\ Received(Written(b, e, b.viewed), e)
         /\ \/ Steady(b, Written(b, e, b.viewed)) /\ Quiet(b, Written(b, e, b.viewed))
            \/ ~Received(b, e) /\ Grown(b, Written(b, e, b.viewed), e)
<1> DEFINE fold == OpenIn(b, Thread(queue[e].op))
           b2 == Written(b, e, b.viewed)
<1>1. CASE Received(b, e)
  <2>1. b2 = b
    BY <1>1 DEF Written
  <2> QED BY <1>1, <2>1, NothingChanges, QueueFacts DEF Steady
<1>2. CASE ~Received(b, e) /\ fold # {}
  <2>1. Max(fold) \in fold
    <3>1. fold \subseteq DOMAIN b.items /\ DOMAIN b.items \subseteq Int
      BY BoxFacts DEF OpenIn
    <3>2. IsFiniteSet(fold)
      BY <3>1, BoxFacts, FS_Subset
    <3> HIDE DEF fold
    <3> QED BY <1>2, <3>1, <3>2, LargestOfSome
  <2>2. b2 = AfterFold(b, Max(fold), e)
    <3> DEFINE m == Max(fold)
               S == {m}
               key == [j \in {m} |-> j]
               new == [j \in {m} |-> FoldedItem(b.items[m], e)]
    <3>1. b2 = FoldedOrNew(b, e, b.viewed)
      BY <1>2 DEF Written
    <3>2. \A i \in S : new[i] = FoldedItem(b.items[i], e)
      OBVIOUS
    <3>3. \A i \in S : RankOf(S, key, i) = Cardinality({y \in S : y =< i})
      <4>1. \A i \in S : {y \in S : y =< i} = {y \in S : key[y] =< key[i]}
        OBVIOUS
      <4> QED BY <4>1 DEF RankOf
    <3> HIDE DEF key, new, m
    <3>4. FoldedOrNew(b, e, b.viewed) = Bumped(b, S, key, new)
      BY <1>2, <3>2, <3>3, ZenonT(60) DEF FoldedOrNew, FoldedItem, Changed, Rank, Bumped, m
    <3> QED BY <3>1, <3>4 DEF AfterFold, key, new, m
  <2> HIDE DEF fold, b2
  <2>3. Max(fold) \in OpenIn(b, Thread(queue[e].op))
    BY <2>1 DEF fold
  <2>4. /\ Wrote(b, AfterFold(b, Max(fold), e), Len(queue))
        /\ Steady(b, AfterFold(b, Max(fold), e)) /\ Quiet(b, AfterFold(b, Max(fold), e))
        /\ Received(AfterFold(b, Max(fold), e), e)
    BY <1>2, <2>3, FoldKeeps
  <2> QED BY <2>2, <2>4 DEF Steady, b2
<1>3. CASE ~Received(b, e) /\ fold = {}
  <2>1. b2 = AfterNew(b, e)
    BY <1>3 DEF Written, FoldedOrNew, AfterNew, NewItem
  <2> QED BY <1>3, <2>1, NewKeeps
<1> QED BY <1>1, <1>2, <1>3

(* Old tombstones are deleted and the floor passes them.                         *)
AfterPrune(b, S, floor) ==
  [b EXCEPT !.items = [i \in DOMAIN b.items |->
                         IF i \in S THEN Pruned(b.items[i]) ELSE b.items[i]],
            !.floor = floor]
FloorPast(b, S) == Max({b.floor} \cup {b.items[i].seq : i \in S})

LEMMA PruneKeeps ==
  ASSUME NEW b \in Boxes, NEW n \in Nat, BoxOK(b, n),
         NEW S \in SUBSET DOMAIN b.items, \A i \in S : b.items[i].removed,
         NEW b2, b2 = AfterPrune(b, S, FloorPast(b, S))
  PROVE  /\ Wrote(b, b2, n) /\ Quiet(b, b2)
         /\ b2.viewed = b.viewed /\ b2.lock = b.lock /\ DOMAIN b2.items = DOMAIN b.items
         /\ \A i \in DOMAIN b.items \ S : b2.items[i] = b.items[i]
<1> DEFINE floor == FloorPast(b, S)
           items2 == [i \in DOMAIN b.items |->
                        IF i \in S THEN Pruned(b.items[i]) ELSE b.items[i]]
<1>1. /\ b.seq \in Nat /\ b.floor \in Nat /\ b.viewed \in Nat /\ b.lock \in Projectors \cup {0}
      /\ Len(b.items) \in Nat /\ DOMAIN b.items = 1 .. Len(b.items)
      /\ \A i \in DOMAIN b.items : b.items[i] \in Items /\ ItemOK(b.items[i], b, n)
  BY BoxFacts DEF BoxOK
<1>2. floor \in Nat /\ b.floor =< floor /\ floor =< b.seq
      /\ \A i \in S : b.items[i].seq =< floor
  <2> DEFINE T == {b.floor} \cup {b.items[i].seq : i \in S}
  <2>1. T \subseteq 0 .. b.seq
    BY <1>1 DEF BoxOK, ItemOK
  <2>2. IsFiniteSet(T)
    <3>1. IsFiniteSet(0 .. b.seq)
      <4>1. 0 \in Int /\ b.seq \in Int
        BY <1>1
      <4> QED BY <4>1, FS_Interval, Zenon
    <3> QED BY <2>1, <3>1, FS_Subset
  <2>3. b.floor \in T /\ \A i \in S : b.items[i].seq \in T
    OBVIOUS
  <2>4. floor = Max(T)
    BY DEF FloorPast
  <2> HIDE DEF T, floor
  <2>5. T \subseteq Int /\ T # {}
    BY <1>1, <2>1, <2>3
  <2>6. Max(T) \in T /\ \A x \in T : x =< Max(T)
    BY <2>2, <2>5, LargestOfSome
  <2>7. floor \in 0 .. b.seq
    BY <2>1, <2>4, <2>6
  <2>8. b.floor =< floor
    BY <2>3, <2>4, <2>6
  <2>9. \A i \in S : b.items[i].seq =< floor
    BY <2>3, <2>4, <2>6
  <2> QED BY <1>1, <2>7, <2>8, <2>9
<1>3. b2 = [b EXCEPT !.items = items2, !.floor = floor]
  BY DEF AfterPrune
<1>4. /\ DOMAIN items2 = DOMAIN b.items
      /\ \A i \in S : items2[i] = Pruned(b.items[i])
      /\ \A i \in DOMAIN b.items \ S : items2[i] = b.items[i]
  OBVIOUS
<1>5. \A i \in S : LET x == b.items[i]  y == items2[i]
                   IN  /\ y \in Items /\ y.gone /\ y.removed /\ y.seq = x.seq /\ y.events = {}
                       /\ y.count = 0 /\ y.group = x.group /\ y.version = x.version
                       /\ y.read = x.read
  <2> SUFFICES ASSUME NEW i \in S, NEW x, x = b.items[i], NEW y, y = Pruned(x)
               PROVE  /\ y \in Items /\ y.gone /\ y.removed /\ y.seq = x.seq /\ y.events = {}
                      /\ y.count = 0 /\ y.group = x.group /\ y.version = x.version
                      /\ y.read = x.read
    BY <1>4
  <2>1. x \in Items /\ x.removed
    BY <1>1
  <2> QED BY <2>1 DEF Pruned, Items
<1>6. items2 \in Seq(Items)
  <2>1. \A i \in DOMAIN b.items : items2[i] \in Items
    BY <1>1, <1>4, <1>5
  <2>2. items2 \in [1 .. Len(b.items) -> Items]
    <3>1. items2 = [i \in DOMAIN b.items |-> items2[i]]
      OBVIOUS
    <3> HIDE DEF items2
    <3> QED BY <1>1, <2>1, <3>1
  <2> HIDE DEF items2
  <2> QED BY <1>1, <2>2, SeqDef
<1> HIDE DEF items2, floor
<1>7. /\ b2 \in Boxes /\ b2.items = items2 /\ b2.floor = floor /\ b2.seq = b.seq
      /\ b2.viewed = b.viewed /\ b2.lock = b.lock
  BY <1>2, <1>3, <1>6 DEF Boxes
<1>8. \A i \in DOMAIN b.items : ItemOK(items2[i], b2, n)
  <2> SUFFICES ASSUME NEW i \in DOMAIN b.items PROVE ItemOK(items2[i], b2, n)
    OBVIOUS
  <2>1. ItemOK(b.items[i], b, n) /\ b.items[i].seq \in Nat
    BY <1>1, ItemFacts
  <2>2. CASE i \in S
    <3>1. Cardinality({}) = 0
      BY FS_EmptySet
    <3> QED BY <1>2, <1>5, <1>7, <2>1, <2>2, <3>1 DEF ItemOK, Unseen, Present
  <2>3. CASE i \notin S
    BY <1>1, <1>2, <1>4, <1>7, <2>1, <2>3 DEF ItemOK
  <2> QED BY <2>2, <2>3
<1>9. /\ NumbersDiffer(b2) /\ EventsDiffer(b2) /\ GroupsDiffer(b2)
  <2>1. \A i \in DOMAIN b.items :
          /\ items2[i].seq = b.items[i].seq /\ items2[i].events \subseteq b.items[i].events
          /\ Open(items2[i]) => items2[i] = b.items[i]
    BY <1>4, <1>5 DEF Open, Present
  <2>2. NumbersDiffer(b2)
    BY <1>4, <1>7, <2>1 DEF BoxOK, NumbersDiffer
  <2>3. EventsDiffer(b2)
    BY <1>4, <1>7, <2>1 DEF BoxOK, EventsDiffer
  <2>4. GroupsDiffer(b2)
    BY <1>4, <1>7, <2>1 DEF BoxOK, GroupsDiffer
  <2> QED BY <2>2, <2>3, <2>4
<1>10. BoxMove(b, b2) /\ Quiet(b, b2)
  BY <1>1, <1>2, <1>4, <1>5, <1>7 DEF BoxMove, ItemMove, Quiet
<1> QED BY <1>2, <1>4, <1>7, <1>8, <1>9, <1>10 DEF Wrote, BoxOK

LEMMA LockKeeps ==
  ASSUME NEW b \in Boxes, NEW n \in Nat, BoxOK(b, n), NEW l \in Projectors \cup {0},
         NEW b2, b2 = [b EXCEPT !.lock = l]
  PROVE  /\ Wrote(b, b2, n) /\ Quiet(b, b2) /\ b2.lock = l
         /\ b2.viewed = b.viewed /\ b2.items = b.items /\ b2.seq = b.seq
         /\ b2.floor = b.floor
<1>1. /\ b2 \in Boxes /\ b2.lock = l /\ b2.viewed = b.viewed /\ b2.items = b.items
      /\ b2.seq = b.seq /\ b2.floor = b.floor
  BY DEF Boxes
<1>2. BoxOK(b2, n)
  BY <1>1 DEF BoxOK, NumbersDiffer, EventsDiffer, GroupsDiffer, ItemOK
<1> QED BY <1>1, <1>2, BoxFacts DEF Wrote, BoxMove, ItemMove, Quiet

(* More events may be there than an inbox knows of.                              *)
LEMMA MoreEvents ==
  ASSUME NEW b \in Boxes, NEW n \in Nat, NEW m \in Nat, n =< m, BoxOK(b, n)
  PROVE  BoxOK(b, m)
<1>1. 1 .. n \subseteq 1 .. m
  OBVIOUS
<1> QED BY <1>1 DEF BoxOK, ItemOK

--------------------------------------------------------------------------------
(* What a step may do to the tables.                                             *)

CoreInv == InboxTypes /\ BoxesOK /\ JobsOK

QueueStep ==
  /\ QueueTypes'
  /\ Len(queue) =< Len(queue') /\ DOMAIN queue \subseteq DOMAIN queue'
  /\ \A e \in DOMAIN queue : queue'[e].op = queue[e].op
  /\ Activity =< Activity' /\ Activity' \in Nat
  /\ source = "revoked" => source' = "revoked"
  /\ source # "active" => source' # "active"
FinishedStays == \A e \in DOMAIN queue : Finished(e) => Finished(e)'

(* An inbox keeps its items, gets one more for an event that a worker has, or    *)
(* loses tombstones of finished events.                                          *)
BoxStep(r) ==
  LET b  == inbox[r]
      b2 == inbox'[r]
  IN  /\ Wrote(b, b2, Len(queue))
      /\ b2.viewed = b.viewed \/ b2.viewed =< Activity
      /\ \/ /\ DOMAIN b2.items = DOMAIN b.items
            /\ \A i \in DOMAIN b.items :
                 \/ b2.items[i].gone = b.items[i].gone
                 \/ \A e \in b.items[i].events : Finished(e)
         \/ \E w \in Projectors : /\ job[w].row \in DOMAIN queue
                                  /\ ~Received(b, job[w].row)
                                  /\ Grown(b, b2, job[w].row)
JobStep(w) ==
  job'[w].row # 0 =>
    \/ job'[w].resume = 0
    \/ job'[w].row = job[w].row /\ job'[w].resume = job[w].resume
    \/ job'[w].row \in DOMAIN queue /\ job'[w].resume = queue[job'[w].row].resume

(* Rows are settled, and set back to a recipient, by commits and revocations     *)
(* only.                                                                         *)
RowsAsBefore ==
  \A e \in DOMAIN queue' :
    /\ queue'[e].resume # 0 => e \in DOMAIN queue /\ queue'[e].resume = queue[e].resume
    /\ queue'[e].state = "done" =>
         e \in DOMAIN queue /\ queue[e].state = "done" /\ queue'[e].event = queue[e].event

StepOK ==
  /\ QueueStep /\ FinishedStays
  /\ \A r \in Recipients : BoxStep(r)
  /\ \A w \in Projectors : JobStep(w)

LEMMA InboxConstants ==
  /\ Recipients \subseteq Nat /\ 0 \notin Recipients /\ IsFiniteSet(Recipients)
  /\ Readers \subseteq Recipients
  /\ Page \in Nat \ {0} /\ Limit \in Nat \ {0} /\ MaxAttempts \in Nat \ {0}
  /\ MaxEvents \in Nat /\ MaxMoves \in Nat /\ 0 \notin Projectors
BY InboxAssumption

LEMMA CoreFacts ==
  ASSUME InboxTypes
  PROVE  /\ QueueTypes
         /\ \A r \in Recipients : inbox[r] \in Boxes
         /\ \A w \in Projectors : job[w] \in Jobs
         /\ \A r \in Recipients : copy[r] \in Copies
         /\ Len(queue) \in Nat /\ DOMAIN queue = 1 .. Len(queue)
BY QueueFacts DEF InboxTypes

LEMMA JobFacts ==
  ASSUME NEW j \in Jobs
  PROVE  /\ j.phase \in Phases /\ j.row \in Nat /\ j.attempts \in 0 .. MaxAttempts
         /\ j.resume \in Recipients \cup {0} /\ j.page \in SUBSET Recipients
         /\ j.seen \in [Recipients -> Nat]
BY DEF Jobs

LEMMA ActivityIsNat ==
  ASSUME QueueTypes
  PROVE  Activity \in Nat
<1>1. IsFiniteSet(DOMAIN queue)
  <2>1. 1 \in Int /\ Len(queue) \in Int /\ DOMAIN queue = 1 .. Len(queue)
    BY QueueFacts
  <2> QED BY <2>1, FS_Interval, Zenon
<1>2. {e \in DOMAIN queue : queue[e].op = "rule"} \in SUBSET DOMAIN queue
  OBVIOUS
<1> QED BY <1>1, <1>2, FS_Subset, FS_CardinalityType DEF Activity

(* One row changes.                                                              *)
LEMMA OneRowChanges ==
  ASSUME QueueTypes, NEW e \in DOMAIN queue, NEW q \in Rows,
         q.op = queue[e].op, q.version = queue[e].version,
         q.leased => q.state = "leased",
         queue' = [queue EXCEPT ![e] = q], source' = source
  PROVE  /\ QueueStep /\ DOMAIN queue' = DOMAIN queue /\ queue'[e] = q
         /\ \A d \in DOMAIN queue : d # e => queue'[d] = queue[d]
<1>1. /\ queue \in Seq(Rows) /\ e \in 1 .. Len(queue) /\ DOMAIN queue = 1 .. Len(queue)
  BY QueueFacts DEF QueueTypes
<1>2. /\ queue' \in Seq(Rows) /\ Len(queue') = Len(queue)
      /\ \A d \in 1 .. Len(queue) : queue'[d] = IF d = e THEN q ELSE queue[d]
  BY <1>1, ExceptSeq
<1>3. DOMAIN queue' = DOMAIN queue
  OBVIOUS
<1>4. QueueTypes'
  BY <1>1, <1>2, <1>3 DEF QueueTypes
<1>5. \A d \in DOMAIN queue : queue'[d].op = queue[d].op
  BY <1>1, <1>2
<1>6. Activity' = Activity
  <2>1. {d \in DOMAIN queue' : queue'[d].op = "rule"} = {d \in DOMAIN queue : queue[d].op = "rule"}
    BY <1>3, <1>5
  <2> QED BY <2>1 DEF Activity
<1>7. Activity \in Nat /\ Len(queue) \in Nat
  BY ActivityIsNat, QueueFacts
<1> QED BY <1>1, <1>2, <1>3, <1>4, <1>5, <1>6, <1>7 DEF QueueStep

LEMMA QueueUntouched ==
  ASSUME QueueTypes, UNCHANGED <<queue, source>>
  PROVE  QueueStep /\ RowsAsBefore
BY ActivityIsNat, QueueFacts DEF QueueStep, QueueTypes, RowsAsBefore, Activity

LEMMA FinishedIfJobsKept ==
  ASSUME \A e \in DOMAIN queue : queue[e].state \in {"done", "dead"} =>
           queue'[e].state \in {"done", "dead"},
         \A w \in Projectors : job'[w].row \in {0, job[w].row},
         0 \notin DOMAIN queue
  PROVE  FinishedStays
BY DEF FinishedStays, Finished

LEMMA InboxUntouched ==
  ASSUME CoreInv, inbox' = inbox
  PROVE  \A r \in Recipients : BoxStep(r)
BY NothingChanges, CoreFacts DEF CoreInv, BoxesOK, BoxStep

LEMMA BoxesStay ==
  ASSUME CoreInv, StepOK
  PROVE  BoxesOK'
<1> SUFFICES ASSUME NEW r \in Recipients
             PROVE  BoxOK(inbox'[r], Len(queue')) /\ inbox'[r].viewed =< Activity'
  BY DEF BoxesOK
<1>1. BoxStep(r) /\ QueueStep
  BY DEF StepOK
<1>2. inbox'[r] \in Boxes /\ BoxOK(inbox'[r], Len(queue)) /\ inbox[r] \in Boxes
  BY <1>1, CoreFacts DEF BoxStep, Wrote, CoreInv
<1>3. Len(queue) \in Nat /\ Len(queue') \in Nat /\ Len(queue) =< Len(queue')
  BY <1>1, CoreFacts, QueueFacts DEF CoreInv, QueueStep, QueueTypes
<1>4. BoxOK(inbox'[r], Len(queue'))
  BY <1>2, <1>3, MoreEvents
<1>5. inbox'[r].viewed =< Activity'
  <2>1. inbox'[r].viewed =< Activity
    BY <1>1 DEF BoxStep, CoreInv, BoxesOK
  <2>2. Activity \in Nat /\ Activity' \in Nat
    BY <1>1, ActivityIsNat, CoreFacts DEF CoreInv, QueueStep
  <2> QED BY <1>1, <1>2, <2>1, <2>2, BoxFacts DEF QueueStep
<1> QED BY <1>4, <1>5

LEMMA JobStays ==
  ASSUME CoreInv, QueueStep, NEW w \in Projectors, job'[w] = job[w]
  PROVE  JobOK(w)'
<1>1. JobOK(w)
  BY DEF CoreInv, JobsOK
<1>2. job[w].row # 0 =>
        job[w].row \in DOMAIN queue' /\ queue'[job[w].row].op = queue[job[w].row].op
  BY <1>1 DEF JobOK, QueueStep
<1>3. job[w].row = 0 => job[w].phase = "idle"
  BY <1>1 DEF JobOK
<1> QED BY <1>1, <1>2, <1>3 DEF JobOK, QueueStep

LEMMA LockStays ==
  ASSUME CoreInv, NEW r \in Recipients,
         inbox'[r].lock # 0 =>
           /\ inbox'[r].lock = inbox[r].lock /\ inbox'[r].viewed = inbox[r].viewed
           /\ job'[inbox[r].lock].page = job[inbox[r].lock].page
           /\ job'[inbox[r].lock].seen[r] = job[inbox[r].lock].seen[r]
  PROVE  LockOK(r)'
BY DEF CoreInv, JobsOK, LockOK

--------------------------------------------------------------------------------
(* The steps of the queue and of the workers, up to the commit.                  *)

(* Nothing but the queue changes.                                                *)
LEMMA QueueOnly ==
  ASSUME CoreInv, QueueStep, FinishedStays, moves' \in Nat, UNCHANGED <<inbox, job, copy>>
  PROVE  StepOK /\ CoreInv'
<1>1. StepOK
  BY InboxUntouched DEF StepOK, JobStep
<1>2. \A w \in Projectors : JobOK(w)'
  BY JobStays
<1>3. \A r \in Recipients : LockOK(r)'
  BY LockStays
<1>4. InboxTypes'
  BY DEF CoreInv, InboxTypes, QueueStep
<1> QED BY <1>1, <1>2, <1>3, <1>4, BoxesStay DEF CoreInv, JobsOK

LEMMA NewRowAppended ==
  ASSUME CoreInv, Len(queue) < MaxEvents, NEW op \in Ops, NEW target \in Nat,
         queue' = Append(queue, NewRow(op, target)),
         moves' \in Nat, UNCHANGED <<source, inbox, job, copy>>
  PROVE  StepOK /\ RowsAsBefore /\ CoreInv'
<1> DEFINE q == NewRow(op, target)
           n == Len(queue)
<1>1. /\ queue \in Seq(Rows) /\ n \in Nat /\ DOMAIN queue = 1 .. n /\ QueueTypes
  BY QueueFacts DEF CoreInv, InboxTypes, QueueTypes
<1>2. /\ q \in Rows /\ q.state = "pending" /\ ~q.leased /\ q.resume = 0 /\ q.op = op
      /\ q.version # 0 <=> q.op = "rule"
  <2>1. Cardinality({e \in DOMAIN queue : queue[e].op = "rule"}) \in Nat
    BY <1>1, ActivityIsNat DEF Activity
  <2>2. 0 \in 0 .. MaxAttempts
    BY InboxConstants
  <2>3. (IF op = "rule" THEN 1 + Cardinality({e \in DOMAIN queue : queue[e].op = "rule"})
         ELSE 0) \in Nat
    BY <2>1
  <2>4. q \in Rows
    BY <2>2, <2>3 DEF NewRow, Rows, States, EventStates
  <2> QED BY <2>1, <2>4 DEF NewRow
<1> HIDE DEF q
<1>3. /\ queue' \in Seq(Rows) /\ Len(queue') = n + 1 /\ queue'[n + 1] = q
      /\ \A e \in 1 .. n : queue'[e] = queue[e]
  BY <1>1, <1>2, AppendProperties DEF q
<1> HIDE DEF n
<1>4. /\ DOMAIN queue' = 1 .. n + 1
      /\ \A e \in DOMAIN queue' : e = n + 1 \/ e \in DOMAIN queue
      /\ \A e \in DOMAIN queue : e \in DOMAIN queue' /\ queue'[e] = queue[e]
  BY <1>1, <1>3, LenProperties
<1>5. QueueTypes'
  <2>1. Len(queue') =< MaxEvents /\ Len(queue) < MaxEvents
    BY <1>1, <1>3, InboxConstants DEF n
  <2> QED BY <1>1, <1>2, <1>3, <1>4, <2>1 DEF QueueTypes
<1>6. Activity =< Activity' /\ Activity' \in Nat
  <2> DEFINE A == {e \in DOMAIN queue : queue[e].op = "rule"}
             B == {e \in DOMAIN queue' : queue'[e].op = "rule"}
  <2>1. A \subseteq B
    BY <1>4
  <2>2. IsFiniteSet(B)
    <3>1. IsFiniteSet(1 .. n + 1)
      <4>1. 1 \in Int /\ n + 1 \in Int
        BY <1>1
      <4> QED BY <4>1, FS_Interval, Zenon
    <3>2. B \subseteq 1 .. n + 1
      BY <1>4
    <3> QED BY <3>1, <3>2, FS_Subset
  <2>3. Activity = Cardinality(A) /\ Activity' = Cardinality(B)
    BY DEF Activity
  <2> HIDE DEF A, B
  <2> QED BY <2>1, <2>2, <2>3, FS_Subset, FS_CardinalityType
<1>7. QueueStep
  BY <1>1, <1>3, <1>4, <1>5, <1>6 DEF QueueStep, n
<1>8. FinishedStays
  BY <1>4 DEF FinishedStays, Finished
<1>9. RowsAsBefore
  BY <1>2, <1>3, <1>4 DEF RowsAsBefore
<1> QED BY <1>7, <1>8, <1>9, QueueOnly

LEMMA CaptureStep ==
  ASSUME CoreInv, CaptureEvent
  PROVE  StepOK /\ RowsAsBefore /\ CoreInv'
<1>1. moves' \in Nat
  BY DEF CaptureEvent, CoreInv, InboxTypes
<1>2. 0 \in Nat
  OBVIOUS
<1> QED BY <1>1, <1>2, NewRowAppended DEF CaptureEvent

LEMMA IngestStep ==
  ASSUME CoreInv, NEW op \in Ops, IngestProducerEvent(op)
  PROVE  StepOK /\ RowsAsBefore /\ CoreInv'
<1>1. PICK target \in IF op = "publish" THEN {0} ELSE Published :
        queue' = Append(queue, NewRow(op, target))
  BY DEF IngestProducerEvent
<1>2. target \in Nat
  BY QueueFacts, CoreFacts DEF Published, CoreInv
<1>3. moves' \in Nat
  <2>1. moves' = moves + 1 \/ moves' = moves
    BY DEF IngestProducerEvent, Move
  <2> QED BY <2>1 DEF CoreInv, InboxTypes
<1> QED BY <1>1, <1>2, <1>3, NewRowAppended DEF IngestProducerEvent

LEMMA LapseStep ==
  ASSUME CoreInv, NEW e \in DOMAIN queue, LeaseLapses(e)
  PROVE  StepOK /\ RowsAsBefore /\ CoreInv'
<1> DEFINE q == [queue[e] EXCEPT !.leased = FALSE]
<1>1. QueueTypes /\ queue[e] \in Rows /\ queue[e].state = "leased"
  BY CoreFacts, QueueFacts DEF CoreInv, LeaseLapses
<1>2. queue' = [queue EXCEPT ![e] = q]
  BY DEF LeaseLapses
<1>3. /\ q \in Rows /\ q.op = queue[e].op /\ q.version = queue[e].version /\ ~q.leased
      /\ q.state = queue[e].state /\ q.resume = queue[e].resume /\ q.event = queue[e].event
  BY <1>1 DEF Rows
<1> HIDE DEF q
<1>4. /\ QueueStep /\ DOMAIN queue' = DOMAIN queue /\ queue'[e] = q
      /\ \A d \in DOMAIN queue : d # e => queue'[d] = queue[d]
  BY <1>1, <1>2, <1>3, OneRowChanges DEF LeaseLapses
<1>5. FinishedStays /\ RowsAsBefore
  BY <1>3, <1>4 DEF FinishedStays, Finished, RowsAsBefore, LeaseLapses
<1>6. moves' \in Nat
  BY DEF CoreInv, InboxTypes, LeaseLapses, Move
<1> QED BY <1>4, <1>5, <1>6, QueueOnly DEF LeaseLapses

LEMMA DueStep ==
  ASSUME CoreInv, NEW e \in DOMAIN queue, RetryFallsDue(e)
  PROVE  StepOK /\ RowsAsBefore /\ CoreInv'
<1> DEFINE q == [queue[e] EXCEPT !.due = TRUE]
<1>1. QueueTypes /\ queue[e] \in Rows /\ (queue[e].leased => queue[e].state = "leased")
  BY CoreFacts, QueueFacts DEF CoreInv, QueueTypes
<1>2. queue' = [queue EXCEPT ![e] = q]
  BY DEF RetryFallsDue
<1>3. /\ q \in Rows /\ q.op = queue[e].op /\ q.version = queue[e].version
      /\ q.leased = queue[e].leased
      /\ q.state = queue[e].state /\ q.resume = queue[e].resume /\ q.event = queue[e].event
  BY <1>1 DEF Rows
<1> HIDE DEF q
<1>4. /\ QueueStep /\ DOMAIN queue' = DOMAIN queue /\ queue'[e] = q
      /\ \A d \in DOMAIN queue : d # e => queue'[d] = queue[d]
  BY <1>1, <1>2, <1>3, OneRowChanges DEF RetryFallsDue
<1>5. FinishedStays /\ RowsAsBefore
  BY <1>3, <1>4 DEF FinishedStays, Finished, RowsAsBefore, RetryFallsDue
<1>6. moves' \in Nat
  BY DEF CoreInv, InboxTypes, RetryFallsDue
<1> QED BY <1>4, <1>5, <1>6, QueueOnly DEF RetryFallsDue

LEMMA DisableStep ==
  ASSUME CoreInv, DisableSource
  PROVE  StepOK /\ RowsAsBefore /\ CoreInv'
<1>1. /\ QueueTypes /\ source = "active" /\ source' = "disabled"
      /\ UNCHANGED <<queue, inbox, job, copy>>
  BY CoreFacts DEF CoreInv, DisableSource
<1>2. QueueStep
  BY <1>1, ActivityIsNat, QueueFacts DEF QueueStep, QueueTypes, Activity
<1>3. FinishedStays /\ RowsAsBefore
  BY <1>1 DEF FinishedStays, Finished, RowsAsBefore
<1>4. moves' \in Nat
  BY DEF CoreInv, InboxTypes, DisableSource, Move
<1> QED BY <1>1, <1>2, <1>3, <1>4, QueueOnly

(* One worker's job changes.                                                     *)
LEMMA OneJobChanges ==
  ASSUME CoreInv, NEW w \in Projectors, NEW j \in Jobs, job' = [job EXCEPT ![w] = j]
  PROVE  /\ job' \in [Projectors -> Jobs] /\ job'[w] = j
         /\ \A v \in Projectors : v # w => job'[v] = job[v]
BY DEF CoreInv, InboxTypes

(* A worker that had no page, or gives up its locks, takes none with it.         *)
LEMMA LocksFollow ==
  ASSUME CoreInv, NEW w \in Projectors, \A v \in Projectors : v # w => job'[v] = job[v],
         \A r \in Recipients : inbox'[r].lock # 0 =>
           inbox'[r].lock = inbox[r].lock /\ inbox'[r].viewed = inbox[r].viewed,
         job[w].page = {} \/ \A r \in Recipients : inbox'[r].lock # w
  PROVE  \A r \in Recipients : LockOK(r)'
<1> SUFFICES ASSUME NEW r \in Recipients PROVE LockOK(r)'
  OBVIOUS
<1> DEFINE v == inbox[r].lock
<1>1. v # 0 => v \in Projectors /\ r \in job[v].page
  BY CoreFacts, BoxFacts DEF CoreInv, JobsOK, LockOK
<1>2. inbox'[r].lock # 0 => v # w
  BY <1>1
<1>3. inbox'[r].lock # 0 => job'[v] = job[v]
  BY <1>1, <1>2
<1> QED BY <1>3, LockStays

LEMMA RestIsJob ==
  /\ AtRest \in Jobs /\ AtRest.phase = "idle" /\ AtRest.row = 0 /\ AtRest.resume = 0
  /\ AtRest.page = {}
BY InboxConstants DEF AtRest, Jobs, Phases

LEMMA ClaimStep ==
  ASSUME CoreInv, NEW w \in Projectors, NEW e \in DOMAIN queue, ClaimIntake(w, e)
  PROVE  StepOK /\ RowsAsBefore /\ CoreInv'
<1> DEFINE n == NextAttempt(queue[e].attempts)
           q == [queue[e] EXCEPT !.state = "leased", !.leased = TRUE, !.attempts = n]
           j == [AtRest EXCEPT !.phase = "claimed", !.row = e, !.attempts = n,
                               !.resume = queue[e].resume]
<1>1. /\ QueueTypes /\ queue[e] \in Rows /\ e \in Nat /\ e # 0 /\ 0 \notin DOMAIN queue
      /\ queue[e].resume \in Recipients \cup {0} /\ queue[e].attempts \in 0 .. MaxAttempts
      /\ queue[e].state \in {"pending", "leased"} /\ job[w].phase = "idle"
  BY CoreFacts, QueueFacts DEF CoreInv, ClaimIntake, Claimable
<1>2. n \in 0 .. MaxAttempts
  BY <1>1, InboxConstants DEF NextAttempt
<1>3. queue' = [queue EXCEPT ![e] = q]
  BY DEF ClaimIntake
<1>4. job' = [job EXCEPT ![w] = j]
  BY DEF ClaimIntake
<1> HIDE DEF n
<1>5. /\ q \in Rows /\ q.op = queue[e].op /\ q.version = queue[e].version /\ q.leased
      /\ q.state = "leased" /\ q.resume = queue[e].resume
  BY <1>1, <1>2 DEF Rows, States
<1>6. /\ j \in Jobs /\ j.phase = "claimed" /\ j.row = e /\ j.page = {}
      /\ j.resume = queue[e].resume
  BY <1>1, <1>2 DEF AtRest, Jobs, Phases
<1> HIDE DEF q, j
<1>7. /\ QueueStep /\ DOMAIN queue' = DOMAIN queue /\ queue'[e] = q
      /\ \A d \in DOMAIN queue : d # e => queue'[d] = queue[d]
  BY <1>1, <1>3, <1>5, OneRowChanges DEF ClaimIntake
<1>8. /\ job' \in [Projectors -> Jobs] /\ job'[w] = j
      /\ \A v \in Projectors : v # w => job'[v] = job[v]
  BY <1>4, <1>6, OneJobChanges
<1>9. JobOK(w) /\ job[w].row = 0 /\ job[w].page = {}
  BY <1>1 DEF CoreInv, JobsOK, JobOK
<1>10. FinishedStays
  BY <1>1, <1>6, <1>7, <1>8 DEF FinishedStays, Finished
<1>11. RowsAsBefore
  BY <1>5, <1>7 DEF RowsAsBefore
<1>12. StepOK
  <2>1. \A v \in Projectors : JobStep(v)
    BY <1>6, <1>8 DEF JobStep
  <2> QED BY <1>7, <1>10, <2>1, InboxUntouched DEF StepOK, ClaimIntake
<1>13. \A v \in Projectors : JobOK(v)'
  <2>1. JobOK(w)'
    BY <1>1, <1>6, <1>7, <1>8 DEF JobOK
  <2> QED BY <1>7, <1>8, <2>1, JobStays
<1>14. \A r \in Recipients : LockOK(r)'
  BY <1>8, <1>9, LocksFollow DEF ClaimIntake
<1>15. InboxTypes'
  BY <1>7, <1>8 DEF CoreInv, InboxTypes, ClaimIntake, QueueStep
<1> QED BY <1>11, <1>12, <1>13, <1>14, <1>15, BoxesStay DEF CoreInv, JobsOK

LEMMA BeginStep ==
  ASSUME CoreInv, NEW w \in Projectors, BeginProjection(w)
  PROVE  StepOK /\ RowsAsBefore /\ CoreInv'
<1> DEFINE e == job[w].row
           op == queue[e].op
           page == IF op = "rule" \/ (op = "publish" /\ source = "active")
                   THEN PageAfter(job[w].resume) ELSE {}
           dead == op # "rule" /\ source # "active"
           j == [job[w] EXCEPT !.phase = IF dead THEN "rejected" ELSE "open", !.page = page]
<1>1. /\ QueueTypes /\ job[w] \in Jobs /\ job[w].phase = "claimed" /\ JobOK(w)
      /\ 0 \notin DOMAIN queue
  BY CoreFacts, QueueFacts DEF CoreInv, JobsOK, BeginProjection
<1>2. job' = [job EXCEPT ![w] = j] /\ UNCHANGED <<queue, source, inbox, copy, moves>>
  BY DEF BeginProjection
<1>3. e # 0 /\ e \in DOMAIN queue /\ job[w].page = {}
  BY <1>1 DEF JobOK
<1>4. page \in SUBSET Recipients
  BY DEF PageAfter
<1>5. /\ j \in Jobs /\ j.phase = (IF dead THEN "rejected" ELSE "open") /\ j.page = page
      /\ j.row = e /\ j.resume = job[w].resume
  <2> DEFINE phase == IF dead THEN "rejected" ELSE "open"
  <2>1. phase \in Phases
    BY DEF Phases
  <2> HIDE DEF page, dead, phase
  <2> QED BY <1>1, <1>4, <2>1 DEF Jobs, phase
<1>6. op \in {"rule", "publish", "resolve", "withdraw"}
  BY <1>1, <1>3, QueueFacts
<1>7. /\ ~dead => page = IF op \in {"rule", "publish"} THEN PageAfter(job[w].resume) ELSE {}
      /\ dead => page = {} /\ op # "rule" /\ source # "active"
  BY <1>1, <1>6
<1> HIDE DEF j, page, dead, op
<1>8. /\ job' \in [Projectors -> Jobs] /\ job'[w] = j
      /\ \A v \in Projectors : v # w => job'[v] = job[v]
  BY <1>2, <1>5, OneJobChanges
<1>9. QueueStep /\ RowsAsBefore
  BY <1>1, <1>2, QueueUntouched
<1>10. FinishedStays
  BY <1>2, <1>5, <1>8 DEF FinishedStays, Finished
<1>11. StepOK
  <2>1. \A v \in Projectors : JobStep(v)
    BY <1>5, <1>8 DEF JobStep
  <2> QED BY <1>2, <1>9, <1>10, <2>1, InboxUntouched DEF StepOK
<1>12. \A v \in Projectors : JobOK(v)'
  <2>1. JobOK(w)'
    BY <1>2, <1>3, <1>5, <1>7, <1>8 DEF JobOK, op
  <2> QED BY <1>8, <1>9, <2>1, JobStays
<1>13. \A r \in Recipients : LockOK(r)'
  BY <1>2, <1>3, <1>8, LocksFollow
<1>14. InboxTypes'
  BY <1>2, <1>8, <1>9 DEF CoreInv, InboxTypes, QueueStep
<1> QED BY <1>9, <1>11, <1>12, <1>13, <1>14, BoxesStay DEF CoreInv, JobsOK

--------------------------------------------------------------------------------
(* The steps that write inboxes, the commit left out.                            *)

QuietStep == \A r \in Recipients : Quiet(inbox[r], inbox'[r])

LEMMA OneBoxChanges ==
  ASSUME CoreInv, NEW r \in Recipients, NEW b2, inbox' = [inbox EXCEPT ![r] = b2],
         Wrote(inbox[r], b2, Len(queue)),
         b2.viewed = inbox[r].viewed \/ b2.viewed =< Activity,
         DOMAIN b2.items = DOMAIN inbox[r].items,
         \A i \in DOMAIN inbox[r].items :
           \/ b2.items[i].gone = inbox[r].items[i].gone
           \/ \A e \in inbox[r].items[i].events : Finished(e)
  PROVE  /\ inbox' \in [Recipients -> Boxes] /\ inbox'[r] = b2
         /\ \A q \in Recipients : q # r => inbox'[q] = inbox[q]
         /\ \A q \in Recipients : BoxStep(q)
<1>1. inbox \in [Recipients -> Boxes] /\ b2 \in Boxes
  BY DEF CoreInv, InboxTypes, Wrote
<1>2. /\ inbox' \in [Recipients -> Boxes] /\ inbox'[r] = b2
      /\ \A q \in Recipients : q # r => inbox'[q] = inbox[q]
  BY <1>1
<1>3. BoxStep(r)
  BY <1>2 DEF BoxStep
<1>4. \A q \in Recipients : q # r => BoxStep(q)
  BY <1>2, NothingChanges, CoreFacts DEF CoreInv, BoxesOK, BoxStep
<1> QED BY <1>2, <1>3, <1>4

LEMMA LockStep ==
  ASSUME CoreInv, NEW w \in Projectors, NEW r \in Recipients, LockRecipient(w, r)
  PROVE  StepOK /\ RowsAsBefore /\ QuietStep /\ CoreInv'
<1> DEFINE b2 == [inbox[r] EXCEPT !.lock = w]
           j == [job[w] EXCEPT !.seen = [job[w].seen EXCEPT ![r] = inbox[r].viewed]]
<1>1. /\ QueueTypes /\ inbox[r] \in Boxes /\ BoxOK(inbox[r], Len(queue)) /\ Len(queue) \in Nat
      /\ job[w] \in Jobs /\ inbox[r].viewed \in Nat /\ inbox[r].lock = 0
      /\ r \in job[w].page /\ 0 \notin DOMAIN queue
  BY CoreFacts, BoxFacts, QueueFacts DEF CoreInv, BoxesOK, LockRecipient
<1>2. inbox' = [inbox EXCEPT ![r] = b2] /\ job' = [job EXCEPT ![w] = j]
  BY DEF LockRecipient
<1>3. /\ j \in Jobs /\ j.phase = job[w].phase /\ j.row = job[w].row /\ j.page = job[w].page
      /\ j.resume = job[w].resume /\ j.seen[r] = inbox[r].viewed
      /\ \A q \in Recipients : q # r => j.seen[q] = job[w].seen[q]
  BY <1>1 DEF Jobs
<1>4. /\ Wrote(inbox[r], b2, Len(queue)) /\ Quiet(inbox[r], b2) /\ b2.lock = w
      /\ b2.viewed = inbox[r].viewed /\ b2.items = inbox[r].items
  BY <1>1, LockKeeps
<1> HIDE DEF b2, j
<1>5. /\ inbox' \in [Recipients -> Boxes] /\ inbox'[r] = b2
      /\ \A q \in Recipients : q # r => inbox'[q] = inbox[q]
      /\ \A q \in Recipients : BoxStep(q)
  BY <1>2, <1>4, OneBoxChanges
<1>6. /\ job' \in [Projectors -> Jobs] /\ job'[w] = j
      /\ \A v \in Projectors : v # w => job'[v] = job[v]
  BY <1>2, <1>3, OneJobChanges
<1>7. QueueStep /\ RowsAsBefore
  BY <1>1, QueueUntouched DEF LockRecipient
<1>8. FinishedStays
  BY <1>3, <1>6 DEF FinishedStays, Finished, LockRecipient
<1>9. StepOK
  <2>1. \A v \in Projectors : JobStep(v)
    BY <1>3, <1>6 DEF JobStep
  <2> QED BY <1>5, <1>7, <1>8, <2>1 DEF StepOK
<1>10. \A v \in Projectors : JobOK(v)'
  <2>1. JobOK(w) /\ queue' = queue /\ source' = source
    BY DEF CoreInv, JobsOK, LockRecipient
  <2>2. JobOK(w)'
    BY <1>3, <1>6, <2>1 DEF JobOK
  <2> QED BY <1>6, <1>7, <2>2, JobStays
<1>11. \A q \in Recipients : LockOK(q)'
  <2> SUFFICES ASSUME NEW q \in Recipients PROVE LockOK(q)'
    OBVIOUS
  <2>1. CASE q = r
    BY <1>1, <1>3, <1>4, <1>5, <1>6, <2>1 DEF LockOK
  <2>2. CASE q # r
    <3> DEFINE v == inbox[q].lock
    <3>1. LockOK(q) /\ v \in Projectors \cup {0}
      BY CoreFacts, BoxFacts DEF CoreInv, JobsOK
    <3>2. v # 0 => job'[v].page = job[v].page /\ job'[v].seen[q] = job[v].seen[q]
      BY <1>3, <1>6, <2>2, <3>1
    <3> QED BY <1>5, <2>2, <3>2, LockStays
  <2> QED BY <2>1, <2>2
<1>12. InboxTypes'
  BY <1>5, <1>6, <1>7 DEF CoreInv, InboxTypes, LockRecipient, QueueStep
<1>13. QuietStep
  BY <1>4, <1>5 DEF QuietStep, Quiet
<1> QED BY <1>7, <1>9, <1>10, <1>11, <1>12, <1>13, BoxesStay DEF CoreInv, JobsOK

(* A worker gives up its locks.                                                  *)
LEMMA LocksReleased ==
  ASSUME CoreInv, NEW w \in Projectors, inbox' = [r \in Recipients |-> Unlocked(r, w)]
  PROVE  /\ inbox' \in [Recipients -> Boxes]
         /\ \A r \in Recipients : BoxStep(r)
         /\ QuietStep
         /\ \A r \in Recipients : inbox'[r].lock # w
         /\ \A r \in Recipients : inbox'[r].lock # 0 =>
              inbox'[r].lock = inbox[r].lock /\ inbox'[r].viewed = inbox[r].viewed
<1> DEFINE lock(r) == IF inbox[r].lock = w THEN 0 ELSE inbox[r].lock
<1>1. \A r \in Recipients :
        /\ inbox[r] \in Boxes /\ BoxOK(inbox[r], Len(queue)) /\ Len(queue) \in Nat
        /\ lock(r) \in Projectors \cup {0}
  BY CoreFacts, BoxFacts DEF CoreInv, BoxesOK
<1>2. \A r \in Recipients : inbox'[r] = [inbox[r] EXCEPT !.lock = lock(r)]
  BY DEF Unlocked
<1>3. w # 0
  BY InboxConstants
<1> HIDE DEF lock
<1>4. \A r \in Recipients :
        /\ Wrote(inbox[r], inbox'[r], Len(queue)) /\ Quiet(inbox[r], inbox'[r])
        /\ inbox'[r].lock = lock(r)
        /\ inbox'[r].viewed = inbox[r].viewed /\ inbox'[r].items = inbox[r].items
  BY <1>1, <1>2, LockKeeps
<1>5. inbox' \in [Recipients -> Boxes]
  <2>1. \A r \in Recipients : inbox'[r] \in Boxes
    BY <1>4 DEF Wrote
  <2>2. inbox' = [r \in Recipients |-> inbox'[r]]
    OBVIOUS
  <2> QED BY <2>1, <2>2
<1>6. \A r \in Recipients : BoxStep(r)
  BY <1>4 DEF BoxStep
<1> QED BY <1>3, <1>4, <1>5, <1>6 DEF QuietStep, lock

(* A worker that failed or stopped: its locks are released.                      *)
LEMMA GivesUp ==
  ASSUME CoreInv, NEW w \in Projectors, NEW j \in Jobs, job' = [job EXCEPT ![w] = j],
         inbox' = [r \in Recipients |-> Unlocked(r, w)],
         \/ j = AtRest
         \/ j.phase = "failed" /\ j.row = job[w].row /\ j.row # 0 /\ j.page = {} /\ j.resume = 0,
         moves' \in Nat, UNCHANGED <<queue, source, copy>>
  PROVE  StepOK /\ RowsAsBefore /\ QuietStep /\ CoreInv'
<1>1. QueueTypes /\ 0 \notin DOMAIN queue
  BY CoreFacts, QueueFacts DEF CoreInv
<1>2. /\ job' \in [Projectors -> Jobs] /\ job'[w] = j
      /\ \A v \in Projectors : v # w => job'[v] = job[v]
  BY OneJobChanges
<1>3. /\ inbox' \in [Recipients -> Boxes]
      /\ \A r \in Recipients : BoxStep(r)
      /\ QuietStep
      /\ \A r \in Recipients : inbox'[r].lock # w
      /\ \A r \in Recipients : inbox'[r].lock # 0 =>
           inbox'[r].lock = inbox[r].lock /\ inbox'[r].viewed = inbox[r].viewed
  BY LocksReleased
<1>4. QueueStep /\ RowsAsBefore
  BY <1>1, QueueUntouched
<1>5. j.row \in {0, job[w].row} /\ j.page = {} /\ j.resume = 0
      /\ (j.phase = "idle" <=> j.row = 0) /\ j.phase \in {"idle", "failed"}
  BY RestIsJob
<1>6. FinishedStays
  BY <1>2, <1>5, <1>1 DEF FinishedStays, Finished
<1>7. StepOK
  <2>1. \A v \in Projectors : JobStep(v)
    BY <1>2, <1>5 DEF JobStep
  <2> QED BY <1>3, <1>4, <1>6, <2>1 DEF StepOK
<1>8. \A v \in Projectors : JobOK(v)'
  <2>1. job[w].row # 0 => job[w].row \in DOMAIN queue
    BY DEF CoreInv, JobsOK, JobOK
  <2>2. JobOK(w)'
    BY <1>2, <1>5, <2>1 DEF JobOK
  <2> QED BY <1>2, <1>4, <2>2, JobStays
<1>9. \A r \in Recipients : LockOK(r)'
  BY <1>2, <1>3, LocksFollow
<1>10. InboxTypes'
  BY <1>2, <1>3, <1>4 DEF CoreInv, InboxTypes, QueueStep
<1> QED BY <1>3, <1>4, <1>7, <1>8, <1>9, <1>10, BoxesStay DEF CoreInv, JobsOK

LEMMA FailStep ==
  ASSUME CoreInv, NEW w \in Projectors, FailProjection(w)
  PROVE  StepOK /\ RowsAsBefore /\ QuietStep /\ CoreInv'
<1> DEFINE j == [AtRest EXCEPT !.phase = "failed", !.row = job[w].row,
                               !.attempts = job[w].attempts]
<1>1. /\ job[w].row \in Nat /\ job[w].attempts \in 0 .. MaxAttempts /\ job[w].row # 0
      /\ moves' \in Nat
  <2>1. job[w] \in Jobs /\ JobOK(w)
    BY CoreFacts DEF CoreInv, JobsOK
  <2> QED BY <2>1, JobFacts DEF JobOK, FailProjection, CoreInv, InboxTypes, Move
<1>2. /\ j \in Jobs /\ j.phase = "failed" /\ j.row = job[w].row /\ j.page = {} /\ j.resume = 0
  BY <1>1 DEF AtRest, Jobs, Phases
<1>3. job' = [job EXCEPT ![w] = j]
  BY DEF FailProjection
<1> HIDE DEF j
<1> QED BY <1>1, <1>2, <1>3, GivesUp DEF FailProjection

LEMMA CrashStep ==
  ASSUME CoreInv, NEW w \in Projectors, CrashProjector(w)
  PROVE  StepOK /\ RowsAsBefore /\ QuietStep /\ CoreInv'
<1>1. moves' \in Nat
  BY DEF CrashProjector, CoreInv, InboxTypes, Move
<1> QED BY <1>1, RestIsJob, GivesUp DEF CrashProjector

(* The row of a failed worker is settled, whoever has it now.                    *)
LEMMA RecordStep ==
  ASSUME CoreInv, NEW w \in Projectors, RecordFailure(w)
  PROVE  StepOK /\ RowsAsBefore /\ CoreInv'
<1> DEFINE e == job[w].row
           state == IF job[w].attempts >= MaxAttempts THEN "dead" ELSE "pending"
           q == [queue[e] EXCEPT !.leased = FALSE, !.due = FALSE, !.state = state]
<1>1. /\ QueueTypes /\ job[w].phase = "failed" /\ e # 0 /\ e \in DOMAIN queue
      /\ queue[e] \in Rows /\ 0 \notin DOMAIN queue /\ job[w].page = {}
  <2>1. JobOK(w)
    BY DEF CoreInv, JobsOK
  <2> QED BY <2>1, CoreFacts, QueueFacts DEF JobOK, RecordFailure, CoreInv
<1>2. queue' = [queue EXCEPT ![e] = q]
  BY DEF RecordFailure
<1>3. job' = [job EXCEPT ![w] = AtRest]
  BY DEF RecordFailure
<1> HIDE DEF e
<1>4. state \in {"dead", "pending"}
  OBVIOUS
<1> HIDE DEF state
<1>5. /\ q \in Rows /\ q.op = queue[e].op /\ q.version = queue[e].version /\ ~q.leased
      /\ q.state = state /\ q.resume = queue[e].resume
  BY <1>1, <1>4 DEF Rows, States
<1> HIDE DEF q
<1>6. /\ QueueStep /\ DOMAIN queue' = DOMAIN queue /\ queue'[e] = q
      /\ \A d \in DOMAIN queue : d # e => queue'[d] = queue[d]
  BY <1>1, <1>2, <1>5, OneRowChanges DEF RecordFailure
<1>7. /\ job' \in [Projectors -> Jobs] /\ job'[w] = AtRest
      /\ \A v \in Projectors : v # w => job'[v] = job[v]
  BY <1>3, RestIsJob, OneJobChanges
<1>8. FinishedStays
  <2>1. ~Finished(e)
    BY DEF Finished, e
  <2> QED BY <1>1, <1>6, <1>7, <2>1, RestIsJob DEF FinishedStays, Finished
<1>9. RowsAsBefore
  BY <1>4, <1>5, <1>6 DEF RowsAsBefore
<1>10. StepOK
  <2>1. \A v \in Projectors : JobStep(v)
    BY <1>7, RestIsJob DEF JobStep
  <2> QED BY <1>6, <1>8, <2>1, InboxUntouched DEF StepOK, RecordFailure
<1>11. \A v \in Projectors : JobOK(v)'
  <2>1. JobOK(w)'
    BY <1>7, RestIsJob DEF JobOK
  <2> QED BY <1>6, <1>7, <2>1, JobStays
<1>12. \A r \in Recipients : LockOK(r)'
  BY <1>1, <1>7, LocksFollow DEF RecordFailure
<1>13. InboxTypes'
  BY <1>6, <1>7 DEF CoreInv, InboxTypes, RecordFailure, QueueStep
<1> QED BY <1>9, <1>10, <1>11, <1>12, <1>13, BoxesStay DEF CoreInv, JobsOK

--------------------------------------------------------------------------------
(* The commit and the revocation, which settle rows.                             *)

(* The inboxes that a commit leaves.                                             *)
LEMMA CommittedBox ==
  ASSUME CoreInv, NEW w \in Projectors, job[w].row \in DOMAIN queue,
         NEW r \in job[w].page, inbox[r].lock = w,
         NEW b2, b2 = Written(Unlocked(r, w), job[w].row, job[w].seen[r])
  PROVE  /\ Wrote(inbox[r], b2, Len(queue)) /\ Quiet(inbox[r], b2)
         /\ b2.viewed = inbox[r].viewed /\ b2.lock = 0 /\ Received(b2, job[w].row)
         /\ \/ DOMAIN b2.items = DOMAIN inbox[r].items
               /\ \A i \in DOMAIN inbox[r].items : b2.items[i].gone = inbox[r].items[i].gone
            \/ ~Received(inbox[r], job[w].row) /\ Grown(inbox[r], b2, job[w].row)
<1> DEFINE b == inbox[r]
           e == job[w].row
           u == [b EXCEPT !.lock = 0]
<1>1. /\ QueueTypes /\ r \in Recipients /\ b \in Boxes /\ BoxOK(b, Len(queue))
      /\ Len(queue) \in Nat /\ e \in DOMAIN queue /\ 0 \in Projectors \cup {0}
  BY CoreFacts, JobFacts DEF CoreInv, BoxesOK
<1>2. job[w].seen[r] = b.viewed
  BY <1>1, InboxConstants DEF CoreInv, JobsOK, LockOK
<1>3. Unlocked(r, w) = u
  BY DEF Unlocked
<1> HIDE DEF b, e, u
<1>4. /\ Wrote(b, u, Len(queue)) /\ u.lock = 0 /\ u.viewed = b.viewed
      /\ u.items = b.items /\ u.seq = b.seq /\ u.floor = b.floor
  BY <1>1, LockKeeps DEF u
<1>5. b2 = Written(u, e, u.viewed)
  BY <1>2, <1>3, <1>4 DEF e
<1>6. u \in Boxes /\ BoxOK(u, Len(queue))
  BY <1>4 DEF Wrote
<1>7. /\ Wrote(u, b2, Len(queue)) /\ b2.viewed = u.viewed /\ b2.lock = u.lock
      /\ Received(b2, e)
      /\ \/ Steady(u, b2) /\ Quiet(u, b2)
         \/ ~Received(u, e) /\ Grown(u, b2, e)
  BY <1>1, <1>5, <1>6, WrittenKeeps
<1>8. Wrote(b, b2, Len(queue))
  <2>1. BoxMove(u, b2) /\ b2 \in Boxes /\ BoxOK(b2, Len(queue))
    BY <1>7 DEF Wrote
  <2>2. u.items = b.items /\ u.seq = b.seq /\ u.floor = b.floor
    BY <1>4
  <2>3. BoxMove(b, b2)
    <3>1. \A i \in DOMAIN b.items : ItemMove(u.items[i], b2.items[i], u)
      BY <2>1, <2>2 DEF BoxMove
    <3>2. \A i \in DOMAIN b.items : ItemMove(b.items[i], b2.items[i], b)
      BY <2>2, <3>1 DEF ItemMove
    <3> QED BY <2>1, <2>2, <3>2 DEF BoxMove
  <2> QED BY <2>1, <2>3 DEF Wrote
<1>9. Received(u, e) <=> Received(b, e)
  BY <1>4 DEF Received
<1>10. Quiet(u, b2) => Quiet(b, b2)
  BY <1>4 DEF Quiet
<1>11. Grown(u, b2, e) => Grown(b, b2, e) /\ Quiet(b, b2)
  BY <1>4 DEF Grown, Quiet
<1>12. Steady(u, b2) =>
         DOMAIN b2.items = DOMAIN b.items
           /\ \A i \in DOMAIN b.items : b2.items[i].gone = b.items[i].gone
  BY <1>4 DEF Steady
<1> QED BY <1>4, <1>7, <1>8, <1>9, <1>10, <1>11, <1>12 DEF b, e

LEMMA CommittedBoxes ==
  ASSUME CoreInv, NEW w \in Projectors, CommitProjection(w)
  PROVE  /\ inbox' \in [Recipients -> Boxes]
         /\ \A r \in Recipients : BoxStep(r)
         /\ QuietStep
         /\ \A r \in Recipients : inbox'[r].lock # 0 =>
              inbox'[r].lock = inbox[r].lock /\ inbox'[r].viewed = inbox[r].viewed
         /\ job[w].page = {} \/ \A r \in Recipients : inbox'[r].lock # w
         /\ job[w].row \in DOMAIN queue
         /\ \A r \in job[w].page : Received(inbox'[r], job[w].row)
<1> DEFINE e == job[w].row
           p == job[w].page
           answers == job[w].phase = "open" /\ queue[e].op \in {"resolve", "withdraw"}
<1>1. /\ JobOK(w) /\ QueueTypes /\ p \subseteq Recipients /\ job[w].phase \in {"open", "rejected"}
      /\ p \subseteq Locked(w) /\ w # 0
      /\ \A r \in Recipients : inbox[r] \in Boxes /\ BoxOK(inbox[r], Len(queue))
      /\ Len(queue) \in Nat
  <2>1. job[w] \in Jobs
    BY CoreFacts DEF CoreInv
  <2> QED BY <2>1, CoreFacts, JobFacts, InboxConstants DEF CoreInv, JobsOK, BoxesOK, CommitProjection
<1>2. e \in DOMAIN queue
  BY <1>1 DEF JobOK
<1>3. CASE answers
  <2>1. p = {}
    BY <1>1, <1>3 DEF JobOK
  <2>2. inbox' = [r \in Recipients |-> Answered(inbox[r], queue[e])]
    BY <1>3 DEF CommitProjection
  <2> HIDE DEF e, p, answers
  <2>3. \A r \in Recipients : inbox'[r] = Answered(inbox[r], queue[e])
    BY <2>2
  <2>4. \A r \in Recipients : /\ Wrote(inbox[r], inbox'[r], Len(queue))
                              /\ Steady(inbox[r], inbox'[r]) /\ Quiet(inbox[r], inbox'[r])
    BY <1>1, <2>3, AnsweredKeeps
  <2>5. inbox' \in [Recipients -> Boxes]
    <3>1. inbox' = [r \in Recipients |-> inbox'[r]]
      BY <2>2
    <3>2. \A r \in Recipients : inbox'[r] \in Boxes
      BY <2>4 DEF Wrote
    <3> QED BY <3>1, <3>2
  <2>6. \A r \in Recipients : BoxStep(r)
    BY <2>4 DEF BoxStep, Steady
  <2> QED BY <1>2, <2>1, <2>4, <2>5, <2>6 DEF QuietStep, Steady, e, p
<1>4. CASE ~answers
  <2>1. inbox' = [r \in Recipients |->
                    IF r \in p THEN Written(Unlocked(r, w), e, job[w].seen[r]) ELSE inbox[r]]
    BY <1>4 DEF CommitProjection
  <2>2. \A r \in p : inbox'[r] = Written(Unlocked(r, w), e, job[w].seen[r]) /\ inbox[r].lock = w
    BY <1>1, <2>1 DEF Locked
  <2>3. \A r \in Recipients \ p : inbox'[r] = inbox[r] /\ inbox[r].lock # w
    BY <1>1, <2>1 DEF CoreInv, JobsOK, LockOK
  <2>4. \A r \in p :
          /\ Wrote(inbox[r], inbox'[r], Len(queue)) /\ Quiet(inbox[r], inbox'[r])
          /\ inbox'[r].viewed = inbox[r].viewed /\ inbox'[r].lock = 0
          /\ Received(inbox'[r], e)
          /\ \/ DOMAIN inbox'[r].items = DOMAIN inbox[r].items
                /\ \A i \in DOMAIN inbox[r].items :
                     inbox'[r].items[i].gone = inbox[r].items[i].gone
             \/ ~Received(inbox[r], e) /\ Grown(inbox[r], inbox'[r], e)
    BY <1>2, <2>2, CommittedBox
  <2>5. \A r \in Recipients \ p :
          /\ Wrote(inbox[r], inbox'[r], Len(queue)) /\ Quiet(inbox[r], inbox'[r])
          /\ BoxStep(r)
    BY <1>1, <2>3, NothingChanges DEF BoxStep
  <2> HIDE DEF p, answers
  <2>6. \A r \in p : BoxStep(r)
    <3> SUFFICES ASSUME NEW r \in p PROVE BoxStep(r)
      OBVIOUS
    <3>1. CASE DOMAIN inbox'[r].items = DOMAIN inbox[r].items
      BY <1>2, <2>4, <3>1 DEF BoxStep
    <3>2. CASE DOMAIN inbox'[r].items # DOMAIN inbox[r].items
      BY <1>2, <2>4, <3>2 DEF BoxStep
    <3> QED BY <3>1, <3>2
  <2>7. inbox' \in [Recipients -> Boxes]
    <3>1. inbox' = [r \in Recipients |-> inbox'[r]]
      BY <2>1
    <3>2. \A r \in Recipients : inbox'[r] \in Boxes
      BY <2>4, <2>5 DEF Wrote
    <3> QED BY <3>1, <3>2
  <2>8. \A r \in Recipients : BoxStep(r) /\ Quiet(inbox[r], inbox'[r])
    BY <2>4, <2>5, <2>6
  <2>9. \A r \in Recipients : inbox'[r].lock # w
    BY <1>1, <2>3, <2>4
  <2>10. \A r \in Recipients : inbox'[r].lock # 0 =>
           inbox'[r].lock = inbox[r].lock /\ inbox'[r].viewed = inbox[r].viewed
    BY <2>3, <2>4
  <2> QED BY <1>2, <2>4, <2>7, <2>8, <2>9, <2>10 DEF QuietStep, p
<1> QED BY <1>3, <1>4

(* The row of a commit: set back to the last recipient of the page, or done when *)
(* nobody is left.                                                               *)
RowCommitted(w) ==
  LET e == job[w].row
      p == job[w].page
  IN  /\ e \in DOMAIN queue /\ DOMAIN queue' = DOMAIN queue
      /\ \A d \in DOMAIN queue : d # e => queue'[d] = queue[d]
      /\ \/ /\ queue'[e].state = "pending" /\ p # {} /\ queue'[e].resume = Max(p)
         \/ /\ queue'[e].state = "done" /\ queue'[e].resume = 0
            /\ p # {} => \A r \in Recipients : ~(r > Max(p))
      /\ job[w].phase = "rejected" => queue'[e].event = "rejected"

LEMMA CommitStep ==
  ASSUME CoreInv, NEW w \in Projectors, CommitProjection(w)
  PROVE  /\ StepOK /\ QuietStep /\ CoreInv' /\ RowCommitted(w)
         /\ \A r \in job[w].page : Received(inbox'[r], job[w].row)
<1> DEFINE e == job[w].row
           p == job[w].page
           more == p # {} /\ \E r \in Recipients : r > Max(p)
           res == IF more THEN Max(p) ELSE 0
           event == IF job[w].phase = "rejected" THEN "rejected" ELSE "projected"
           q == IF more
                THEN [queue[e] EXCEPT !.event = event, !.state = "pending", !.leased = FALSE,
                                      !.due = TRUE, !.attempts = 0, !.resume = res]
                ELSE [queue[e] EXCEPT !.event = event, !.state = "done", !.leased = FALSE,
                                      !.resume = 0]
<1>1. /\ inbox' \in [Recipients -> Boxes]
      /\ \A r \in Recipients : BoxStep(r)
      /\ QuietStep
      /\ \A r \in Recipients : inbox'[r].lock # 0 =>
           inbox'[r].lock = inbox[r].lock /\ inbox'[r].viewed = inbox[r].viewed
      /\ job[w].page = {} \/ \A r \in Recipients : inbox'[r].lock # w
      /\ e \in DOMAIN queue
      /\ \A r \in p : Received(inbox'[r], e)
  BY CommittedBoxes
<1>2. /\ queue' = [queue EXCEPT ![e] = q] /\ job' = [job EXCEPT ![w] = AtRest]
      /\ UNCHANGED <<source, copy, moves>>
  BY DEF CommitProjection, Settled
<1>3. /\ QueueTypes /\ queue[e] \in Rows /\ e # 0 /\ 0 \notin DOMAIN queue
      /\ p \subseteq Recipients
  <2>1. job[w] \in Jobs
    BY CoreFacts DEF CoreInv
  <2> QED BY <1>1, <2>1, CoreFacts, QueueFacts, JobFacts DEF CoreInv
<1> HIDE DEF e
<1>4. res \in Recipients \cup {0} /\ (more => p # {} /\ res = Max(p))
      /\ (~more /\ p # {} => \A r \in Recipients : ~(r > Max(p)))
  <2>1. p # {} => Max(p) \in p
    <3>1. IsFiniteSet(p) /\ p \subseteq Int
      <4> HIDE DEF p
      <4>1. p \in SUBSET Recipients /\ IsFiniteSet(Recipients) /\ Recipients \subseteq Int
        BY <1>3, InboxConstants
      <4> QED BY <4>1, FS_Subset
    <3> QED BY <3>1, LargestOfSome
  <2> QED BY <1>3, <2>1
<1>5. event \in EventStates /\ (job[w].phase = "rejected" => event = "rejected")
  BY DEF EventStates
<1> HIDE DEF more, res, p, event
<1>6. /\ q \in Rows /\ q.op = queue[e].op /\ q.version = queue[e].version /\ ~q.leased
      /\ q.event = event
      /\ more => q.state = "pending" /\ q.resume = res
      /\ ~more => q.state = "done" /\ q.resume = 0
  <2>1. 0 \in 0 .. MaxAttempts /\ event \in EventStates
    BY <1>5, InboxConstants
  <2>2. CASE more
    BY <1>3, <1>4, <2>1, <2>2 DEF Rows, States
  <2>3. CASE ~more
    BY <1>3, <1>4, <2>1, <2>3 DEF Rows, States
  <2> QED BY <2>2, <2>3
<1> HIDE DEF q
<1>7. /\ QueueStep /\ DOMAIN queue' = DOMAIN queue /\ queue'[e] = q
      /\ \A d \in DOMAIN queue : d # e => queue'[d] = queue[d]
  BY <1>1, <1>2, <1>3, <1>6, OneRowChanges
<1>8. /\ job' \in [Projectors -> Jobs] /\ job'[w] = AtRest
      /\ \A v \in Projectors : v # w => job'[v] = job[v]
  BY <1>2, RestIsJob, OneJobChanges
<1>9. FinishedStays
  <2>1. ~Finished(e)
    BY DEF Finished, e
  <2> QED BY <1>3, <1>7, <1>8, <2>1, RestIsJob DEF FinishedStays, Finished
<1>10. StepOK
  <2>1. \A v \in Projectors : JobStep(v)
    BY <1>8, RestIsJob DEF JobStep
  <2> QED BY <1>1, <1>7, <1>9, <2>1 DEF StepOK
<1>11. \A v \in Projectors : JobOK(v)'
  <2>1. JobOK(w)'
    BY <1>8, RestIsJob DEF JobOK
  <2> QED BY <1>7, <1>8, <2>1, JobStays
<1>12. \A r \in Recipients : LockOK(r)'
  BY <1>1, <1>8, LocksFollow
<1>13. InboxTypes'
  BY <1>1, <1>2, <1>7, <1>8 DEF CoreInv, InboxTypes, QueueStep
<1>14. RowCommitted(w)
  BY <1>1, <1>4, <1>5, <1>6, <1>7 DEF RowCommitted, e, p
<1> QED BY <1>1, <1>10, <1>11, <1>12, <1>13, <1>14, BoxesStay DEF CoreInv, JobsOK, e, p

(* The rows of a revoked source are closed.                                      *)
RowsClosed ==
  /\ source' = "revoked" /\ DOMAIN queue' = DOMAIN queue
  /\ \A d \in DOMAIN queue :
       /\ queue'[d].resume = queue[d].resume
       /\ queue'[d].state = "done" => queue[d].state = "done" \/ queue[d].op # "rule"

LEMMA RevokeStep ==
  ASSUME CoreInv, RevokeSource
  PROVE  StepOK /\ QuietStep /\ CoreInv' /\ RowsClosed
<1> DEFINE closed(q) == [q EXCEPT !.state = "done", !.leased = FALSE]
           rows == [e \in DOMAIN queue |->
                      IF queue[e].op # "rule" /\ queue[e].state \in {"pending", "leased"}
                      THEN closed(queue[e]) ELSE queue[e]]
           n == Len(queue)
<1>1. /\ QueueTypes /\ n \in Nat /\ DOMAIN queue = 1 .. n /\ 0 \notin DOMAIN queue
      /\ \A e \in DOMAIN queue : queue[e] \in Rows
      /\ \A r \in Recipients : inbox[r] \in Boxes /\ BoxOK(inbox[r], n)
      /\ n =< MaxEvents
  BY CoreFacts, QueueFacts DEF CoreInv, BoxesOK, QueueTypes
<1>2. /\ queue' = rows /\ source' = "revoked" /\ job' = job /\ copy' = copy
      /\ inbox' = [r \in Recipients |-> Tombstoned(inbox[r], OfSource(inbox[r]))]
      /\ moves' \in Nat
  <2>1. queue' = rows
    BY DEF RevokeSource
  <2>2. moves' \in Nat
    <3>1. moves' = moves + 1
      BY DEF RevokeSource, Move
    <3> QED BY <3>1 DEF CoreInv, InboxTypes
  <2> QED BY <2>1, <2>2 DEF RevokeSource
<1>3. \A q \in Rows : /\ closed(q) \in Rows /\ closed(q).op = q.op /\ closed(q).version = q.version
                      /\ closed(q).resume = q.resume /\ closed(q).state = "done"
                      /\ ~closed(q).leased
  BY DEF Rows, States
<1>4. \A e \in DOMAIN queue :
        /\ rows[e] \in Rows /\ rows[e].op = queue[e].op /\ rows[e].version = queue[e].version
        /\ rows[e].resume = queue[e].resume
        /\ \/ rows[e] = queue[e]
           \/ rows[e].state = "done" /\ ~rows[e].leased /\ queue[e].op # "rule"
  BY <1>1, <1>3
<1>5. DOMAIN rows = 1 .. n /\ rows = [e \in 1 .. n |-> rows[e]]
  BY <1>1
<1> HIDE DEF rows, n, closed
<1>6. rows \in Seq(Rows) /\ Len(rows) = n
  <2>1. rows \in [1 .. n -> Rows]
    BY <1>1, <1>4, <1>5
  <2>2. rows \in Seq(Rows)
    BY <1>1, <2>1, SeqDef
  <2> QED BY <1>1, <1>5, <2>2, LenProperties
<1>7. QueueTypes'
  BY <1>1, <1>2, <1>4, <1>5, <1>6 DEF QueueTypes
<1>8. Activity' = Activity
  <2>1. {e \in DOMAIN queue' : queue'[e].op = "rule"} = {e \in DOMAIN queue : queue[e].op = "rule"}
    BY <1>1, <1>2, <1>4, <1>5
  <2> QED BY <2>1 DEF Activity
<1>9. QueueStep
  BY <1>1, <1>2, <1>4, <1>5, <1>6, <1>7, <1>8, ActivityIsNat DEF QueueStep, n
<1>10. RowsClosed
  BY <1>1, <1>2, <1>4, <1>5 DEF RowsClosed
<1>11. FinishedStays
  BY <1>1, <1>2, <1>4 DEF FinishedStays, Finished
<1>12. \A r \in Recipients : /\ Wrote(inbox[r], inbox'[r], n)
                             /\ Steady(inbox[r], inbox'[r]) /\ Quiet(inbox[r], inbox'[r])
  <2>1. \A r \in Recipients : inbox'[r] = Tombstoned(inbox[r], OfSource(inbox[r]))
    BY <1>2
  <2>2. \A r \in Recipients :
          /\ OfSource(inbox[r]) \in SUBSET DOMAIN inbox[r].items
          /\ \A i \in OfSource(inbox[r]) : Present(inbox[r].items[i])
    BY DEF OfSource
  <2> QED BY <1>1, <2>1, <2>2, TombstonedKeeps
<1>13. StepOK
  <2>1. \A r \in Recipients : BoxStep(r)
    BY <1>12 DEF BoxStep, Steady, n
  <2>2. \A w \in Projectors : JobStep(w)
    BY <1>2 DEF JobStep
  <2> QED BY <1>9, <1>11, <2>1, <2>2 DEF StepOK
<1>14. \A w \in Projectors : JobOK(w)'
  BY <1>2, <1>9, JobStays
<1>15. \A r \in Recipients : LockOK(r)'
  BY <1>2, <1>12, LockStays DEF Steady
<1>16. InboxTypes'
  <2>1. inbox' \in [Recipients -> Boxes]
    <3>1. inbox' = [r \in Recipients |-> inbox'[r]]
      BY <1>2
    <3>2. \A r \in Recipients : inbox'[r] \in Boxes
      BY <1>12 DEF Wrote
    <3> QED BY <3>1, <3>2
  <2> QED BY <1>2, <1>7, <2>1 DEF CoreInv, InboxTypes
<1> QED BY <1>10, <1>12, <1>13, <1>14, <1>15, <1>16, BoxesStay DEF CoreInv, JobsOK, QuietStep

--------------------------------------------------------------------------------
(* The steps of the recipients, and the maintenance.                             *)

CopiesKept ==
  \A r \in Recipients : /\ copy'[r].cold = copy[r].cold /\ copy'[r].pos = copy[r].pos
                        /\ copy'[r].held = copy[r].held

LEMMA SweptOnly ==
  ASSUME CoreInv, NEW r \in Recipients, NEW v \in BOOLEAN,
         copy' = [copy EXCEPT ![r].swept = v]
  PROVE  copy' \in [Recipients -> Copies] /\ CopiesKept
<1> DEFINE c == [copy[r] EXCEPT !.swept = v]
<1>1. copy \in [Recipients -> Copies] /\ copy[r] \in Copies
  BY DEF CoreInv, InboxTypes
<1>2. copy' = [copy EXCEPT ![r] = c]
  OBVIOUS
<1>3. c \in Copies /\ c.cold = copy[r].cold /\ c.pos = copy[r].pos /\ c.held = copy[r].held
  BY <1>1 DEF Copies
<1> HIDE DEF c
<1> QED BY <1>1, <1>2, <1>3 DEF CopiesKept

LEMMA CopiesUntouched ==
  ASSUME CoreInv, copy' = copy
  PROVE  copy' \in [Recipients -> Copies] /\ CopiesKept
BY DEF CopiesKept, CoreInv, InboxTypes

LEMMA MoveIsNat ==
  ASSUME CoreInv, Move \/ UNCHANGED moves
  PROVE  moves' \in Nat
<1>1. moves' = moves + 1 \/ moves' = moves
  BY DEF Move
<1> QED BY <1>1 DEF CoreInv, InboxTypes

(* One inbox changes, and no row and no job.                                     *)
LEMMA OneInboxOnly ==
  ASSUME CoreInv, NEW r \in Recipients, NEW b2, inbox' = [inbox EXCEPT ![r] = b2],
         Wrote(inbox[r], b2, Len(queue)),
         b2.viewed = inbox[r].viewed \/ b2.viewed =< Activity,
         b2.lock = 0, DOMAIN b2.items = DOMAIN inbox[r].items,
         \A i \in DOMAIN inbox[r].items :
           \/ b2.items[i].gone = inbox[r].items[i].gone
           \/ \A e \in inbox[r].items[i].events : Finished(e),
         UNCHANGED <<queue, source, job>>, copy' \in [Recipients -> Copies], moves' \in Nat
  PROVE  /\ StepOK /\ RowsAsBefore /\ CoreInv'
         /\ inbox'[r] = b2 /\ \A q \in Recipients : q # r => inbox'[q] = inbox[q]
         /\ Quiet(inbox[r], b2) => QuietStep
<1>1. /\ inbox' \in [Recipients -> Boxes] /\ inbox'[r] = b2
      /\ \A q \in Recipients : q # r => inbox'[q] = inbox[q]
      /\ \A q \in Recipients : BoxStep(q)
  BY OneBoxChanges
<1>2. QueueStep /\ RowsAsBefore
  BY CoreFacts, QueueUntouched DEF CoreInv
<1>3. FinishedStays
  BY DEF FinishedStays, Finished
<1>4. StepOK
  BY <1>1, <1>2, <1>3 DEF StepOK, JobStep
<1>5. \A w \in Projectors : JobOK(w)'
  BY <1>2, JobStays
<1>6. \A q \in Recipients : LockOK(q)'
  <2>1. \A q \in Recipients : inbox'[q].lock # 0 => q # r
    BY <1>1
  <2> QED BY <1>1, <2>1, LockStays
<1>7. InboxTypes'
  BY <1>1, <1>2 DEF CoreInv, InboxTypes, QueueStep
<1>8. Quiet(inbox[r], b2) => QuietStep
  BY <1>1 DEF QuietStep, Quiet
<1> QED BY <1>1, <1>2, <1>4, <1>5, <1>6, <1>7, <1>8, BoxesStay DEF CoreInv, JobsOK

LEMMA ViewStep ==
  ASSUME CoreInv, NEW r \in Recipients, NEW v \in Nat, ViewResource(r, v)
  PROVE  StepOK /\ RowsAsBefore /\ QuietStep /\ CopiesKept /\ CoreInv'
<1> DEFINE b == inbox[r]
           b2 == AfterView(b, v)
           S == SeenBy(b, v)
           key == [i \in S |-> i]
           new == [i \in S |-> ViewedItem(b.items[i])]
<1>1. /\ b \in Boxes /\ BoxOK(b, Len(queue)) /\ Len(queue) \in Nat /\ b.lock = 0
      /\ b.viewed < v /\ v =< Activity
  BY CoreFacts DEF CoreInv, BoxesOK, ViewResource, Views
<1>2. inbox' = [inbox EXCEPT ![r] = b2]
  <2>1. b2 = [Bumped(b, S, key, new) EXCEPT !.viewed = v]
    BY DEF AfterView
  <2>2. \A i \in S : new[i] = [b.items[i] EXCEPT !.read = "viewed"]
    BY DEF ViewedItem
  <2>3. \A i \in S : RankOf(S, key, i) = Cardinality({y \in S : y =< i})
    <3>1. \A i \in S : {y \in S : y =< i} = {y \in S : key[y] =< key[i]}
      OBVIOUS
    <3> QED BY <3>1 DEF RankOf
  <2>4. S = {i \in DOMAIN b.items : /\ Present(b.items[i]) /\ b.items[i].status = "active"
                                    /\ b.items[i].read = "no"
                                    /\ b.items[i].version \in 1 .. v}
    BY DEF SeenBy
  <2> HIDE DEF key, new, b2, b, S
  <2> QED BY <2>1, <2>2, <2>3, <2>4, ZenonT(60)
             DEF ViewResource, Views, Changed, Rank, Bumped, b
<1> HIDE DEF S, key, new, b
<1>3. /\ Wrote(b, b2, Len(queue)) /\ Quiet(b, b2)
      /\ b2.lock = b.lock /\ b2.viewed = v
      /\ DOMAIN b2.items = DOMAIN b.items
      /\ \A i \in DOMAIN b.items : b2.items[i].gone = b.items[i].gone
  BY <1>1, ViewKeeps
<1> HIDE DEF b2
<1>4. UNCHANGED <<queue, source, job, copy>> /\ moves' \in Nat
  <2>1. Move
    BY DEF ViewResource, Views
  <2> QED BY <2>1, MoveIsNat DEF ViewResource, Views
<1>5. copy' \in [Recipients -> Copies] /\ CopiesKept
  BY <1>4, CopiesUntouched
<1> QED BY <1>1, <1>2, <1>3, <1>4, <1>5, OneInboxOnly DEF b

LEMMA SweepStep ==
  ASSUME CoreInv, NEW r \in Recipients, SweepRecipient(r)
  PROVE  StepOK /\ RowsAsBefore /\ QuietStep /\ CopiesKept /\ CoreInv'
<1> DEFINE b == inbox[r]
           alive == {i \in DOMAIN b.items : Present(b.items[i])}
           orphans == IF source = "revoked" THEN OfSource(b) ELSE {}
<1>1. /\ b \in Boxes /\ BoxOK(b, Len(queue)) /\ Len(queue) \in Nat /\ b.lock = 0
  BY CoreFacts DEF CoreInv, BoxesOK, SweepRecipient
<1>2. PICK expired \in SUBSET alive :
        /\ IF expired = {} THEN UNCHANGED moves ELSE Move
        /\ inbox' = [inbox EXCEPT ![r] = Tombstoned(b, expired \cup orphans)]
  BY DEF SweepRecipient
<1> DEFINE S == expired \cup orphans
           b2 == Tombstoned(b, S)
<1>3. S \in SUBSET DOMAIN b.items /\ \A i \in S : Present(b.items[i])
  BY DEF OfSource
<1>4. inbox' = [inbox EXCEPT ![r] = b2]
  BY <1>2
<1>5. UNCHANGED <<queue, source, job>> /\ copy' = [copy EXCEPT ![r].swept = TRUE]
  BY DEF SweepRecipient
<1>6. moves' \in Nat
  BY <1>2, MoveIsNat
<1> HIDE DEF alive, orphans, S, b
<1>7. Wrote(b, b2, Len(queue)) /\ Steady(b, b2) /\ Quiet(b, b2)
  BY <1>1, <1>3, TombstonedKeeps
<1>8. copy' \in [Recipients -> Copies] /\ CopiesKept
  BY <1>5, SweptOnly
<1> HIDE DEF b2
<1> QED BY <1>1, <1>4, <1>5, <1>6, <1>7, <1>8, OneInboxOnly DEF b, Steady

LEMMA PatchStep ==
  ASSUME CoreInv, NEW r \in Recipients, NEW i, NEW p \in Patches, PatchItem(r, i, p)
  PROVE  StepOK /\ RowsAsBefore /\ QuietStep /\ CopiesKept /\ CoreInv'
<1> DEFINE b == inbox[r]
           b2 == AfterPatch(b, i, p)
           S == {i}
           key == [j \in S |-> j]
           new == [j \in S |-> Patched(b.items[i], p)]
<1>1. /\ b \in Boxes /\ BoxOK(b, Len(queue)) /\ Len(queue) \in Nat /\ b.lock = 0
      /\ i \in DOMAIN b.items /\ Present(b.items[i])
      /\ Open(Patched(b.items[i], p)) => OpenIn(b, b.items[i].group) \subseteq {i}
  BY CoreFacts DEF CoreInv, BoxesOK, PatchItem
<1>2. inbox' = [inbox EXCEPT ![r] = b2]
  <2>1. b2 = Bumped(b, S, key, new)
    BY DEF AfterPatch
  <2>2. \A j \in S : new[j] = Patched(b.items[j], p)
    OBVIOUS
  <2>3. \A j \in S : RankOf(S, key, j) = Cardinality({y \in S : y =< j})
    <3>1. \A j \in S : {y \in S : y =< j} = {y \in S : key[y] =< key[j]}
      OBVIOUS
    <3> QED BY <3>1 DEF RankOf
  <2> HIDE DEF key, new, b2, b
  <2> QED BY <2>1, <2>2, <2>3 DEF PatchItem, Changed, Rank, Bumped, b
<1> HIDE DEF S, key, new, b
<1>3. Wrote(b, b2, Len(queue)) /\ Steady(b, b2) /\ Quiet(b, b2)
  BY <1>1, PatchKeeps
<1> HIDE DEF b2
<1>4. UNCHANGED <<queue, source, job>> /\ copy' = [copy EXCEPT ![r].swept = FALSE] /\ Move
  BY DEF PatchItem
<1>5. moves' \in Nat
  BY <1>4, MoveIsNat
<1>6. copy' \in [Recipients -> Copies] /\ CopiesKept
  BY <1>4, SweptOnly
<1> QED BY <1>1, <1>2, <1>3, <1>4, <1>5, <1>6, OneInboxOnly DEF b, Steady

(* A bulk mark-read touches what it selects.                                     *)
LEMMA BulkStep ==
  ASSUME CoreInv, NEW r \in Recipients, BulkMarkRead(r)
  PROVE  /\ StepOK /\ RowsAsBefore /\ CopiesKept /\ CoreInv'
         /\ \A q \in Recipients : \A i \in DOMAIN inbox[q].items :
              ~(q = r /\ i \in BulkSelection(r)) => inbox'[q].items[i] = inbox[q].items[i]
<1> DEFINE b == inbox[r]
           S == BulkSelection(r)
           b2 == AfterBulk(b, S)
           key == [i \in S |-> b.items[i].seq]
           new == [i \in S |-> BulkRead(b.items[i])]
<1>1. /\ b \in Boxes /\ BoxOK(b, Len(queue)) /\ Len(queue) \in Nat /\ b.lock = 0
      /\ S \in SUBSET DOMAIN b.items /\ \A i \in S : Present(b.items[i])
  BY CoreFacts DEF CoreInv, BoxesOK, BulkMarkRead, BulkSelection
<1> HIDE DEF S
<1>2. inbox' = [inbox EXCEPT ![r] = b2]
  <2>1. b2 = Bumped(b, S, key, new)
    BY DEF AfterBulk
  <2>2. \A i \in S : new[i] = [b.items[i] EXCEPT !.read = "bulk", !.marked = FALSE]
    BY DEF BulkRead
  <2>3. \A i \in S : RankOf(S, key, i) = Cardinality({y \in S : b.items[y].seq =< b.items[i].seq})
    <3>1. \A i \in S : {y \in S : b.items[y].seq =< b.items[i].seq}
                         = {y \in S : key[y] =< key[i]}
      OBVIOUS
    <3> QED BY <3>1 DEF RankOf
  <2> HIDE DEF key, new, b2, b
  <2> QED BY <2>1, <2>2, <2>3, ZenonT(60) DEF BulkMarkRead, Changed, Rank, Bumped, b, S
<1> HIDE DEF key, new, b
<1>3. /\ Wrote(b, b2, Len(queue)) /\ Steady(b, b2)
      /\ \A i \in DOMAIN b.items \ S : b2.items[i] = b.items[i]
  BY <1>1, BulkKeeps
<1> HIDE DEF b2
<1>4. UNCHANGED <<queue, source, job>> /\ copy' = [copy EXCEPT ![r].swept = FALSE] /\ Move
  BY DEF BulkMarkRead
<1>5. moves' \in Nat
  BY <1>4, MoveIsNat
<1>6. copy' \in [Recipients -> Copies] /\ CopiesKept
  BY <1>4, SweptOnly
<1>7. /\ StepOK /\ RowsAsBefore /\ CoreInv'
      /\ inbox'[r] = b2 /\ \A q \in Recipients : q # r => inbox'[q] = inbox[q]
  <2>1. /\ inbox' = [inbox EXCEPT ![r] = b2] /\ Wrote(inbox[r], b2, Len(queue))
        /\ b2.viewed = inbox[r].viewed /\ b2.lock = 0
        /\ DOMAIN b2.items = DOMAIN inbox[r].items
        /\ \A i \in DOMAIN inbox[r].items : b2.items[i].gone = inbox[r].items[i].gone
    BY <1>1, <1>2, <1>3 DEF b, Steady
  <2> QED BY <1>4, <1>5, <1>6, <2>1, OneInboxOnly
<1> QED BY <1>3, <1>6, <1>7 DEF b, S

LEMMA PruneStep ==
  ASSUME CoreInv, NEW r \in Recipients, NEW S \in SUBSET DOMAIN inbox[r].items,
         PruneTombstones(r, S)
  PROVE  StepOK /\ RowsAsBefore /\ QuietStep /\ CopiesKept /\ CoreInv'
<1> DEFINE b == inbox[r]
           b2 == AfterPrune(b, S, FloorPast(b, S))
<1>1. /\ b \in Boxes /\ BoxOK(b, Len(queue)) /\ Len(queue) \in Nat /\ b.lock = 0
      /\ \A i \in S : b.items[i].removed
      /\ \A i \in S : \A e \in b.items[i].events : Finished(e)
  BY CoreFacts DEF CoreInv, BoxesOK, PruneTombstones, Prune, Finished
<1>2. inbox' = [inbox EXCEPT ![r] = b2]
  BY DEF PruneTombstones, Prune, AfterPrune, FloorPast
<1> HIDE DEF b2
<1>3. /\ Wrote(b, b2, Len(queue)) /\ Quiet(b, b2)
      /\ b2.viewed = b.viewed /\ b2.lock = b.lock /\ DOMAIN b2.items = DOMAIN b.items
      /\ \A i \in DOMAIN b.items \ S : b2.items[i] = b.items[i]
  BY <1>1, PruneKeeps DEF b2
<1>4. UNCHANGED <<queue, source, job, copy>> /\ Move
  BY DEF PruneTombstones, Prune
<1>5. moves' \in Nat
  BY <1>4, MoveIsNat
<1>6. copy' \in [Recipients -> Copies] /\ CopiesKept
  BY <1>4, CopiesUntouched
<1>7. \A i \in DOMAIN b.items : \/ b2.items[i].gone = b.items[i].gone
                                \/ \A e \in b.items[i].events : Finished(e)
  BY <1>1, <1>3
<1> QED BY <1>1, <1>2, <1>3, <1>4, <1>5, <1>6, <1>7, OneInboxOnly

--------------------------------------------------------------------------------
(* Reach: how far each event has got.                                            *)

ReachedNext(r, e) ==
  \/ Received(inbox'[r], e)
  \/ \E i \in DOMAIN inbox'[r].items : inbox'[r].items[i].gone
  \/ queue'[e].op = "publish" /\ source' = "revoked"
TurnedAwayNext(e) ==
  queue'[e].op = "publish" /\ source' # "active" /\ queue'[e].event = "rejected"

(* RowOK of the next state.                                                      *)
RowNext(e) ==
  queue'[e].op \in {"rule", "publish"} =>
    /\ queue'[e].state = "done" =>
         TurnedAwayNext(e) \/ \A r \in Recipients : ReachedNext(r, e)
    /\ \A r \in Recipients : r =< queue'[e].resume => ReachedNext(r, e)
    /\ \A w \in Projectors : job'[w].row = e =>
         \A r \in Recipients : r =< job'[w].resume => ReachedNext(r, e)

LEMMA RowsNext ==
  ASSUME \A e \in DOMAIN queue' : RowNext(e)
  PROVE  RowsReach'
BY DEF RowsReach, RowOK, Reached, TurnedAway, RowNext, ReachedNext, TurnedAwayNext

(* What has reached a recipient stays there, or was there and was pruned.        *)
LEMMA ReachedStays ==
  ASSUME CoreInv, StepOK, NEW r \in Recipients, NEW e \in DOMAIN queue, Reached(r, e)
  PROVE  ReachedNext(r, e)
<1>1. QueueStep /\ BoxMove(inbox[r], inbox'[r])
  BY DEF StepOK, BoxStep, Wrote
<1>2. CASE queue[e].op = "publish" /\ source = "revoked"
  BY <1>1, <1>2 DEF QueueStep, ReachedNext
<1>3. CASE \E i \in DOMAIN inbox[r].items :
             e \in inbox[r].items[i].events \/ inbox[r].items[i].gone
  <2>1. PICK i \in DOMAIN inbox[r].items :
          e \in inbox[r].items[i].events \/ inbox[r].items[i].gone
    BY <1>3
  <2>2. i \in DOMAIN inbox'[r].items /\ ItemMove(inbox[r].items[i], inbox'[r].items[i], inbox[r])
    BY <1>1 DEF BoxMove
  <2>3. e \in inbox'[r].items[i].events \/ inbox'[r].items[i].gone
    BY <2>1, <2>2 DEF ItemMove
  <2> QED BY <2>2, <2>3 DEF ReachedNext, Received
<1> QED BY <1>2, <1>3 DEF Reached, Received

(* A step that settles no row.                                                   *)
LEMMA ReachStays ==
  ASSUME CoreInv, StepOK, RowsAsBefore, RowsReach
  PROVE  RowsReach'
<1> SUFFICES ASSUME NEW e \in DOMAIN queue', queue'[e].op \in {"rule", "publish"}
             PROVE  RowNext(e)
  BY RowsNext DEF RowNext
<1>1. \A r \in Recipients : r \in Nat /\ r > 0 /\ ~(r =< 0)
  BY InboxConstants
<1>2. e \in DOMAIN queue => queue'[e].op = queue[e].op /\ RowOK(e)
  BY DEF StepOK, QueueStep, RowsReach
<1>3. e \in DOMAIN queue => \A r \in Recipients : Reached(r, e) => ReachedNext(r, e)
  BY ReachedStays
<1>4. queue'[e].state = "done" => TurnedAwayNext(e) \/ \A r \in Recipients : ReachedNext(r, e)
  <2> SUFFICES ASSUME queue'[e].state = "done"
               PROVE  TurnedAwayNext(e) \/ \A r \in Recipients : ReachedNext(r, e)
    OBVIOUS
  <2>1. e \in DOMAIN queue /\ queue[e].state = "done" /\ queue'[e].event = queue[e].event
    BY DEF RowsAsBefore
  <2>2. TurnedAway(e) => TurnedAwayNext(e)
    BY <1>2, <2>1 DEF TurnedAway, TurnedAwayNext, StepOK, QueueStep
  <2> QED BY <1>2, <1>3, <2>1, <2>2 DEF RowOK
<1>5. ASSUME NEW r \in Recipients, r =< queue'[e].resume
      PROVE  ReachedNext(r, e)
  <2>1. queue'[e].resume # 0 => e \in DOMAIN queue /\ queue'[e].resume = queue[e].resume
    BY DEF RowsAsBefore
  <2> QED BY <1>1, <1>2, <1>3, <1>5, <2>1 DEF RowOK
<1>6. ASSUME NEW r \in Recipients, NEW w \in Projectors, job'[w].row = e, r =< job'[w].resume
      PROVE  ReachedNext(r, e)
  <2>1. e # 0
    BY QueueFacts, LenProperties DEF StepOK, QueueStep, QueueTypes
  <2>2. JobStep(w) /\ JobOK(w)
    BY DEF StepOK, CoreInv, JobsOK
  <2>3. CASE job[w].row = e /\ job'[w].resume = job[w].resume
    <3>1. e \in DOMAIN queue
      BY <2>1, <2>2, <2>3 DEF JobOK
    <3> QED BY <1>2, <1>3, <1>6, <2>3, <3>1 DEF RowOK
  <2>4. CASE e \in DOMAIN queue /\ job'[w].resume = queue[e].resume
    BY <1>2, <1>3, <1>6, <2>4 DEF RowOK
  <2> QED BY <1>1, <1>6, <2>1, <2>2, <2>3, <2>4 DEF JobStep
<1> QED BY <1>4, <1>5, <1>6 DEF RowNext

(* The page reaches everyone up to its last recipient, and everyone when it is   *)
(* empty.                                                                        *)
LEMMA PageIsNext ==
  ASSUME NEW resume \in Nat, NEW p, p = PageAfter(resume)
  PROVE  /\ p \subseteq Recipients
         /\ p = {} => \A r \in Recipients : r =< resume
         /\ p # {} => /\ Max(p) \in p
                      /\ \A r \in Recipients : r =< Max(p) => r =< resume \/ r \in p
<1> DEFINE S == {q \in Recipients : q > resume}
           key == [q \in S |-> q]
           upto(r) == {q \in Recipients : resume < q /\ q =< r}
<1>1. IsFiniteSet(S) /\ S \subseteq Nat /\ p \subseteq S /\ S \subseteq Recipients
  <2>1. S \in SUBSET Recipients /\ p \subseteq S
    BY InboxConstants DEF PageAfter
  <2> QED BY <2>1, InboxConstants, FS_Subset
<1>2. \A r \in S : RankOf(S, key, r) = Cardinality(upto(r))
  <2>1. \A r \in S : {q \in S : key[q] =< key[r]} = upto(r)
    BY InboxConstants
  <2> QED BY <2>1 DEF RankOf
<1>3. \A r \in S : r \in p <=> RankOf(S, key, r) =< Page
  BY <1>1, <1>2 DEF PageAfter
<1>4. \A r \in S : key[r] = r
  OBVIOUS
<1>5. \A r \in Recipients : r =< resume \/ r \in S
  BY InboxConstants
<1> HIDE DEF S, key, upto
<1>6. \A r \in S : key[r] \in Int
  BY <1>1, <1>4
<1>7. \A q, r \in S : key[q] = key[r] => q = r
  BY <1>4
<1>8. /\ Cardinality(S) \in Nat
      /\ \A r \in S : RankOf(S, key, r) \in 1 .. Cardinality(S)
      /\ \A q, r \in S : key[q] < key[r] => RankOf(S, key, q) < RankOf(S, key, r)
      /\ S # {} => \E r \in S : RankOf(S, key, r) = 1
  BY <1>1, <1>6, <1>7, RanksInOrder
<1>9. p = {} => S = {}
  BY <1>3, <1>8, InboxConstants
<1>10. ASSUME p # {}
       PROVE  Max(p) \in p /\ \A r \in Recipients : r =< Max(p) => r =< resume \/ r \in p
  <2>1. IsFiniteSet(p) /\ p \subseteq Int
    <3>1. p \in SUBSET S /\ IsFiniteSet(S) /\ S \subseteq Int
      BY <1>1
    <3> QED BY <3>1, FS_Subset
  <2>2. Max(p) \in p
    BY <1>10, <2>1, LargestOfSome
  <2> DEFINE m == Max(p)
  <2> HIDE DEF m
  <2>3. m \in S /\ RankOf(S, key, m) =< Page
    BY <1>1, <1>3, <2>2 DEF m
  <2>4. \A r \in S : r =< m => r \in p
    <3> SUFFICES ASSUME NEW r \in S, r =< m PROVE RankOf(S, key, r) =< Page
      BY <1>3
    <3>1. r = m \/ key[r] < key[m]
      BY <1>1, <1>4, <2>3
    <3>2. RankOf(S, key, r) \in Nat /\ RankOf(S, key, m) \in Nat
      BY <1>8, <2>3
    <3> QED BY <1>8, <2>3, <3>1, <3>2, InboxConstants
  <2> QED BY <1>5, <2>2, <2>4 DEF m
<1> QED BY <1>1, <1>5, <1>9, <1>10

LEMMA CommitReaches ==
  ASSUME CoreInv, RowsReach, NEW w \in Projectors, CommitProjection(w)
  PROVE  RowsReach'
<1> DEFINE e == job[w].row
           p == job[w].page
<1>1. /\ StepOK /\ CoreInv' /\ RowCommitted(w)
      /\ \A r \in p : Received(inbox'[r], e)
  BY CommitStep
<1>2. /\ JobOK(w) /\ job[w].resume \in Nat /\ e # 0
      /\ job[w].phase \in {"open", "rejected"} /\ e \in DOMAIN queue
  <2>1. job[w] \in Jobs /\ JobOK(w)
    BY CoreFacts DEF CoreInv, JobsOK
  <2>2. job[w].phase \in {"open", "rejected"}
    BY DEF CommitProjection
  <2>3. job[w].resume \in Nat
    <3>1. job[w].resume \in Recipients \cup {0}
      BY <2>1, JobFacts
    <3>2. Recipients \cup {0} \subseteq Nat
      BY InboxConstants
    <3> QED BY <3>1, <3>2
  <2>4. e # 0 /\ e \in DOMAIN queue
    BY <2>1, <2>2 DEF JobOK
  <2> QED BY <2>1, <2>2, <2>3, <2>4
<1>3. job'[w].row = 0 /\ \A v \in Projectors : v # w => job'[v] = job[v]
  <2>1. job' = [job EXCEPT ![w] = AtRest] /\ job \in [Projectors -> Jobs]
    BY DEF CommitProjection, CoreInv, InboxTypes
  <2> QED BY <2>1, RestIsJob
<1>4. \A d \in DOMAIN queue, r \in Recipients : Reached(r, d) => ReachedNext(r, d)
  BY <1>1, ReachedStays
<1>5. \A r \in p : ReachedNext(r, e)
  BY <1>1 DEF ReachedNext
<1>6. /\ DOMAIN queue' = DOMAIN queue
      /\ \A d \in DOMAIN queue : d # e => queue'[d] = queue[d]
      /\ \A d \in DOMAIN queue : queue'[d].op = queue[d].op
      /\ \/ /\ queue'[e].state = "pending" /\ p # {} /\ queue'[e].resume = Max(p)
         \/ /\ queue'[e].state = "done" /\ queue'[e].resume = 0
            /\ p # {} => \A r \in Recipients : ~(r > Max(p))
      /\ job[w].phase = "rejected" => queue'[e].event = "rejected"
  BY <1>1 DEF RowCommitted, StepOK, QueueStep
<1>7. source' = source
  BY DEF CommitProjection
<1> HIDE DEF e, p
<1>8. ASSUME job[w].phase = "rejected", queue[e].op \in {"rule", "publish"}
      PROVE  TurnedAwayNext(e) /\ \A r \in Recipients : ~(r =< queue'[e].resume)
  <2>1. p = {} /\ queue[e].op # "rule" /\ source # "active"
    BY <1>2, <1>8 DEF JobOK, e, p
  <2>2. queue'[e].state = "done" /\ queue'[e].resume = 0
    BY <1>6, <2>1
  <2>3. TurnedAwayNext(e)
    BY <1>2, <1>6, <1>7, <1>8, <2>1 DEF TurnedAwayNext
  <2>4. \A r \in Recipients : ~(r =< 0)
    BY InboxConstants
  <2> QED BY <2>2, <2>3, <2>4
<1>9. ASSUME job[w].phase = "open", queue[e].op \in {"rule", "publish"}, NEW r \in Recipients,
             queue'[e].state = "done" \/ r =< queue'[e].resume
      PROVE  ReachedNext(r, e)
  <2>1. r \in Nat /\ ~(r =< 0)
    BY InboxConstants
  <2>2. p = PageAfter(job[w].resume)
    BY <1>2, <1>9 DEF JobOK, e, p
  <2>3. /\ p \subseteq Recipients
        /\ p = {} => \A q \in Recipients : q =< job[w].resume
        /\ p # {} => /\ Max(p) \in p
                     /\ \A q \in Recipients : q =< Max(p) => q =< job[w].resume \/ q \in p
    BY <1>2, <2>2, PageIsNext
  <2>4. p # {} => Max(p) \in Nat
    BY <2>3, InboxConstants
  <2>5. r =< job[w].resume \/ r \in p
    BY <1>6, <1>9, <2>1, <2>3, <2>4
  <2>6. r =< job[w].resume => Reached(r, e)
    BY <1>2, <1>9 DEF RowsReach, RowOK, e
  <2> QED BY <1>2, <1>4, <1>5, <2>5, <2>6
<1>10. ASSUME NEW d \in DOMAIN queue, queue[d].op \in {"rule", "publish"}
       PROVE  RowNext(d)
  <2>1. RowOK(d) /\ d # 0
    BY CoreFacts, QueueFacts DEF RowsReach, CoreInv
  <2>2. /\ queue'[d].state = "done" => TurnedAwayNext(d) \/ \A r \in Recipients : ReachedNext(r, d)
        /\ \A r \in Recipients : r =< queue'[d].resume => ReachedNext(r, d)
    <3>1. CASE d = e /\ job[w].phase = "rejected"
      BY <1>8, <1>10, <3>1
    <3>2. CASE d = e /\ job[w].phase = "open"
      BY <1>9, <1>10, <3>2
    <3>3. CASE d # e
      <4>1. queue'[d] = queue[d] /\ (TurnedAway(d) => TurnedAwayNext(d))
        BY <1>6, <1>7, <3>3 DEF TurnedAway, TurnedAwayNext
      <4> QED BY <1>4, <1>10, <2>1, <4>1 DEF RowOK
    <3> QED BY <1>2, <3>1, <3>2, <3>3
  <2>3. \A r \in Recipients, v \in Projectors : job'[v].row = d =>
          (r =< job'[v].resume => ReachedNext(r, d))
    BY <1>3, <1>4, <1>10, <2>1 DEF RowOK
  <2> QED BY <2>2, <2>3 DEF RowNext
<1> QED BY <1>6, <1>10, RowsNext DEF RowNext

LEMMA RevokeReaches ==
  ASSUME CoreInv, RowsReach, RevokeSource
  PROVE  RowsReach'
<1>1. StepOK /\ RowsClosed
  BY RevokeStep
<1>2. job' = job
  BY DEF RevokeSource
<1>3. \A d \in DOMAIN queue, r \in Recipients : Reached(r, d) => ReachedNext(r, d)
  BY <1>1, ReachedStays
<1>4. \A d \in DOMAIN queue : queue'[d].op = queue[d].op
  BY <1>1 DEF StepOK, QueueStep
<1>5. ASSUME NEW d \in DOMAIN queue, queue[d].op \in {"rule", "publish"}
      PROVE  RowNext(d)
  <2>1. RowOK(d)
    BY DEF RowsReach
  <2>2. CASE queue[d].op = "publish"
    BY <1>1, <1>4, <2>2 DEF RowNext, ReachedNext, RowsClosed
  <2>3. CASE queue[d].op = "rule"
    <3>1. queue'[d].state = "done" => queue[d].state = "done"
      BY <1>1, <2>3 DEF RowsClosed
    <3>2. ~TurnedAway(d) /\ queue'[d].resume = queue[d].resume
      BY <1>1, <2>3 DEF TurnedAway, RowsClosed
    <3> QED BY <1>2, <1>3, <2>1, <2>3, <3>1, <3>2 DEF RowOK, RowNext
  <2> QED BY <1>5, <2>2, <2>3
<1> QED BY <1>1, <1>4, <1>5, RowsNext DEF RowNext, RowsClosed

--------------------------------------------------------------------------------
(* Places: every item of an inbox has an event of its own.                       *)

LEMMA PlacesStay ==
  ASSUME CoreInv, StepOK, Places
  PROVE  Places'
<1> DEFINE after(f, r) ==
      /\ \A i, j \in DOMAIN inbox'[r].items : f[i] = f[j] => i = j
      /\ \A i \in DOMAIN inbox'[r].items :
           IF inbox'[r].items[i].gone
           THEN /\ queue'[f[i]].state \in {"done", "dead"}
                /\ \A w \in Projectors : job'[w].row # f[i]
           ELSE f[i] \in inbox'[r].items[i].events
<1> SUFFICES ASSUME NEW r \in Recipients
             PROVE  \E f \in [DOMAIN inbox'[r].items -> DOMAIN queue'] : after(f, r)
  BY DEF Places, PlacesOK, PlaceOf, Finished
<1> DEFINE b  == inbox[r]
           b2 == inbox'[r]
<1>1. PICK f \in [DOMAIN b.items -> DOMAIN queue] : PlaceOf(f, r)
  BY DEF Places, PlacesOK
<1>2. /\ DOMAIN queue \subseteq DOMAIN queue' /\ BoxStep(r)
      /\ BoxMove(b, b2) /\ b \in Boxes /\ b2 \in Boxes
      /\ \A e \in DOMAIN queue : Finished(e) =>
           /\ queue'[e].state \in {"done", "dead"}
           /\ \A w \in Projectors : job'[w].row # e
  BY CoreFacts DEF StepOK, QueueStep, BoxStep, Wrote, FinishedStays, Finished, CoreInv
<1>3. /\ \A i \in DOMAIN b.items : f[i] \in DOMAIN queue
      /\ \A i, j \in DOMAIN b.items : f[i] = f[j] => i = j
      /\ \A i \in DOMAIN b.items : b.items[i].gone => Finished(f[i])
      /\ \A i \in DOMAIN b.items : ~b.items[i].gone => f[i] \in b.items[i].events
  BY <1>1 DEF PlaceOf
<1>4. CASE /\ DOMAIN b2.items = DOMAIN b.items
           /\ \A i \in DOMAIN b.items :
                \/ b2.items[i].gone = b.items[i].gone
                \/ \A e \in b.items[i].events : Finished(e)
  <2>1. ASSUME NEW i \in DOMAIN b.items, b2.items[i].gone
        PROVE  Finished(f[i])
    BY <1>3, <1>4, <2>1
  <2>2. ASSUME NEW i \in DOMAIN b.items, ~b2.items[i].gone
        PROVE  f[i] \in b2.items[i].events
    <3>1. ItemMove(b.items[i], b2.items[i], b)
      BY <1>2 DEF BoxMove
    <3> QED BY <1>3, <2>2, <3>1 DEF ItemMove
  <2>3. after(f, r)
    BY <1>2, <1>3, <1>4, <2>1, <2>2
  <2>4. f \in [DOMAIN b2.items -> DOMAIN queue']
    <3>1. f = [i \in DOMAIN b2.items |-> f[i]]
      BY <1>1, <1>4
    <3>2. \A i \in DOMAIN b2.items : f[i] \in DOMAIN queue'
      BY <1>2, <1>3, <1>4
    <3> HIDE DEF b, b2
    <3> QED BY <3>1, <3>2
  <2> QED BY <2>3, <2>4
<1>5. CASE \E w \in Projectors : /\ job[w].row \in DOMAIN queue
                                 /\ ~Received(b, job[w].row)
                                 /\ Grown(b, b2, job[w].row)
  <2>1. PICK w \in Projectors : /\ job[w].row \in DOMAIN queue
                                /\ ~Received(b, job[w].row)
                                /\ Grown(b, b2, job[w].row)
    BY <1>5
  <2> DEFINE e == job[w].row
             k == Len(b.items) + 1
             g == [i \in DOMAIN b2.items |-> IF i = k THEN e ELSE f[i]]
  <2>2. /\ k \notin DOMAIN b.items /\ k \in DOMAIN b2.items
        /\ \A i \in DOMAIN b2.items : i = k \/ i \in DOMAIN b.items
        /\ \A i \in DOMAIN b.items : b2.items[i] = b.items[i]
        /\ b2.items[k].events = {e} /\ ~b2.items[k].gone
    <3>1. /\ Len(b.items) \in Nat /\ DOMAIN b.items = 1 .. Len(b.items)
          /\ DOMAIN b2.items = 1 .. Len(b2.items) /\ Len(b2.items) = k
      BY <1>2, <2>1, BoxFacts DEF Grown
    <3> QED BY <2>1, <3>1 DEF Grown
  <2>3. e \in DOMAIN queue /\ ~Finished(e) /\ \A i \in DOMAIN b.items : e \notin b.items[i].events
    BY <2>1 DEF Finished, Received
  <2>4. /\ g[k] = e
        /\ \A i \in DOMAIN b2.items : i # k => g[i] = f[i]
        /\ g = [i \in DOMAIN b2.items |-> g[i]]
    BY <2>2
  <2> HIDE DEF g, k, e
  <2>5. \A i \in DOMAIN b.items : f[i] # e
    BY <1>3, <2>3
  <2>6. \A i, j \in DOMAIN b2.items : g[i] = g[j] => i = j
    BY <1>3, <2>2, <2>4, <2>5
  <2>7. \A i \in DOMAIN b2.items :
          /\ b2.items[i].gone => Finished(g[i])
          /\ ~b2.items[i].gone => g[i] \in b2.items[i].events
          /\ g[i] \in DOMAIN queue
    BY <1>3, <2>2, <2>3, <2>4
  <2>8. after(g, r)
    BY <1>2, <2>6, <2>7
  <2>9. g \in [DOMAIN b2.items -> DOMAIN queue']
    <3>1. \A i \in DOMAIN b2.items : g[i] \in DOMAIN queue'
      BY <1>2, <2>7
    <3> HIDE DEF b, b2
    <3> QED BY <2>4, <3>1
  <2> QED BY <2>8, <2>9
<1> QED BY <1>2, <1>4, <1>5 DEF BoxStep

(* So an inbox has no more items than there are events.                          *)
LEMMA ItemsFit ==
  ASSUME CoreInv, Places, NEW r \in Recipients
  PROVE  DOMAIN inbox[r].items \subseteq 1 .. MaxEvents
<1> DEFINE m == Len(inbox[r].items)
           n == Len(queue)
<1>1. /\ inbox[r] \in Boxes /\ QueueTypes /\ n \in Nat /\ DOMAIN queue = 1 .. n
      /\ n =< MaxEvents /\ MaxEvents \in Nat
  BY CoreFacts, InboxConstants DEF CoreInv, QueueTypes
<1>2. m \in Nat /\ DOMAIN inbox[r].items = 1 .. m
  BY <1>1, BoxFacts
<1>3. PICK f \in [DOMAIN inbox[r].items -> DOMAIN queue] : PlaceOf(f, r)
  BY DEF Places, PlacesOK
<1> HIDE DEF m, n
<1>4. f \in Injection(1 .. m, 1 .. n)
  BY <1>1, <1>2, <1>3 DEF PlaceOf, Injection, IsInjective
<1>5. /\ IsFiniteSet(1 .. n) /\ Cardinality(1 .. n) = n /\ Cardinality(1 .. m) = m
  <2>1. 1 \in Int /\ m \in Int /\ n \in Int
    BY <1>1, <1>2
  <2>2. /\ IsFiniteSet(1 .. n)
        /\ Cardinality(1 .. n) = IF 1 > n THEN 0 ELSE n - 1 + 1
        /\ Cardinality(1 .. m) = IF 1 > m THEN 0 ELSE m - 1 + 1
    BY <2>1, FS_Interval, Zenon
  <2> QED BY <1>1, <1>2, <2>2
<1>6. Cardinality(1 .. m) =< Cardinality(1 .. n)
  BY <1>4, <1>5, FS_Injection
<1>7. m =< n
  BY <1>5, <1>6
<1> QED BY <1>1, <1>2, <1>7

--------------------------------------------------------------------------------
(* Copies: what a client holds.                                                  *)

CopyNext(r) ==
  /\ copy'[r].pos =< inbox'[r].seq
  /\ ~copy'[r].cold /\ ~(copy'[r].pos < inbox'[r].floor) =>
       \A i \in DOMAIN inbox'[r].items :
         inbox'[r].items[i].seq =< copy'[r].pos =>
           copy'[r].held[i] = IF Present(inbox'[r].items[i])
                              THEN Shown(inbox'[r].items[i]) ELSE Absent

LEMMA CopiesNext ==
  ASSUME \A r \in Recipients : CopyNext(r)
  PROVE  CopiesOK'
BY DEF CopiesOK, CopyOK, CopyNext, BelowFloor

(* What changes in an inbox is numbered past every copy, but for the tombstones  *)
(* that are pruned, of which no copy holds an item.                              *)
LEMMA CopiesStay ==
  ASSUME CoreInv, StepOK, CopiesKept, CopiesOK
  PROVE  CopiesOK'
<1> SUFFICES ASSUME NEW r \in Recipients PROVE CopyNext(r)
  BY CopiesNext
<1> DEFINE b  == inbox[r]
           b2 == inbox'[r]
<1>1. /\ BoxMove(b, b2) /\ b2 \in Boxes /\ b \in Boxes /\ copy[r] \in Copies /\ CopyOK(r)
      /\ copy'[r].cold = copy[r].cold /\ copy'[r].pos = copy[r].pos
      /\ copy'[r].held = copy[r].held
  BY CoreFacts DEF StepOK, BoxStep, Wrote, CopiesKept, CopiesOK, CoreInv
<1>2. /\ b.seq \in Nat /\ b2.seq \in Nat /\ b.floor \in Nat /\ b2.floor \in Nat
      /\ copy[r].pos \in Nat
      /\ \A i \in DOMAIN b.items : b.items[i] \in Items
      /\ \A i \in DOMAIN b2.items : b2.items[i] \in Items
  BY <1>1, BoxFacts DEF Copies
<1>3. copy'[r].pos =< b2.seq
  BY <1>1, <1>2 DEF BoxMove, CopyOK
<1>4. ASSUME ~copy'[r].cold, ~(copy'[r].pos < b2.floor),
             NEW i \in DOMAIN b2.items, b2.items[i].seq =< copy'[r].pos
      PROVE  copy'[r].held[i] = IF Present(b2.items[i]) THEN Shown(b2.items[i]) ELSE Absent
  <2>1. ~BelowFloor(r)
    BY <1>1, <1>2, <1>4 DEF BoxMove, BelowFloor
  <2>2. b2.items[i].seq \in Nat /\ ~(b2.items[i].seq > b.seq)
    BY <1>1, <1>2, <1>4, ItemFacts DEF CopyOK
  <2>3. i \in DOMAIN b.items /\ ItemMove(b.items[i], b2.items[i], b)
    BY <1>1, <2>2 DEF BoxMove
  <2>4. CASE b2.items[i] = b.items[i]
    BY <1>1, <1>4, <2>1, <2>3, <2>4 DEF CopyOK
  <2>5. CASE b.items[i].removed /\ b2.items[i].removed /\ b2.items[i].seq = b.items[i].seq
    BY <1>1, <1>4, <2>1, <2>3, <2>5 DEF CopyOK, Present
  <2> QED BY <2>2, <2>3, <2>4, <2>5 DEF ItemMove
<1> QED BY <1>3, <1>4 DEF CopyNext

LEMMA ShownIsShow ==
  /\ Absent \in Shows
  /\ \A x \in Items : Shown(x) \in Shows
<1> SUFFICES ASSUME NEW x \in Items PROVE Shown(x) \in Shows
  BY DEF Shows
<1>1. /\ x.count \in Nat /\ (x.read # "no") \in BOOLEAN /\ x.closed \in BOOLEAN
      /\ x.status \in ItemStatuses
  BY ItemFacts
<1> QED BY <1>1 DEF Shown, Shows

(* Only copies change.                                                           *)
LEMMA OnlyCopies ==
  ASSUME CoreInv, copy' \in [Recipients -> Copies],
         UNCHANGED <<queue, source, inbox, job, moves>>
  PROVE  StepOK /\ RowsAsBefore /\ QuietStep /\ CoreInv'
<1>1. QueueStep /\ RowsAsBefore
  BY CoreFacts, QueueUntouched DEF CoreInv
<1>2. FinishedStays
  BY DEF FinishedStays, Finished
<1>3. StepOK
  BY <1>1, <1>2, InboxUntouched DEF StepOK, JobStep
<1>4. \A w \in Projectors : JobOK(w)'
  BY <1>1, JobStays
<1>5. \A r \in Recipients : LockOK(r)'
  BY LockStays
<1>6. InboxTypes'
  BY <1>1 DEF CoreInv, InboxTypes, QueueStep
<1>7. QuietStep
  BY DEF QuietStep, Quiet
<1> QED BY <1>1, <1>3, <1>4, <1>5, <1>6, <1>7, BoxesStay DEF CoreInv, JobsOK

(* One client gets an answer.                                                    *)
LEMMA Answering ==
  ASSUME CoreInv, CopiesOK, NEW r \in Recipients, NEW c \in Copies,
         copy' = [copy EXCEPT ![r] = c],
         UNCHANGED <<queue, source, inbox, job, moves>>,
         c.pos =< inbox[r].seq,
         ~c.cold /\ ~(c.pos < inbox[r].floor) =>
           \A i \in DOMAIN inbox[r].items : inbox[r].items[i].seq =< c.pos =>
             c.held[i] = IF Present(inbox[r].items[i]) THEN Shown(inbox[r].items[i])
                         ELSE Absent
  PROVE  StepOK /\ RowsAsBefore /\ QuietStep /\ CoreInv' /\ CopiesOK'
<1>1. copy \in [Recipients -> Copies]
  BY DEF CoreInv, InboxTypes
<1>2. /\ copy' \in [Recipients -> Copies] /\ copy'[r] = c
      /\ \A q \in Recipients : q # r => copy'[q] = copy[q]
  BY <1>1
<1>3. \A q \in Recipients : CopyNext(q)
  <2>1. CopyNext(r)
    BY <1>2 DEF CopyNext
  <2>2. \A q \in Recipients : q # r => CopyNext(q)
    BY <1>2 DEF CopyNext, CopiesOK, CopyOK, BelowFloor
  <2> QED BY <2>1, <2>2
<1> QED BY <1>2, <1>3, OnlyCopies, CopiesNext

(* The copy after an answer of the server.                                       *)
Answers(pos, held) == [cold |-> FALSE, swept |-> FALSE, pos |-> pos, held |-> held]
LEMMA AnswersIsCopy ==
  ASSUME NEW pos \in Nat, NEW held \in [1 .. MaxEvents -> Shows]
  PROVE  /\ Answers(pos, held) \in Copies /\ ~Answers(pos, held).cold
         /\ Answers(pos, held).pos = pos /\ Answers(pos, held).held = held
BY DEF Answers, Copies

LEMMA ListItemsStep ==
  ASSUME CoreInv, Places, CopiesOK, NEW r \in Recipients, ListItems(r)
  PROVE  StepOK /\ RowsAsBefore /\ QuietStep /\ CoreInv' /\ CopiesOK'
<1> DEFINE b == inbox[r]
           shown(i) == IF i \in DOMAIN b.items /\ Present(b.items[i])
                       THEN Shown(b.items[i]) ELSE Absent
           held == [i \in 1 .. MaxEvents |-> shown(i)]
<1>1. b \in Boxes /\ b.seq \in Nat /\ DOMAIN b.items \subseteq 1 .. MaxEvents
      /\ \A i \in DOMAIN b.items : b.items[i] \in Items
  BY CoreFacts, BoxFacts, ItemsFit DEF CoreInv
<1>2. held \in [1 .. MaxEvents -> Shows]
  <2>1. \A i \in 1 .. MaxEvents : shown(i) \in Shows
    BY <1>1, ShownIsShow
  <2> HIDE DEF shown
  <2> QED BY <2>1
<1>3. copy' = [copy EXCEPT ![r] = Answers(b.seq, held)]
  BY DEF ListItems, Answer, Answers
<1>4. \A i \in DOMAIN b.items : held[i] = IF Present(b.items[i]) THEN Shown(b.items[i]) ELSE Absent
  BY <1>1
<1>5. UNCHANGED <<queue, source, inbox, job, moves>>
  BY DEF ListItems
<1>6. b.seq =< b.seq
  BY <1>1
<1> DEFINE a == Answers(b.seq, held)
<1> HIDE DEF held
<1>7. a \in Copies /\ ~a.cold /\ a.pos = b.seq /\ a.held = held
  BY <1>1, <1>2, AnswersIsCopy
<1>8. copy' = [copy EXCEPT ![r] = a]
  BY <1>3
<1> HIDE DEF a
<1> QED BY <1>1, <1>4, <1>5, <1>6, <1>7, <1>8, Answering

(* One page of changes, and where it ends.                                       *)
News(b, pos)     == {i \in DOMAIN b.items : ~b.items[i].gone /\ b.items[i].seq > pos}
Earlier(b, S, i) == Cardinality({j \in S : b.items[j].seq =< b.items[i].seq})
FirstNews(b, pos) ==
  {i \in News(b, pos) : Earlier(b, News(b, pos), i) =< Limit}
PosAfter(b, pos) ==
  IF FirstNews(b, pos) = News(b, pos) THEN b.seq
  ELSE Max({b.items[i].seq : i \in FirstNews(b, pos)})

LEMMA PageOfChanges ==
  ASSUME NEW b \in Boxes, NEW n \in Nat, BoxOK(b, n), NEW pos \in Nat, pos =< b.seq
  PROVE  /\ FirstNews(b, pos) \subseteq News(b, pos)
         /\ PosAfter(b, pos) \in Nat /\ PosAfter(b, pos) =< b.seq /\ pos =< PosAfter(b, pos)
         /\ \A i \in News(b, pos) :
              b.items[i].seq =< PosAfter(b, pos) => i \in FirstNews(b, pos)
<1> DEFINE S == News(b, pos)
           P == FirstNews(b, pos)
           key == [i \in S |-> b.items[i].seq]
<1>1. /\ b.seq \in Nat /\ S \subseteq DOMAIN b.items /\ IsFiniteSet(S) /\ P \subseteq S
      /\ \A i \in S : b.items[i].seq \in 1 .. b.seq /\ b.items[i].seq > pos
  <2>1. S \in SUBSET DOMAIN b.items /\ P \subseteq S
    BY DEF News, FirstNews
  <2>2. \A i \in S : b.items[i].seq \in 1 .. b.seq /\ b.items[i].seq > pos
    BY DEF News, BoxOK, ItemOK
  <2> HIDE DEF S, P
  <2> QED BY <2>1, <2>2, BoxFacts, FS_Subset
<1>2. \A i \in S : key[i] = b.items[i].seq
  OBVIOUS
<1>3. \A i \in S : RankOf(S, key, i) = Earlier(b, S, i)
  <2>1. \A i \in S : {j \in S : key[j] =< key[i]} = {j \in S : b.items[j].seq =< b.items[i].seq}
    OBVIOUS
  <2> QED BY <2>1 DEF RankOf, Earlier
<1>4. \A i \in S : i \in P <=> Earlier(b, S, i) =< Limit
  BY DEF FirstNews
<1> HIDE DEF S, P, key
<1>5. /\ \A i \in S : key[i] \in Int
      /\ \A i, j \in S : key[i] = key[j] => i = j
  BY <1>1, <1>2 DEF BoxOK, NumbersDiffer
<1>6. /\ Cardinality(S) \in Nat
      /\ \A i \in S : RankOf(S, key, i) \in 1 .. Cardinality(S)
      /\ \A i, j \in S : key[i] < key[j] => RankOf(S, key, i) < RankOf(S, key, j)
      /\ S # {} => \E i \in S : RankOf(S, key, i) = 1
  BY <1>1, <1>5, RanksInOrder
<1>7. CASE P = S
  <2>1. PosAfter(b, pos) = b.seq
    BY <1>7 DEF PosAfter, P, S
  <2> QED BY <1>1, <1>7, <2>1 DEF P, S
<1>8. CASE P # S
  <2> DEFINE T == {b.items[i].seq : i \in P}
  <2>1. PosAfter(b, pos) = Max(T)
    BY <1>8 DEF PosAfter, P, S
  <2>2. P # {}
    BY <1>1, <1>3, <1>4, <1>6, <1>8, InboxConstants
  <2>3. T \subseteq 1 .. b.seq /\ T # {}
    BY <1>1, <2>2
  <2>4. IsFiniteSet(T) /\ T \subseteq Int
    <3>1. 1 \in Int /\ b.seq \in Int
      BY <1>1
    <3>2. IsFiniteSet(1 .. b.seq)
      BY <3>1, FS_Interval, Zenon
    <3> HIDE DEF T
    <3>3. T \in SUBSET (1 .. b.seq) /\ T \subseteq Int
      BY <2>3
    <3> QED BY <3>2, <3>3, FS_Subset
  <2>5. Max(T) \in T
    BY <2>3, <2>4, LargestOfSome
  <2>6. PICK m \in P : Max(T) = b.items[m].seq
    BY <2>5
  <2>7. m \in S /\ Max(T) \in 1 .. b.seq /\ Max(T) > pos
    BY <1>1, <2>6
  <2>8. ASSUME NEW i \in S, b.items[i].seq =< Max(T)
        PROVE  i \in P
    <3>1. i = m \/ key[i] < key[m]
      <4>1. key[i] \in Int /\ key[m] \in Int /\ key[i] =< key[m]
        BY <1>2, <1>5, <2>6, <2>7, <2>8
      <4> QED BY <1>5, <2>7, <4>1
    <3>2. RankOf(S, key, i) \in Nat /\ RankOf(S, key, m) \in Nat
      BY <1>6, <2>7
    <3>3. RankOf(S, key, m) =< Limit
      BY <1>3, <1>4, <2>6, <2>7
    <3>4. RankOf(S, key, i) =< Limit
      BY <1>6, <2>7, <3>1, <3>2, <3>3, InboxConstants
    <3> QED BY <1>3, <1>4, <3>4
  <2> HIDE DEF T
  <2> QED BY <1>1, <2>1, <2>7, <2>8 DEF P, S
<1> QED BY <1>7, <1>8

LEMMA ListChangesStep ==
  ASSUME CoreInv, Places, CopiesOK, NEW r \in Recipients, ListChanges(r)
  PROVE  StepOK /\ RowsAsBefore /\ QuietStep /\ CoreInv' /\ CopiesOK'
<1> DEFINE b == inbox[r]
           c == copy[r]
           page == FirstNews(b, c.pos)
           pos == PosAfter(b, c.pos)
           shown(i) == IF i \notin page THEN c.held[i]
                       ELSE IF b.items[i].removed THEN Absent ELSE Shown(b.items[i])
           held == [i \in 1 .. MaxEvents |-> shown(i)]
<1>1. /\ b \in Boxes /\ BoxOK(b, Len(queue)) /\ Len(queue) \in Nat
      /\ b.seq \in Nat /\ DOMAIN b.items \subseteq 1 .. MaxEvents
      /\ \A i \in DOMAIN b.items : b.items[i] \in Items /\ ItemOK(b.items[i], b, Len(queue))
      /\ c \in Copies /\ c.pos \in Nat /\ c.held \in [1 .. MaxEvents -> Shows]
      /\ c.pos =< b.seq /\ CopyOK(r) /\ ~c.cold /\ b.floor \in Nat
  <2>1. c \in Copies /\ CopyOK(r) /\ ~c.cold /\ b \in Boxes /\ BoxOK(b, Len(queue))
    BY CoreFacts DEF CoreInv, BoxesOK, CopiesOK, ListChanges
  <2>2. c.pos \in Nat /\ c.held \in [1 .. MaxEvents -> Shows] /\ c.pos =< b.seq
    BY <2>1 DEF Copies, CopyOK
  <2>3. Len(queue) \in Nat /\ b.seq \in Nat /\ b.floor \in Nat
        /\ \A i \in DOMAIN b.items : b.items[i] \in Items
    BY <2>1, CoreFacts, BoxFacts DEF CoreInv
  <2>4. DOMAIN b.items \subseteq 1 .. MaxEvents
    BY ItemsFit
  <2> QED BY <2>1, <2>2, <2>3, <2>4 DEF BoxOK
<1>2. UNCHANGED <<queue, source, inbox, job, moves>>
  BY DEF ListChanges
<1>3. CASE BelowFloor(r)
  <2> DEFINE d == [c EXCEPT !.cold = TRUE, !.swept = FALSE]
  <2>1. d \in Copies /\ d.cold /\ d.pos = c.pos
    BY <1>1 DEF Copies
  <2>2. copy' = [copy EXCEPT ![r] = d]
    BY <1>3 DEF ListChanges
  <2> HIDE DEF d
  <2> QED BY <1>1, <1>2, <2>1, <2>2, Answering
<1>4. CASE ~BelowFloor(r)
  <2>1. copy' = [copy EXCEPT ![r] = Answers(pos, held)]
    BY <1>4 DEF Answers, ListChanges, Answer, Rank, PosAfter, FirstNews, Earlier, News
  <2>2. /\ page \subseteq News(b, c.pos) /\ pos \in Nat /\ pos =< b.seq /\ c.pos =< pos
        /\ \A i \in News(b, c.pos) : b.items[i].seq =< pos => i \in page
    BY <1>1, PageOfChanges
  <2> HIDE DEF page, pos
  <2>3. page \subseteq DOMAIN b.items /\ \A i \in page : ~b.items[i].gone /\ b.items[i].seq > c.pos
    BY <2>2 DEF News
  <2>4. held \in [1 .. MaxEvents -> Shows]
    <3>1. \A i \in 1 .. MaxEvents : shown(i) \in Shows
      BY <1>1, <2>3, ShownIsShow
    <3> HIDE DEF shown
    <3> QED BY <3>1
  <2>5. ASSUME NEW i \in DOMAIN b.items, b.items[i].seq =< pos
        PROVE  held[i] = IF Present(b.items[i]) THEN Shown(b.items[i]) ELSE Absent
    <3>1. held[i] = shown(i) /\ b.items[i].seq \in Nat
      BY <1>1, ItemFacts
    <3>2. CASE i \in page
      BY <2>3, <3>1, <3>2 DEF Present
    <3>3. CASE i \notin page
      <4>1. held[i] = c.held[i]
        BY <3>1, <3>3
      <4>2. b.items[i].gone => b.items[i].seq =< b.floor /\ ~(c.pos < b.floor)
        BY <1>1, <1>4 DEF ItemOK, BelowFloor
      <4>3. b.items[i].seq =< c.pos
        <5>1. CASE b.items[i].gone
          BY <1>1, <3>1, <4>2, <5>1
        <5>2. CASE ~b.items[i].gone
          <6>1. i \notin News(b, c.pos)
            BY <2>2, <2>5, <3>3
          <6> QED BY <1>1, <3>1, <5>2, <6>1 DEF News
        <5> QED BY <5>1, <5>2
      <4> QED BY <1>1, <1>4, <4>1, <4>3 DEF CopyOK
    <3> QED BY <3>2, <3>3
  <2> DEFINE a == Answers(pos, held)
  <2> HIDE DEF held
  <2>6. a \in Copies /\ ~a.cold /\ a.pos = pos /\ a.held = held
    BY <2>2, <2>4, AnswersIsCopy
  <2>7. copy' = [copy EXCEPT ![r] = a]
    BY <2>1
  <2> HIDE DEF a
  <2> QED BY <1>2, <2>2, <2>5, <2>6, <2>7, Answering
<1> QED BY <1>3, <1>4

--------------------------------------------------------------------------------
(* The inductive invariant.                                                      *)

InboxInv == CoreInv /\ RowsReach /\ Places /\ CopiesOK

LEMMA InboxStarts ==
  ASSUME InboxInit
  PROVE  InboxInv
<1> DEFINE box == [seq |-> 0, floor |-> 0, viewed |-> 0, lock |-> 0, items |-> <<>>]
           none == [i \in 1 .. MaxEvents |-> Absent]
           c == [cold |-> TRUE, swept |-> FALSE, pos |-> 0, held |-> none]
<1>1. <<>> \in Seq(Rows) /\ <<>> \in Seq(Items) /\ Len(<<>>) = 0 /\ DOMAIN <<>> = {}
  OBVIOUS
<1>2. box \in Boxes
  BY <1>1 DEF Boxes
<1>3. none \in [1 .. MaxEvents -> Shows]
  BY ShownIsShow
<1>4. c \in Copies /\ c.cold /\ c.pos = 0
  <2> HIDE DEF none
  <2> QED BY <1>3 DEF Copies
<1>5. /\ queue = <<>> /\ source = "active" /\ moves = 0
      /\ inbox = [r \in Recipients |-> box]
      /\ job = [w \in Projectors |-> AtRest]
      /\ copy = [r \in Recipients |-> c]
  BY DEF InboxInit
<1>6. box.seq = 0 /\ box.floor = 0 /\ box.viewed = 0 /\ box.lock = 0 /\ DOMAIN box.items = {}
  BY <1>1
<1> HIDE DEF box, c
<1>7. QueueTypes
  BY <1>1, <1>5, InboxConstants DEF QueueTypes
<1>8. InboxTypes
  BY <1>2, <1>4, <1>5, <1>7, RestIsJob DEF InboxTypes
<1>9. \A r \in Recipients : inbox[r] = box /\ copy[r] = c
  BY <1>5
<1>10. BoxesOK
  <2>1. BoxOK(box, Len(queue))
    BY <1>6 DEF BoxOK, NumbersDiffer, EventsDiffer, GroupsDiffer
  <2>2. box.viewed =< Activity
    BY <1>6, <1>7, ActivityIsNat
  <2> QED BY <1>9, <2>1, <2>2 DEF BoxesOK
<1>11. JobsOK
  <2>1. \A w \in Projectors : job[w] = AtRest
    BY <1>5
  <2> QED BY <1>6, <1>9, <2>1, RestIsJob DEF JobsOK, JobOK, LockOK
<1>12. RowsReach
  BY <1>1, <1>5 DEF RowsReach
<1>13. Places
  <2> SUFFICES ASSUME NEW r \in Recipients PROVE PlacesOK(r)
    BY DEF Places
  <2>1. DOMAIN inbox[r].items = {}
    BY <1>6, <1>9
  <2>2. [i \in {} |-> i] \in [DOMAIN inbox[r].items -> DOMAIN queue]
    BY <2>1
  <2> QED BY <2>1, <2>2 DEF PlacesOK, PlaceOf
<1>14. CopiesOK
  BY <1>4, <1>6, <1>9 DEF CopiesOK, CopyOK
<1> QED BY <1>8, <1>10, <1>11, <1>12, <1>13, <1>14 DEF InboxInv, CoreInv

LEMMA OrdinaryStep ==
  ASSUME InboxInv, StepOK, RowsAsBefore, CopiesKept, CoreInv'
  PROVE  InboxInv'
BY ReachStays, PlacesStay, CopiesStay DEF InboxInv

(* A step that leaves the inboxes and the copies alone.                          *)
LEMMA ElsewhereStep ==
  ASSUME InboxInv, StepOK, RowsAsBefore, CoreInv', UNCHANGED <<inbox, copy>>
  PROVE  InboxInv' /\ QuietStep
<1>1. CopiesKept
  BY CopiesUntouched DEF InboxInv
<1>2. QuietStep
  BY DEF QuietStep, Quiet
<1> QED BY <1>1, <1>2, OrdinaryStep

(* A step that leaves the copies alone.                                          *)
LEMMA WritingStep ==
  ASSUME InboxInv, StepOK, RowsAsBefore, CoreInv', copy' = copy
  PROVE  InboxInv'
<1>1. CopiesKept
  BY CopiesUntouched DEF InboxInv
<1> QED BY <1>1, OrdinaryStep

LEMMA InboxKept ==
  ASSUME InboxInv, [InboxNext]_inboxVars
  PROVE  InboxInv' /\ (QuietStep \/ \E r \in Readers : BulkMarkRead(r))
<1>1. CoreInv /\ RowsReach /\ Places /\ CopiesOK
  BY DEF InboxInv
<1>2. Readers \subseteq Recipients /\ 1 .. MaxEvents \subseteq Nat
  BY InboxConstants
<1>3. CASE UNCHANGED inboxVars
  <2>1. UNCHANGED <<queue, source, inbox, job, copy, moves>>
    BY <1>3 DEF inboxVars
  <2>2. copy' \in [Recipients -> Copies]
    BY <1>1, <2>1 DEF CoreInv, InboxTypes
  <2>3. StepOK /\ RowsAsBefore /\ CoreInv'
    BY <1>1, <2>1, <2>2, OnlyCopies
  <2> QED BY <2>1, <2>3, ElsewhereStep
<1>4. CASE CaptureEvent
  <2>1. StepOK /\ RowsAsBefore /\ CoreInv'
    BY <1>1, <1>4, CaptureStep
  <2> QED BY <1>4, <2>1, ElsewhereStep DEF CaptureEvent
<1>5. CASE \E op \in Ops : IngestProducerEvent(op)
  <2>1. PICK op \in Ops : IngestProducerEvent(op)
    BY <1>5
  <2>2. StepOK /\ RowsAsBefore /\ CoreInv'
    BY <1>1, <2>1, IngestStep
  <2> QED BY <2>1, <2>2, ElsewhereStep DEF IngestProducerEvent
<1>6. CASE \E e \in DOMAIN queue : LeaseLapses(e) \/ RetryFallsDue(e)
  <2>1. PICK e \in DOMAIN queue : LeaseLapses(e) \/ RetryFallsDue(e)
    BY <1>6
  <2>2. StepOK /\ RowsAsBefore /\ CoreInv'
    BY <1>1, <2>1, LapseStep, DueStep
  <2>3. UNCHANGED <<inbox, copy>>
    BY <2>1 DEF LeaseLapses, RetryFallsDue
  <2> QED BY <2>2, <2>3, ElsewhereStep
<1>7. CASE \E w \in Projectors, e \in DOMAIN queue : ClaimIntake(w, e)
  <2>1. PICK w \in Projectors, e \in DOMAIN queue : ClaimIntake(w, e)
    BY <1>7
  <2>2. StepOK /\ RowsAsBefore /\ CoreInv'
    BY <1>1, <2>1, ClaimStep
  <2> QED BY <2>1, <2>2, ElsewhereStep DEF ClaimIntake
<1>8. CASE \E w \in Projectors, r \in Recipients : LockRecipient(w, r)
  <2>1. PICK w \in Projectors, r \in Recipients : LockRecipient(w, r)
    BY <1>8
  <2>2. StepOK /\ RowsAsBefore /\ QuietStep /\ CoreInv'
    BY <1>1, <2>1, LockStep
  <2>3. copy' = copy
    BY <2>1 DEF LockRecipient
  <2> QED BY <2>2, <2>3, WritingStep
<1>9. CASE \E w \in Projectors : BeginProjection(w)
  <2>1. PICK w \in Projectors : BeginProjection(w)
    BY <1>9
  <2>2. StepOK /\ RowsAsBefore /\ CoreInv'
    BY <1>1, <2>1, BeginStep
  <2> QED BY <2>1, <2>2, ElsewhereStep DEF BeginProjection
<1>10. CASE \E w \in Projectors : CommitProjection(w)
  <2>1. PICK w \in Projectors : CommitProjection(w)
    BY <1>10
  <2>2. StepOK /\ QuietStep /\ CoreInv'
    BY <1>1, <2>1, CommitStep
  <2>3. RowsReach'
    BY <1>1, <2>1, CommitReaches
  <2>4. CopiesKept
    BY <1>1, <2>1, CopiesUntouched DEF CommitProjection
  <2> QED BY <1>1, <2>2, <2>3, <2>4, PlacesStay, CopiesStay DEF InboxInv
<1>11. CASE \E w \in Projectors : FailProjection(w)
  <2>1. PICK w \in Projectors : FailProjection(w)
    BY <1>11
  <2>2. StepOK /\ RowsAsBefore /\ QuietStep /\ CoreInv'
    BY <1>1, <2>1, FailStep
  <2> QED BY <2>1, <2>2, WritingStep DEF FailProjection
<1>12. CASE \E w \in Projectors : RecordFailure(w)
  <2>1. PICK w \in Projectors : RecordFailure(w)
    BY <1>12
  <2>2. StepOK /\ RowsAsBefore /\ CoreInv'
    BY <1>1, <2>1, RecordStep
  <2> QED BY <2>1, <2>2, ElsewhereStep DEF RecordFailure
<1>13. CASE \E w \in Projectors : CrashProjector(w)
  <2>1. PICK w \in Projectors : CrashProjector(w)
    BY <1>13
  <2>2. StepOK /\ RowsAsBefore /\ QuietStep /\ CoreInv'
    BY <1>1, <2>1, CrashStep
  <2> QED BY <2>1, <2>2, WritingStep DEF CrashProjector
<1>14. CASE DisableSource
  <2>1. StepOK /\ RowsAsBefore /\ CoreInv'
    BY <1>1, <1>14, DisableStep
  <2> QED BY <1>14, <2>1, ElsewhereStep DEF DisableSource
<1>15. CASE RevokeSource
  <2>1. StepOK /\ QuietStep /\ CoreInv'
    BY <1>1, <1>15, RevokeStep
  <2>2. RowsReach'
    BY <1>1, <1>15, RevokeReaches
  <2>3. CopiesKept
    BY <1>1, <1>15, CopiesUntouched DEF RevokeSource
  <2> QED BY <1>1, <2>1, <2>2, <2>3, PlacesStay, CopiesStay DEF InboxInv
<1>16. CASE \E r \in Readers, v \in 1 .. MaxEvents : ViewResource(r, v)
  <2>1. PICK r \in Readers, v \in 1 .. MaxEvents : ViewResource(r, v)
    BY <1>16
  <2>2. r \in Recipients /\ v \in Nat
    BY <1>2
  <2>3. StepOK /\ RowsAsBefore /\ QuietStep /\ CopiesKept /\ CoreInv'
    BY <1>1, <2>1, <2>2, ViewStep
  <2> QED BY <2>3, OrdinaryStep
<1>17. CASE \E r \in Readers : SweepRecipient(r)
  <2>1. PICK r \in Recipients : SweepRecipient(r)
    BY <1>2, <1>17
  <2>2. StepOK /\ RowsAsBefore /\ QuietStep /\ CopiesKept /\ CoreInv'
    BY <1>1, <2>1, SweepStep
  <2> QED BY <2>2, OrdinaryStep
<1>18. CASE \E r \in Readers : ListItems(r) \/ ListChanges(r)
  <2>1. PICK r \in Recipients : ListItems(r) \/ ListChanges(r)
    BY <1>2, <1>18
  <2>2. StepOK /\ RowsAsBefore /\ QuietStep /\ CoreInv' /\ CopiesOK'
    BY <1>1, <2>1, ListItemsStep, ListChangesStep
  <2> QED BY <1>1, <2>2, ReachStays, PlacesStay DEF InboxInv
<1>19. CASE \E r \in Readers : BulkMarkRead(r)
  <2>1. PICK r \in Recipients : BulkMarkRead(r)
    BY <1>2, <1>19
  <2>2. StepOK /\ RowsAsBefore /\ CopiesKept /\ CoreInv'
    BY <1>1, <2>1, BulkStep
  <2> QED BY <1>19, <2>2, OrdinaryStep
<1>20. CASE \E r \in Readers, i \in 1 .. MaxEvents, p \in Patches : PatchItem(r, i, p)
  <2>1. PICK r \in Recipients, i \in 1 .. MaxEvents, p \in Patches : PatchItem(r, i, p)
    BY <1>2, <1>20
  <2>2. StepOK /\ RowsAsBefore /\ QuietStep /\ CopiesKept /\ CoreInv'
    BY <1>1, <2>1, PatchStep
  <2> QED BY <2>2, OrdinaryStep
<1>21. CASE \E r \in Recipients : \E S \in SUBSET (DOMAIN inbox[r].items) : PruneTombstones(r, S)
  <2>0. PICK r \in Recipients : \E S \in SUBSET (DOMAIN inbox[r].items) : PruneTombstones(r, S)
    BY <1>21
  <2>1. PICK S \in SUBSET (DOMAIN inbox[r].items) : PruneTombstones(r, S)
    BY <2>0
  <2>2. StepOK /\ RowsAsBefore /\ QuietStep /\ CopiesKept /\ CoreInv'
    BY <1>1, <2>1, PruneStep
  <2> QED BY <2>2, OrdinaryStep
<1>22. \/ UNCHANGED inboxVars \/ CaptureEvent
       \/ \E op \in Ops : IngestProducerEvent(op)
       \/ \E e \in DOMAIN queue : LeaseLapses(e) \/ RetryFallsDue(e)
       \/ \E w \in Projectors, e \in DOMAIN queue : ClaimIntake(w, e)
       \/ \E w \in Projectors, r \in Recipients : LockRecipient(w, r)
       \/ \E w \in Projectors : BeginProjection(w)
       \/ \E w \in Projectors : CommitProjection(w)
       \/ \E w \in Projectors : FailProjection(w)
       \/ \E w \in Projectors : RecordFailure(w)
       \/ \E w \in Projectors : CrashProjector(w)
       \/ DisableSource
       \/ RevokeSource
       \/ \E r \in Readers, v \in 1 .. MaxEvents : ViewResource(r, v)
       \/ \E r \in Readers : SweepRecipient(r)
       \/ \E r \in Readers : ListItems(r) \/ ListChanges(r)
       \/ \E r \in Readers : BulkMarkRead(r)
       \/ \E r \in Readers, i \in 1 .. MaxEvents, p \in Patches : PatchItem(r, i, p)
       \/ \E r \in Recipients : \E S \in SUBSET (DOMAIN inbox[r].items) : PruneTombstones(r, S)
  BY DEF InboxNext
<1> QED BY <1>3, <1>4, <1>5, <1>6, <1>7, <1>8, <1>9, <1>10, <1>11, <1>12, <1>13, <1>14,
           <1>15, <1>16, <1>17, <1>18, <1>19, <1>20, <1>21, <1>22

LEMMA InboxInvariant == InboxSpec => []InboxInv
<1>1. InboxInit => InboxInv
  BY InboxStarts
<1>2. InboxInv /\ [InboxNext]_inboxVars => InboxInv'
  BY InboxKept
<1> QED BY <1>1, <1>2, PTL DEF InboxSpec

--------------------------------------------------------------------------------
(* What holds of NotificationInbox.                                              *)

LEMMA AtMostOneOpen ==
  ASSUME NEW b \in Boxes, GroupsDiffer(b), NEW g
  PROVE  Cardinality(OpenIn(b, g)) =< 1
<1>1. \A i, j \in OpenIn(b, g) : i = j
  BY DEF OpenIn, GroupsDiffer
<1>2. CASE OpenIn(b, g) = {}
  BY <1>2, FS_EmptySet
<1>3. CASE OpenIn(b, g) # {}
  <2>1. PICK i \in OpenIn(b, g) : OpenIn(b, g) = {i}
    BY <1>1, <1>3
  <2>2. Cardinality({i}) = 1
    BY FS_Singleton
  <2> QED BY <2>1, <2>2
<1> QED BY <1>2, <1>3

(* The queue, the inboxes, the locks and the copies hold what their tables may:  *)
(* in every inbox each item has a number of its own, at most one item of a group *)
(* is open, an item that is not pruned has its events, and a lock is held by a   *)
(* worker on its page only.                                                      *)
THEOREM InboxTyped == InboxSpec => []InboxTypeOK
<1>1. InboxInv => InboxTypeOK
  <2> SUFFICES ASSUME InboxInv PROVE InboxTypeOK
    OBVIOUS
  <2>1. CoreInv /\ QueueTypes /\ CopiesOK
    BY CoreFacts DEF InboxInv, CoreInv
  <2>2. \A e \in DOMAIN queue :
          /\ queue[e].state \in {"pending", "leased", "done", "dead"}
          /\ queue[e].attempts \in 0 .. MaxAttempts
          /\ queue[e].resume \in Recipients \cup {0}
          /\ queue[e].leased => queue[e].state = "leased"
    <3>1. \A q \in Rows : q.state \in States
      BY DEF Rows
    <3> QED BY <2>1, <3>1, QueueFacts DEF States, QueueTypes
  <2>3. \A r \in Recipients :
          /\ inbox[r].lock # 0 => r \in job[inbox[r].lock].page
          /\ inbox[r].floor =< inbox[r].seq /\ inbox[r].viewed =< Activity
          /\ copy[r].pos =< inbox[r].seq
    BY <2>1 DEF CoreInv, BoxesOK, BoxOK, JobsOK, LockOK, CopiesOK, CopyOK
  <2>4. ASSUME NEW r \in Recipients
        PROVE  /\ \A i, j \in DOMAIN inbox[r].items :
                    /\ inbox[r].items[i].seq \in 1 .. inbox[r].seq
                    /\ inbox[r].items[i].seq = inbox[r].items[j].seq => i = j
               /\ \A i \in DOMAIN inbox[r].items :
                    \/ inbox[r].items[i].gone
                    \/ inbox[r].items[i].events \in (SUBSET DOMAIN queue) \ {{}}
               /\ \A g \in {"thread", "app"} : Cardinality(OpenIn(inbox[r], g)) =< 1
    <3>1. BoxOK(inbox[r], Len(queue)) /\ inbox[r] \in Boxes /\ DOMAIN queue = 1 .. Len(queue)
      BY <2>1, CoreFacts DEF CoreInv, BoxesOK
    <3>2. /\ NumbersDiffer(inbox[r]) /\ GroupsDiffer(inbox[r])
          /\ \A i \in DOMAIN inbox[r].items : ItemOK(inbox[r].items[i], inbox[r], Len(queue))
      BY <3>1 DEF BoxOK
    <3> QED BY <3>1, <3>2, AtMostOneOpen DEF ItemOK, NumbersDiffer
  <2> QED BY <2>2, <2>3, <2>4 DEF InboxTypeOK
<1> QED BY <1>1, InboxInvariant, PTL

(* EachEventCountsOnce: workers that took one row over from each other, failed   *)
(* late or crashed before their commit never write an event twice, and no two    *)
(* items of an inbox share an event.                                             *)
THEOREM EventsCountOnce == InboxSpec => []EachEventCountsOnce
<1>1. InboxInv => EachEventCountsOnce
  BY DEF InboxInv, CoreInv, BoxesOK, BoxOK, ItemOK, EventsDiffer, EachEventCountsOnce
<1> QED BY <1>1, InboxInvariant, PTL

(* DoneMeansEveryRecipient: a row of the queue is done only when its event       *)
(* reached every recipient, whatever the size of a page and whoever committed.   *)
(* A rule's event has no exception; one of an external source has two, that the  *)
(* source was revoked, or disabled and the event itself says rejected.           *)
THEOREM DoneReachesAll == InboxSpec => []DoneMeansEveryRecipient
<1>1. InboxInv => DoneMeansEveryRecipient
  <2> SUFFICES ASSUME InboxInv, NEW e \in DOMAIN queue, queue[e].state = "done",
                      queue[e].op \in {"rule", "publish"}, NEW r \in Recipients
               PROVE  \/ Received(inbox[r], e)
                      \/ \E i \in DOMAIN inbox[r].items : inbox[r].items[i].gone
                      \/ /\ queue[e].op = "publish"
                         /\ \/ source = "revoked"
                            \/ source = "disabled" /\ queue[e].event = "rejected"
    BY DEF DoneMeansEveryRecipient
  <2>1. TurnedAway(e) \/ Reached(r, e)
    BY DEF InboxInv, RowsReach, RowOK
  <2>2. source \in {"active", "disabled", "revoked"}
    BY DEF InboxInv, CoreInv, InboxTypes, QueueTypes
  <2> QED BY <2>1, <2>2 DEF TurnedAway, Reached
<1> QED BY <1>1, InboxInvariant, PTL

(* ViewedItemsAreRead: whichever of a view and a projection committed first, no  *)
(* item of what was viewed is left unread.                                       *)
THEOREM ViewsReadItems == InboxSpec => []ViewedItemsAreRead
<1>1. InboxInv => ViewedItemsAreRead
  BY DEF InboxInv, CoreInv, BoxesOK, BoxOK, ItemOK, Unseen, ViewedItemsAreRead
<1> QED BY <1>1, InboxInvariant, PTL

(* CopyFollowsTheInbox: a client that applies what listChanges answers holds the *)
(* items of the server up to its position, or its position is below the floor.   *)
THEOREM CopiesFollow == InboxSpec => []CopyFollowsTheInbox
<1>1. InboxInv => CopyFollowsTheInbox
  BY DEF InboxInv, CopiesOK, CopyOK, CopyFollowsTheInbox
<1> QED BY <1>1, InboxInvariant, PTL

(* BulkReadsOnlyTheSeen: a bulk mark-read reads only items that its sender holds *)
(* with all the events they count.                                               *)
THEOREM BulkReadsTheSeen == InboxSpec => BulkReadsOnlyTheSeen
<1> DEFINE seen == \A r \in Recipients : \A i \in DOMAIN inbox[r].items :
                     inbox[r].items[i].read = "no" /\ inbox'[r].items[i].read = "bulk" =>
                       \/ copy[r].held[i].count = inbox[r].items[i].count
                       \/ BelowFloor(r)
<1>1. ASSUME InboxInv, [InboxNext]_inboxVars
      PROVE  seen
  <2>1. CASE QuietStep
    BY <2>1 DEF QuietStep, Quiet
  <2>2. CASE \E r \in Readers : BulkMarkRead(r)
    <3>1. PICK r \in Recipients : BulkMarkRead(r)
      BY <2>2, InboxConstants
    <3>2. \A q \in Recipients : \A i \in DOMAIN inbox[q].items :
            ~(q = r /\ i \in BulkSelection(r)) => inbox'[q].items[i] = inbox[q].items[i]
      BY <1>1, <3>1, BulkStep DEF InboxInv
    <3>3. ~copy[r].cold /\ CopyOK(r)
      BY <1>1, <3>1 DEF BulkMarkRead, InboxInv, CopiesOK
    <3>4. \A i \in BulkSelection(r) :
            copy[r].held[i].count = inbox[r].items[i].count \/ BelowFloor(r)
      <4> SUFFICES ASSUME NEW i \in BulkSelection(r), ~BelowFloor(r)
                   PROVE  copy[r].held[i].count = inbox[r].items[i].count
        OBVIOUS
      <4>1. /\ i \in DOMAIN inbox[r].items /\ Present(inbox[r].items[i])
            /\ inbox[r].items[i].seq =< copy[r].pos
        BY DEF BulkSelection
      <4>2. copy[r].held[i] = Shown(inbox[r].items[i])
        BY <3>3, <4>1 DEF CopyOK
      <4> QED BY <4>2 DEF Shown
    <3> QED BY <3>2, <3>4
  <2> QED BY <1>1, <2>1, <2>2, InboxKept
<1>2. InboxInv /\ [InboxNext]_inboxVars => [seen]_inboxVars
  BY <1>1
<1> QED BY <1>2, InboxInvariant, PTL DEF InboxSpec, BulkReadsOnlyTheSeen
=================================================================================
