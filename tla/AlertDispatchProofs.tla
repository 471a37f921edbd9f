------------------------- MODULE AlertDispatchProofs -------------------------
(* Theorems about AlertDispatch for every value of its constants.  The         *)
(* inductive invariant AInv adds to the properties that an open item write     *)
(* only adds alerts for which there is room, that an alert that is not there   *)
(* has no jobs, that the calls under way have been counted, and that a worker  *)
(* which still holds an alert it checked has checked the present owner.        *)
EXTENDS AlertDispatch, TLAPS, FiniteSetTheorems

\* What an open transaction will insert: a new generation of a pair that has no
\* queued alert and no later one, and is not looked at again.
WriterHasRoom ==
    writer # Idle =>
        \A k \in writer.adds :
            /\ k[2] \notin writer.left
            /\ alert[k].state = "none" /\ IsNewest(k)
            /\ \A n \in Keys : Later(k, n) => alert[n].state \notin Queued
            /\ \A n \in writer.adds : ~Later(n, k)

\* An alert that is not there has no attempts and no jobs.
AbsentIsIdle ==
    \A k \in Keys : alert[k].state = "none"
        => /\ alert[k].attempts = 0 /\ spent[k] = 0
           /\ \A w \in Workers : job[w][k].at = "idle"

\* Workers with a provider call that is under way or refused and not yet booked.
Calling(k) == {w \in Workers : job[w][k].at \in {"calling", "refused"}}
CallsAreCounted == \A k \in Keys : Cardinality(Calling(k)) <= spent[k]

\* A worker past the gate that still holds its alert has checked the token's
\* present owner.
GateStillHolds ==
    \A w \in Workers, k \in Keys :
        job[w][k].at \in {"reachable", "built"} /\ Holds(w, k)
        => transport[k[2]].actor = Recipient /\ transport[k[2]].status # "revoked"

VerdictsAreDecided ==
    \A w \in Workers, k \in Keys : job[w][k].at = "settling" => job[w][k].verdict # "none"

AInv ==
    /\ TypeOK
    /\ VerdictsAreDecided
    /\ OneQueuedAlert
    /\ WriterHasRoom
    /\ AbsentIsIdle
    /\ AttemptsMatchCalls
    /\ CallsAreCounted
    /\ GateStillHolds

------------------------------------------------------------------------------
(* How a step changes the queue                                               *)

\* What a step does to one alert: it inserts it, prunes it, moves it on while it
\* is queued, or leaves its state alone.
Inserts(k) ==
    writer # Idle /\ writer' = Idle /\ k \in writer.adds /\ alert'[k] = NewAlert
Prunes(k) ==
    /\ alert[k].state \in Settled /\ alert'[k] = NoAlert
    /\ ~Busy(k) /\ spent'[k] = 0 /\ job' = job
MovesOn(k) == alert[k].state \in Queued /\ alert'[k].state \in Queued \cup Settled
KeepsState(k) == alert'[k].state = alert[k].state

LEMMA QueueSteps ==
    ASSUME TypeOK, QueueNext, NEW k \in Keys
    PROVE  Inserts(k) \/ MovesOn(k) \/ KeepsState(k)
<1> USE DEF TypeOK, QueueTypeOK, Alerts, States, Queued, Settled
<1>1. CASE \E i \in Items : WriteItem(i) \/ FoldItem(i)
  BY <1>1 DEF WriteItem, FoldItem, Write, KeepsState
<1>2. CASE CommitWrite \/ \E t \in Transports : EnqueueAlert(t)
  BY <1>2 DEF CommitWrite, EnqueueAlert, KeepsState, Inserts
<1>3. CASE \E i \in Items : CloseItem(i) \/ ReopenItem(i) \/ LoseSubject(i)
  BY <1>3 DEF CloseItem, ReopenItem, LoseSubject, KeepsState
<1>4. CASE SweepInbox
  BY <1>4 DEF SweepInbox, KeepsState
<1>5. ASSUME NEW S, alert' = Suppress(Withdrawn(S)) PROVE MovesOn(k) \/ KeepsState(k)
  BY <1>5 DEF Suppress, Withdrawn, MovesOn, KeepsState
<1>6. CASE \E t \in Transports, a \in Actors, moved \in BOOLEAN : Register(t, a, moved)
  BY <1>5, <1>6 DEF Register
<1>7. CASE \E t \in Transports : Revoke(t)
  BY <1>5, <1>7 DEF Revoke
<1>8. CASE \E t \in Transports : TransportLapses(t)
  BY <1>8 DEF TransportLapses, KeepsState
<1>9. CASE \E p \in Items \X Transports : ChangeSettings(p)
  BY <1>9 DEF ChangeSettings, KeepsState
<1>10. ASSUME NEW n \in Keys, BackoffElapses(n) \/ DeadlinePasses(n) PROVE KeepsState(k)
  <2>1. CASE n = k
    BY <1>10, <2>1 DEF BackoffElapses, DeadlinePasses, KeepsState
  <2>2. CASE n # k
    BY <1>10, <2>2 DEF BackoffElapses, DeadlinePasses, KeepsState
  <2> QED
    BY <2>1, <2>2
<1> QED
  BY <1>1, <1>2, <1>3, <1>4, <1>6, <1>7, <1>8, <1>9, <1>10, ActorsAssumption DEF QueueNext

LEMMA AlertSteps ==
    ASSUME TypeOK, VerdictsAreDecided, Next, NEW k \in Keys
    PROVE  Inserts(k) \/ Prunes(k) \/ MovesOn(k) \/ KeepsState(k)
<1> USE DEF TypeOK, QueueTypeOK, Alerts, States, Queued, Settled
<1>1. CASE QueueNext
  BY <1>1, QueueSteps
<1>2. CASE FailWrite
  BY <1>2 DEF FailWrite, AbortWrite, KeepsState
<1>3. ASSUME NEW w \in Workers, NEW n \in Keys, Claim(w, n) PROVE MovesOn(k) \/ KeepsState(k)
  BY <1>3 DEF Claim, Claimable, Leased, MovesOn, KeepsState
<1>4. ASSUME NEW w \in Workers, NEW n \in Keys, Dispatch(w, n) PROVE MovesOn(k) \/ KeepsState(k)
  <2>1. CASE CheckTransport(w, n) \/ CheckItem(w, n) \/ Skip(w, n) \/ Answer(w, n) \/ MarkStale(w, n)
    BY <2>1 DEF CheckTransport, CheckItem, Skip, Answer, MarkStale, queueVars, KeepsState
  <2>2. CASE Mark(w, n)
    BY <2>2 DEF Mark, KeepsState
  <2>3. CASE SuppressSiblings(w, n)
    BY <2>3 DEF SuppressSiblings, Suppress, MovesOn, KeepsState
  <2>4. CASE Refund(w, n)
    BY <2>4 DEF Refund, KeepsState
  <2>5. CASE Settle(w, n)
    <3>1. job[w][n].verdict \in Verdicts \ {"none"}
      BY <2>5 DEF Jobs, Settle, VerdictsAreDecided
    <3> QED
      BY <2>5, <3>1 DEF Settle, Settlement, SettledAs, Holds, Verdicts, MovesOn, KeepsState
  <2> QED
    BY <1>4, <2>1, <2>2, <2>3, <2>4, <2>5 DEF Dispatch
<1>5. ASSUME NEW w \in Workers, NEW n \in Keys, Fail(w, n) PROVE KeepsState(k)
  BY <1>5 DEF Fail, queueVars, KeepsState
<1>6. CASE \E w \in Workers : Vanish(w) \/ BreakerCloses(w)
  BY <1>6 DEF Vanish, BreakerCloses, queueVars, KeepsState
<1>7. CASE \E n \in Keys : LeaseExpires(n)
  BY <1>7 DEF LeaseExpires, KeepsState
<1>8. CASE \E n \in Keys : Prune(n)
  BY <1>8 DEF Prune, Prunes, KeepsState
<1> QED
  BY <1>1, <1>2, <1>3, <1>4, <1>5, <1>6, <1>7, <1>8 DEF Next

\* How the open transaction changes.
LEMMA WriterSteps ==
    ASSUME Next
    PROVE  \/ writer' = writer
           \/ writer' = Idle
           \/ alert' = alert /\ \E i \in Items : \E row, refold : Write(i, row, refold)
           \/ alert' = alert /\ \E t \in Transports : EnqueueAlert(t)
<1>1. CASE \E i \in Items : WriteItem(i) \/ FoldItem(i)
  BY <1>1 DEF WriteItem, FoldItem, Write
<1>2. CASE CommitWrite \/ FailWrite \/ \E t \in Transports : EnqueueAlert(t)
  BY <1>2 DEF CommitWrite, FailWrite, AbortWrite, EnqueueAlert
<1>3. CASE QueueNext
  BY <1>1, <1>2, <1>3
     DEF QueueNext, CloseItem, ReopenItem, LoseSubject, SweepInbox, Register, Revoke,
         TransportLapses, ChangeSettings, BackoffElapses, DeadlinePasses
<1>4. CASE \E w \in Workers, k \in Keys : Claim(w, k) \/ Dispatch(w, k) \/ Fail(w, k)
  BY <1>4 DEF Claim, Dispatch, Fail, CheckTransport, CheckItem, Mark, Skip, Answer, MarkStale,
              SuppressSiblings, Refund, Settle, queueVars
<1>5. CASE \E w \in Workers : Vanish(w) \/ BreakerCloses(w)
  BY <1>5 DEF Vanish, BreakerCloses, queueVars
<1>6. CASE \E k \in Keys : LeaseExpires(k) \/ Prune(k)
  BY <1>6 DEF LeaseExpires, Prune
<1> QED
  BY <1>2, <1>3, <1>4, <1>5, <1>6 DEF Next

------------------------------------------------------------------------------
(* One queued alert for each item and device                                  *)

\* The generation before a later one is the earlier alert or comes after it.
LEMMA Predecessor ==
    ASSUME NEW n \in Keys, NEW k \in Keys, Later(k, n),
           NEW p, p = <<k[1], k[2], k[3] - 1>>
    PROVE  p \in Keys /\ k[3] # 1 /\ (n = p \/ Later(p, n))
<1>1. /\ n = <<n[1], n[2], n[3]>> /\ n[1] \in Items /\ n[2] \in Transports /\ n[3] \in 1..MaxEvents
      /\ k[3] \in 1..MaxEvents /\ n[1] = k[1] /\ n[2] = k[2] /\ n[3] < k[3]
  BY MaxEventsAssumption DEF Keys, Later
<1>2. k[3] # 1 /\ k[3] - 1 \in 1..MaxEvents /\ (n[3] = k[3] - 1 \/ n[3] < k[3] - 1)
  BY <1>1, MaxEventsAssumption
<1>3. p[1] = k[1] /\ p[2] = k[2] /\ p[3] = k[3] - 1
  OBVIOUS
<1>4. p \in Keys
  BY <1>1, <1>2 DEF Keys
<1>5. CASE n[3] = k[3] - 1
  BY <1>1, <1>2, <1>4, <1>5
<1>6. CASE n[3] < k[3] - 1
  BY <1>1, <1>2, <1>3, <1>4, <1>6 DEF Later
<1> QED
  BY <1>2, <1>5, <1>6

\* When a transaction has read the alerts of a device, there is room for the one
\* it adds.
LEMMA EnqueueLeavesRoom ==
    ASSUME TypeOK, OneQueuedAlert, NEW t \in Transports, NEW k \in Enqueued(t)
    PROVE  /\ k \in Keys /\ k[2] = t /\ alert[k].state = "none" /\ IsNewest(k)
           /\ \A n \in Keys : Later(k, n) => alert[n].state \notin Queued
           /\ \A n \in Enqueued(t) : ~Later(n, k)
<1> DEFINE last(n) == <<n[1], n[2], n[3] - 1>>
<1>1. ASSUME NEW n \in Enqueued(t)
      PROVE  /\ n \in Keys /\ n[2] = t /\ alert[n].state = "none" /\ IsNewest(n)
             /\ n[3] # 1 => alert[last(n)].state \notin Queued \cup {"none"}
  BY <1>1 DEF Enqueued, NeedsNoSibling
<1>2. ASSUME NEW n \in Keys, Later(k, n), alert[n].state \in Queued PROVE FALSE
  <2>1. last(k) \in Keys /\ alert[last(k)].state \notin Queued \cup {"none"}
    BY <1>1, <1>2, Predecessor
  <2>2. n = last(k) \/ Later(last(k), n)
    BY <1>1, <1>2, Predecessor
  <2>3. IsNewest(n)
    BY <1>2 DEF OneQueuedAlert
  <2> QED
    BY <1>2, <2>1, <2>2, <2>3 DEF IsNewest
<1>3. ASSUME NEW n \in Enqueued(t), Later(n, k) PROVE FALSE
  <2>1. last(n) \in Keys /\ alert[last(n)].state # "none"
    BY <1>1, <1>3, Predecessor
  <2>2. k = last(n) \/ Later(last(n), k)
    BY <1>1, <1>3, Predecessor
  <2> QED
    BY <1>1, <2>1, <2>2 DEF IsNewest
<1> QED
  BY <1>1, <1>2, <1>3

LEMMA WriterHasRoomStep == ASSUME AInv, Next PROVE WriterHasRoom'
<1> USE DEF AInv
<1>1. CASE writer' = writer
  <2> SUFFICES ASSUME writer # Idle, NEW k \in writer.adds
               PROVE  /\ k[2] \notin writer.left /\ alert'[k].state = "none" /\ IsNewest(k)'
                      /\ \A n \in Keys : Later(k, n) => alert'[n].state \notin Queued
    BY <1>1 DEF WriterHasRoom, Later
  <2>1. k \in Keys
    BY DEF TypeOK, QueueTypeOK, Writing
  <2>2. \A n \in Keys : /\ alert[n].state = "none" => alert'[n].state = "none"
                        /\ alert[n].state \notin Queued => alert'[n].state \notin Queued
    BY <1>1, AlertSteps DEF Inserts, Prunes, MovesOn, KeepsState, NoAlert, Queued, Settled
  <2> QED
    BY <2>1, <2>2 DEF WriterHasRoom, IsNewest, Later
<1>2. CASE writer' = Idle
  BY <1>2 DEF WriterHasRoom
<1>3. CASE \E i \in Items : \E row, refold : Write(i, row, refold)
  BY <1>3 DEF Write, WriterHasRoom
<1>4. ASSUME alert' = alert, NEW t \in Transports, EnqueueAlert(t) PROVE WriterHasRoom'
  <2>1. /\ writer # Idle /\ t \in writer.left
        /\ writer'.left = writer.left \ {t} /\ writer'.adds = writer.adds \cup Enqueued(t)
    BY <1>4 DEF EnqueueAlert, TypeOK, QueueTypeOK, Writing
  <2> SUFFICES ASSUME NEW k \in writer'.adds
               PROVE  /\ k[2] \notin writer'.left /\ alert[k].state = "none" /\ IsNewest(k)
                      /\ \A n \in Keys : Later(k, n) => alert[n].state \notin Queued
                      /\ \A n \in writer'.adds : ~Later(n, k)
    BY <1>4 DEF WriterHasRoom, IsNewest, Later
  <2>2. CASE k \in writer.adds
    <3>1. \A n \in Enqueued(t) : ~Later(n, k)
      BY <2>1, <2>2, EnqueueLeavesRoom DEF WriterHasRoom, Later
    <3> QED
      BY <2>1, <2>2, <3>1 DEF WriterHasRoom
  <2>3. CASE k \in Enqueued(t)
    <3>1. \A n \in writer.adds : ~Later(n, k)
      BY <2>1, <2>3, EnqueueLeavesRoom DEF WriterHasRoom, Later
    <3> QED
      BY <2>1, <2>3, <3>1, EnqueueLeavesRoom
  <2> QED
    BY <2>1, <2>2, <2>3
<1> QED
  BY <1>1, <1>2, <1>3, <1>4, WriterSteps

LEMMA OneQueuedAlertStep == ASSUME AInv, Next PROVE OneQueuedAlert'
<1> USE DEF AInv
<1>1. SUFFICES ASSUME NEW k \in Keys, alert'[k].state \in Queued,
                      NEW n \in Keys, Later(n, k), alert'[n].state # "none"
               PROVE  FALSE
  BY DEF OneQueuedAlert, IsNewest, Later
<1>2. alert[k].state \in Queued \/ Inserts(k)
  BY <1>1, AlertSteps DEF Inserts, Prunes, MovesOn, KeepsState, NoAlert, Queued, Settled
<1>3. alert[n].state # "none" \/ Inserts(n)
  BY <1>1, AlertSteps DEF Inserts, Prunes, MovesOn, KeepsState, NoAlert, Queued, Settled
<1>4. CASE Inserts(k)
  BY <1>1, <1>3, <1>4 DEF Inserts, WriterHasRoom, IsNewest
<1>5. CASE alert[k].state \in Queued /\ Inserts(n)
  BY <1>1, <1>5 DEF Inserts, WriterHasRoom
<1>6. CASE alert[k].state \in Queued /\ alert[n].state # "none"
  BY <1>1, <1>6 DEF OneQueuedAlert, IsNewest
<1> QED
  BY <1>2, <1>3, <1>4, <1>5, <1>6

------------------------------------------------------------------------------
(* Types                                                                      *)

LEMMA CallingIsFinite ==
    ASSUME NEW k \in Keys
    PROVE  IsFiniteSet(Calling(k)) /\ Cardinality(Calling(k)) \in Nat
<1>1. Calling(k) \subseteq Workers
  BY DEF Calling
<1> QED
  BY <1>1, WorkersAssumption, FS_Subset, FS_CardinalityType

\* A refusal that is not booked yet has been counted.
LEMMA RefusedIsCounted ==
    ASSUME TypeOK, CallsAreCounted, NEW w \in Workers, NEW k \in Keys, job[w][k].at \in {"calling", "refused"}
    PROVE  spent[k] >= 1
<1>1. Calling(k) # {}
  BY DEF Calling
<1>2. Cardinality(Calling(k)) >= 1
  BY <1>1, CallingIsFinite, FS_EmptySet
<1> QED
  BY <1>2, CallingIsFinite DEF CallsAreCounted, TypeOK

LEMMA SuppressedRow ==
    ASSUME NEW row \in Alerts
    PROVE  [row EXCEPT !.state = "suppressed", !.owner = NoWorker, !.held = FALSE] \in Alerts
BY DEF Alerts, States

LEMMA QueueTypeStep == ASSUME QueueTypeOK, QueueNext PROVE QueueTypeOK'
<1> USE DEF QueueTypeOK
<1>1. ASSUME NEW i \in Items, NEW row \in ItemRows, NEW refold \in BOOLEAN, Write(i, row, refold)
      PROVE  QueueTypeOK'
  <2>1. writer' \in Writing
    BY <1>1 DEF Write, Writing, Candidates
  <2> QED
    BY <1>1, <2>1 DEF Write
<1>2. ASSUME NEW i \in Items, WriteItem(i) \/ FoldItem(i) PROVE QueueTypeOK'
  <2>1. item[i] \in ItemRows
    OBVIOUS
  <2>2. ASSUME NEW open \in BOOLEAN, MaxEvents > 0
        PROVE  [item[i] EXCEPT !.events = 1, !.open = open] \in ItemRows
    <3>1. 1 \in 0..MaxEvents
      BY <2>2, MaxEventsAssumption
    <3> QED
      BY <2>1, <3>1 DEF ItemRows
  <2>3. item[i].events \in 1..(MaxEvents - 1) => [item[i] EXCEPT !.events = @ + 1] \in ItemRows
    BY <2>1, MaxEventsAssumption DEF ItemRows
  <2> QED
    BY <1>1, <1>2, <2>2, <2>3 DEF WriteItem, FoldItem
<1>3. CASE CommitWrite
  <2>1. writer \in Writing
    BY <1>3 DEF CommitWrite
  <2>2. [writer.row EXCEPT !.doomed = item[writer.item].doomed] \in ItemRows
    BY <2>1 DEF Writing, ItemRows
  <2>3. NewAlert \in Alerts
    BY DEF NewAlert, NoAlert, Alerts, States
  <2> QED
    BY <1>3, <2>1, <2>2, <2>3 DEF CommitWrite, Writing
<1>4. ASSUME NEW i \in Items, CloseItem(i) \/ ReopenItem(i) \/ LoseSubject(i) PROVE QueueTypeOK'
  <2> DEFINE shut == [item[i] EXCEPT !.open = FALSE]
             back == [item[i] EXCEPT !.open = TRUE]
             lost == [item[i] EXCEPT !.doomed = TRUE]
  <2>2. shut \in ItemRows /\ back \in ItemRows /\ lost \in ItemRows
    BY DEF ItemRows
  <2>3. item' \in {[item EXCEPT ![i] = shut], [item EXCEPT ![i] = back], [item EXCEPT ![i] = lost]}
    BY <1>4 DEF CloseItem, ReopenItem, LoseSubject
  <2> HIDE DEF shut, back, lost
  <2>1. item' \in [Items -> ItemRows]
    BY <2>2, <2>3
  <2> QED
    BY <1>4, <2>1 DEF CloseItem, ReopenItem, LoseSubject
<1>5. CASE SweepInbox
  BY <1>5 DEF SweepInbox, Swept, ItemRows
<1>6. ASSUME NEW S, alert' = Suppress(S) PROVE alert' \in [Keys -> Alerts]
  <2>1. ASSUME NEW n \in Keys
        PROVE  [alert[n] EXCEPT !.state = "suppressed", !.owner = NoWorker, !.held = FALSE] \in Alerts
    <3>1. alert[n] \in Alerts
      OBVIOUS
    <3> QED
      BY <3>1, SuppressedRow
  <2> QED
    BY <1>6, <2>1 DEF Suppress
<1>7. ASSUME NEW t \in Transports, NEW a \in Actors, NEW moved \in BOOLEAN, Register(t, a, moved)
      PROVE  QueueTypeOK'
  <2>1. transport' \in [Transports -> TransportRows]
    BY <1>7 DEF Register, TransportRows
  <2> QED
    BY <1>6, <1>7, <2>1 DEF Register
<1>8. ASSUME NEW t \in Transports, Revoke(t) \/ TransportLapses(t) PROVE QueueTypeOK'
  <2> DEFINE out == [transport[t] EXCEPT !.status = "revoked"]
             late == [transport[t] EXCEPT !.current = FALSE]
  <2>2. out \in TransportRows /\ late \in TransportRows
    BY DEF TransportRows
  <2>3. transport' = [transport EXCEPT ![t] = out] \/ transport' = [transport EXCEPT ![t] = late]
    BY <1>8 DEF Revoke, TransportLapses
  <2> HIDE DEF out, late
  <2>1. transport' \in [Transports -> TransportRows]
    BY <2>2, <2>3
  <2> QED
    BY <1>6, <1>8, <2>1 DEF Revoke, TransportLapses
<1>9. ASSUME NEW p \in Items \X Transports, ChangeSettings(p) PROVE QueueTypeOK'
  BY <1>9 DEF ChangeSettings
<1>10. ASSUME NEW k \in Keys, BackoffElapses(k) \/ DeadlinePasses(k) PROVE QueueTypeOK'
  <2>1. [alert[k] EXCEPT !.due = TRUE] \in Alerts /\ [alert[k] EXCEPT !.late = TRUE] \in Alerts
    BY DEF Alerts
  <2>2. alert' \in [Keys -> Alerts]
    BY <1>10, <2>1 DEF BackoffElapses, DeadlinePasses
  <2> QED
    BY <1>10, <2>2 DEF BackoffElapses, DeadlinePasses
<1>11. ASSUME NEW t \in Transports, EnqueueAlert(t) PROVE QueueTypeOK'
  <2>1. writer' \in Writing
    BY <1>11 DEF EnqueueAlert, Writing, Enqueued
  <2> QED
    BY <1>11, <2>1 DEF EnqueueAlert
<1> QED
  BY <1>2, <1>3, <1>4, <1>5, <1>7, <1>8, <1>9, <1>10, <1>11, ActorsAssumption DEF QueueNext

LEMMA DispatchTypeStep ==
    ASSUME AInv, NEW w \in Workers, NEW k \in Keys, Claim(w, k) \/ Dispatch(w, k) \/ Fail(w, k)
    PROVE  TypeOK'
<1> USE DEF AInv, TypeOK, QueueTypeOK
<1>1. /\ job[w][k] \in Jobs /\ alert[k] \in Alerts /\ NoJob \in Jobs
      /\ k \in Items \X Transports \X (1..MaxEvents)
  BY MaxEventsAssumption DEF Jobs, Steps, Verdicts, NoJob, Keys
<1>2. ASSUME NEW step \in Steps, Go(w, k, step) PROVE job' \in [Workers -> [Keys -> Jobs]]
  BY <1>1, <1>2 DEF Go, Jobs
<1>3. ASSUME NEW v \in Verdicts, Conclude(w, k, v) PROVE job' \in [Workers -> [Keys -> Jobs]]
  BY <1>1, <1>3 DEF Conclude, Jobs, Steps
<1>4. ASSUME Stop(w, k) PROVE job' \in [Workers -> [Keys -> Jobs]]
  BY <1>1, <1>4 DEF Stop
<1>5. CASE Claim(w, k)
  <2>1. Leased(w, k) \in Alerts
    BY <1>1 DEF Leased, Alerts, States
  <2>2. [NoJob EXCEPT !.at = "claimed", !.claimed = alert[k].attempts] \in Jobs
    BY <1>1 DEF Jobs, Steps, Alerts
  <2> QED
    BY <1>5, <2>1, <2>2 DEF Claim, ghosts
<1>6. CASE CheckTransport(w, k)
  BY <1>2, <1>3, <1>6 DEF CheckTransport, Steps, Verdicts, queueVars, ghosts
<1>7. CASE CheckItem(w, k)
  <2>1. Swept \in [Items -> ItemRows]
    BY DEF Swept, ItemRows
  <2>2. Built(w, k, Swept[k[1]].events) \in Jobs
    BY <1>1, <2>1 DEF Built, Jobs, Steps, ItemRows
  <2>3. \/ job' = [job EXCEPT ![w][k] = Built(w, k, Swept[k[1]].events)]
        \/ Conclude(w, k, "suppressed") \/ Conclude(w, k, "dead")
    BY <1>7 DEF CheckItem
  <2>4. job' \in [Workers -> [Keys -> Jobs]]
    BY <1>1, <1>3, <2>2, <2>3 DEF Verdicts
  <2> QED
    BY <1>7, <2>1, <2>4 DEF CheckItem, ghosts
<1>8. CASE Mark(w, k)
  <2>1. job[w][k].claimed + 1 \in Nat /\ [alert[k] EXCEPT !.attempts = job[w][k].claimed + 1] \in Alerts
    <3>1. job[w][k].claimed + 1 \in Nat
      BY <1>1 DEF Jobs
    <3> QED
      BY <1>1, <3>1 DEF Alerts
  <2>2. spent' \in [Keys -> Nat] /\ told' \in [Keys -> 0..MaxEvents]
    BY <1>1, <1>8 DEF Mark, Jobs
  <2>3. job' \in [Workers -> [Keys -> Jobs]]
    BY <1>2, <1>8 DEF Mark, Steps
  <2> QED
    BY <1>8, <2>1, <2>2, <2>3 DEF Mark
<1>9. CASE Skip(w, k)
  BY <1>4, <1>9 DEF Skip, queueVars, ghosts
<1>10. CASE Answer(w, k)
  <2>1. job' \in [Workers -> [Keys -> Jobs]]
    BY <1>2, <1>3, <1>10 DEF Answer, Steps, Verdicts
  <2> QED
    BY <1>10, <2>1 DEF Answer, queueVars, ghosts
<1>11. CASE MarkStale(w, k)
  <2>1. transport' \in [Transports -> TransportRows]
    BY <1>1, <1>11 DEF MarkStale, TransportRows
  <2> QED
    BY <1>2, <1>11, <2>1 DEF MarkStale, Steps, ghosts
<1>12. CASE SuppressSiblings(w, k)
  <2>1. ASSUME NEW n \in Keys
        PROVE  [alert[n] EXCEPT !.state = "suppressed", !.owner = NoWorker, !.held = FALSE] \in Alerts
    <3>1. alert[n] \in Alerts
      OBVIOUS
    <3> QED
      BY <3>1, SuppressedRow
  <2>2. alert' \in [Keys -> Alerts]
    BY <1>12, <2>1 DEF SuppressSiblings, Suppress
  <2> QED
    BY <1>3, <1>12, <2>2 DEF SuppressSiblings, Verdicts, ghosts
<1>13. CASE Refund(w, k)
  <2>1. spent[k] - 1 \in Nat
    BY <1>13, RefusedIsCounted DEF Refund
  <2>2. alert[k].attempts = spent[k]
    BY <1>13 DEF Refund, AttemptsMatchCalls, AbsentIsIdle
  <2>3. [alert[k] EXCEPT !.attempts = @ - 1] \in Alerts
    BY <1>1, <2>1, <2>2 DEF Alerts
  <2>4. alert' \in [Keys -> Alerts] /\ spent' \in [Keys -> Nat]
    BY <1>13, <2>1, <2>3 DEF Refund
  <2> QED
    BY <1>3, <1>13, <2>4 DEF Refund, Verdicts
<1>14. CASE Settle(w, k)
  <2>1. job[w][k].verdict \in Verdicts
    BY <1>1 DEF Jobs
  <2>2. [alert[k] EXCEPT !.state = job[w][k].verdict, !.owner = NoWorker,
                         !.held = FALSE, !.due = job[w][k].verdict # "failed"] \in Alerts
    BY <1>1, <2>1 DEF Alerts, Verdicts, States
  <2>3. alert' \in [Keys -> Alerts]
    BY <1>14, <2>2 DEF Settle, Settlement, SettledAs
  <2> QED
    BY <1>4, <1>14, <2>3 DEF Settle, ghosts
<1>15. CASE Fail(w, k)
  <2>1. faults' \in 0..MaxFaults
    BY <1>15, AttemptsAssumption DEF Fail
  <2> QED
    BY <1>3, <1>15, <2>1 DEF Fail, Verdicts, queueVars, ghosts
<1> QED
  BY <1>5, <1>6, <1>7, <1>8, <1>9, <1>10, <1>11, <1>12, <1>13, <1>14, <1>15 DEF Dispatch

LEMMA TypeStep == ASSUME AInv, Next PROVE TypeOK'
<1> USE DEF AInv, TypeOK, QueueTypeOK
<1>1. CASE QueueNext /\ UNCHANGED <<job, breaker, faults, ghosts>>
  BY <1>1, QueueTypeStep DEF ghosts
<1>2. faults < MaxFaults => faults + 1 \in 0..MaxFaults
  BY AttemptsAssumption
<1>3. CASE FailWrite
  BY <1>2, <1>3 DEF FailWrite, AbortWrite, ghosts
<1>4. CASE \E w \in Workers, k \in Keys : Claim(w, k) \/ Dispatch(w, k) \/ Fail(w, k)
  BY <1>4, DispatchTypeStep
<1>5. ASSUME NEW w \in Workers, Vanish(w) \/ BreakerCloses(w) PROVE TypeOK'
  <2>1. NoJob \in Jobs
    BY MaxEventsAssumption DEF Jobs, Steps, Verdicts, NoJob
  <2>2. job' \in [Workers -> [Keys -> Jobs]]
    BY <1>5, <2>1 DEF Vanish, BreakerCloses
  <2>3. faults' \in 0..MaxFaults /\ breaker' \subseteq Workers
    BY <1>2, <1>5 DEF Vanish, BreakerCloses
  <2> QED
    BY <1>5, <2>2, <2>3 DEF Vanish, BreakerCloses, queueVars, ghosts
<1>6. ASSUME NEW k \in Keys, LeaseExpires(k) PROVE TypeOK'
  <2>1. alert' \in [Keys -> Alerts]
    BY <1>6 DEF LeaseExpires, Alerts
  <2> QED
    BY <1>2, <1>6, <2>1 DEF LeaseExpires, ghosts
<1>7. ASSUME NEW k \in Keys, Prune(k) PROVE TypeOK'
  <2>1. NoAlert \in Alerts
    BY DEF NoAlert, Alerts, States
  <2> QED
    BY <1>7, <2>1, MaxEventsAssumption DEF Prune
<1> QED
  BY <1>1, <1>3, <1>4, <1>5, <1>6, <1>7 DEF Next

------------------------------------------------------------------------------
(* Jobs and provider calls                                                    *)

\* Only a worker's own step takes its job further; a crash ends it.
LEMMA JobSteps ==
    ASSUME TypeOK, Next, NEW w \in Workers, NEW k \in Keys
    PROVE  job'[w][k] \in {job[w][k], NoJob} \/ Claim(w, k) \/ Dispatch(w, k) \/ Fail(w, k)
<1> USE DEF TypeOK
<1>1. CASE QueueNext /\ UNCHANGED <<job, breaker, faults, ghosts>>
  BY <1>1
<1>2. CASE FailWrite
  BY <1>2 DEF FailWrite
<1>3. ASSUME NEW v \in Workers, NEW n \in Keys, Claim(v, n) \/ Dispatch(v, n) \/ Fail(v, n)
      PROVE  (v = w /\ n = k) \/ job'[w][k] = job[w][k]
  <2>1. CASE Claim(v, n) \/ Fail(v, n)
    BY <2>1 DEF Claim, Fail, Conclude
  <2>2. CASE Dispatch(v, n)
    BY <2>2 DEF Dispatch, CheckTransport, CheckItem, Mark, Skip, Answer, MarkStale, SuppressSiblings,
                Refund, Settle, Go, Conclude, Stop
  <2> QED
    BY <1>3, <2>1, <2>2
<1>4. ASSUME NEW v \in Workers, Vanish(v) \/ BreakerCloses(v) PROVE job'[w][k] \in {job[w][k], NoJob}
  BY <1>4 DEF Vanish, BreakerCloses
<1>5. CASE \E n \in Keys : LeaseExpires(n) \/ Prune(n)
  BY <1>5 DEF LeaseExpires, Prune
<1> QED
  BY <1>1, <1>2, <1>3, <1>4, <1>5 DEF Next

\* A job's step other than the mark and the refund, as a change of its position.
LEMMA JobMoves ==
    ASSUME TypeOK, NEW w \in Workers, NEW k \in Keys, Claim(w, k) \/ Dispatch(w, k) \/ Fail(w, k)
    PROVE  \/ Mark(w, k) /\ job'[w][k].at = "calling"
           \/ job'[w][k].at \in {"idle", "claimed"}
           \/ CheckTransport(w, k) /\ Reachable(k) /\ job'[w][k].at = "reachable"
           \/ CheckItem(w, k) /\ job'[w][k].at = "built"
           \/ job[w][k].at = "calling" /\ job'[w][k].at \in {"stale", "refused"}
           \/ job[w][k].at = "stale" /\ job'[w][k].at = "gone"
           \/ job'[w][k].at = "settling" /\ job'[w][k].verdict # "none"
<1> USE DEF TypeOK
<1>1. job[w][k] \in Jobs
  OBVIOUS
<1>2. ASSUME NEW step, Go(w, k, step) PROVE job'[w][k].at = step
  BY <1>1, <1>2 DEF Go, Jobs
<1>3. ASSUME NEW v, Conclude(w, k, v) PROVE job'[w][k].at = "settling" /\ job'[w][k].verdict = v
  BY <1>3 DEF Conclude, NoJob
<1>4. ASSUME Stop(w, k) PROVE job'[w][k].at = "idle"
  BY <1>4 DEF Stop, NoJob
<1>5. CASE Claim(w, k)
  BY <1>5 DEF Claim, NoJob
<1>6. CASE CheckTransport(w, k)
  BY <1>2, <1>3, <1>6 DEF CheckTransport
<1>7. CASE CheckItem(w, k)
  <2>1. \/ job' = [job EXCEPT ![w][k] = Built(w, k, Swept[k[1]].events)]
        \/ Conclude(w, k, "suppressed") \/ Conclude(w, k, "dead")
    BY <1>7 DEF CheckItem
  <2>2. Built(w, k, Swept[k[1]].events).at = "built"
    BY <1>1 DEF Built, Jobs
  <2> QED
    BY <1>3, <1>7, <2>1, <2>2
<1>8. CASE Mark(w, k)
  BY <1>2, <1>8 DEF Mark
<1>9. CASE Skip(w, k) \/ Settle(w, k)
  BY <1>4, <1>9 DEF Skip, Settle
<1>10. CASE Answer(w, k)
  BY <1>2, <1>3, <1>10 DEF Answer
<1>11. CASE MarkStale(w, k)
  BY <1>2, <1>11 DEF MarkStale
<1>12. CASE SuppressSiblings(w, k) \/ Refund(w, k) \/ Fail(w, k)
  BY <1>3, <1>12 DEF SuppressSiblings, Refund, Fail
<1> QED
  BY <1>5, <1>6, <1>7, <1>8, <1>9, <1>10, <1>11, <1>12 DEF Dispatch

LEMMA VerdictsStep == ASSUME AInv, Next PROVE VerdictsAreDecided'
<1> SUFFICES ASSUME NEW w \in Workers, NEW k \in Keys, job'[w][k].at = "settling"
             PROVE  job'[w][k].verdict # "none"
  BY DEF VerdictsAreDecided
<1>1. CASE job'[w][k] \in {job[w][k], NoJob}
  BY <1>1 DEF AInv, VerdictsAreDecided, NoJob
<1>2. CASE Claim(w, k) \/ Dispatch(w, k) \/ Fail(w, k)
  BY <1>2, JobMoves DEF AInv
<1> QED
  BY <1>1, <1>2, JobSteps DEF AInv

------------------------------------------------------------------------------
(* Attempts                                                                   *)

\* Only the mark and the refund change the attempts of an alert and its calls.
LEMMA AttemptSteps ==
    ASSUME TypeOK, Next, NEW k \in Keys
    PROVE  \/ spent'[k] = spent[k] /\ (alert'[k].attempts = alert[k].attempts \/ Inserts(k))
           \/ Prunes(k)
           \/ \E w \in Workers : Mark(w, k) \/ Refund(w, k)
<1> DEFINE Same == spent'[k] = spent[k] /\ alert'[k].attempts = alert[k].attempts
<1> USE DEF TypeOK, QueueTypeOK, Alerts
<1>1. ASSUME NEW S, alert' = Suppress(S) PROVE alert'[k].attempts = alert[k].attempts
  BY <1>1 DEF Suppress
<1>2. CASE QueueNext /\ UNCHANGED <<job, breaker, faults, ghosts>>
  <2>1. spent' = spent
    BY <1>2 DEF ghosts
  <2>2. CASE CommitWrite
    BY <2>1, <2>2 DEF CommitWrite, Inserts
  <2>3. CASE \E t \in Transports, a \in Actors, moved \in BOOLEAN : Register(t, a, moved)
    BY <1>1, <2>1, <2>3 DEF Register
  <2>4. CASE \E t \in Transports : Revoke(t)
    BY <1>1, <2>1, <2>4 DEF Revoke
  <2>5. ASSUME NEW n \in Keys, BackoffElapses(n) \/ DeadlinePasses(n) PROVE Same
    BY <2>1, <2>5 DEF BackoffElapses, DeadlinePasses
  <2>6. CASE alert' = alert
    BY <2>1, <2>6
  <2> QED
    BY <1>2, <2>2, <2>3, <2>4, <2>5, <2>6, ActorsAssumption
       DEF QueueNext, WriteItem, FoldItem, Write, EnqueueAlert, CloseItem, ReopenItem, LoseSubject, SweepInbox,
           TransportLapses, ChangeSettings
<1>3. CASE FailWrite
  BY <1>3 DEF FailWrite, AbortWrite, ghosts
<1>4. ASSUME NEW w \in Workers, NEW n \in Keys, Claim(w, n) \/ Fail(w, n) PROVE Same
  <2>1. Leased(w, n).attempts = alert[n].attempts
    BY DEF Leased
  <2> QED
    BY <1>4, <2>1 DEF Claim, Fail, queueVars, ghosts
<1>5. ASSUME NEW w \in Workers, NEW n \in Keys, Dispatch(w, n) PROVE Same \/ Mark(w, k) \/ Refund(w, k)
  <2>1. CASE CheckTransport(w, n) \/ CheckItem(w, n) \/ Skip(w, n) \/ Answer(w, n) \/ MarkStale(w, n)
    BY <2>1 DEF CheckTransport, CheckItem, Skip, Answer, MarkStale, queueVars, ghosts
  <2>2. CASE Mark(w, n)
    <3>1. CASE n = k
      BY <2>2, <3>1
    <3>2. CASE n # k
      BY <2>2, <3>2 DEF Mark
    <3> QED
      BY <3>1, <3>2
  <2>3. CASE SuppressSiblings(w, n)
    BY <1>1, <2>3 DEF SuppressSiblings, ghosts
  <2>4. CASE Refund(w, n)
    <3>1. CASE n = k
      BY <2>4, <3>1
    <3>2. CASE n # k
      BY <2>4, <3>2 DEF Refund
    <3> QED
      BY <3>1, <3>2
  <2>5. CASE Settle(w, n)
    BY <2>5 DEF Settle, Settlement, SettledAs, ghosts
  <2> QED
    BY <1>5, <2>1, <2>2, <2>3, <2>4, <2>5 DEF Dispatch
<1>6. CASE \E w \in Workers : Vanish(w) \/ BreakerCloses(w)
  BY <1>6 DEF Vanish, BreakerCloses, queueVars, ghosts
<1>7. ASSUME NEW n \in Keys, LeaseExpires(n) PROVE Same
  BY <1>7 DEF LeaseExpires, ghosts
<1>8. ASSUME NEW n \in Keys, Prune(n) PROVE Same \/ Prunes(k)
  BY <1>8 DEF Prune, Prunes
<1> QED
  BY <1>2, <1>3, <1>4, <1>5, <1>6, <1>7, <1>8 DEF Next

\* An alert that is worked on is there, and its attempts are its calls.
LEMMA WorkedOnIsThere ==
    ASSUME AInv, NEW w \in Workers, NEW k \in Keys, job[w][k].at # "idle"
    PROVE  alert[k].state # "none" /\ alert[k].attempts = spent[k]
BY DEF AInv, AbsentIsIdle, AttemptsMatchCalls

\* What the mark and the refund do to the counts.
LEMMA CountsMoveTogether ==
    ASSUME AInv, NEW w \in Workers, NEW k \in Keys, Mark(w, k) \/ Refund(w, k)
    PROVE  /\ alert'[k].state = alert[k].state /\ alert[k].state # "none"
           /\ alert'[k].attempts = spent'[k]
           /\ Mark(w, k) => spent'[k] = spent[k] + 1
           /\ Refund(w, k) => spent'[k] = spent[k] - 1
<1> USE DEF AInv, TypeOK, QueueTypeOK, Alerts
<1>1. job[w][k].at # "idle"
  BY DEF Mark, Refund
<1>2. alert[k].state # "none" /\ alert[k].attempts = spent[k]
  BY <1>1, WorkedOnIsThere
<1>3. ASSUME Mark(w, k) PROVE ~Refund(w, k)
  BY <1>3 DEF Mark, Refund
<1>4. CASE Mark(w, k)
  <2>1. alert'[k].state = alert[k].state /\ alert'[k].attempts = alert[k].attempts + 1
    BY <1>4 DEF Mark, MayMark
  <2>2. spent'[k] = spent[k] + 1
    BY <1>4 DEF Mark
  <2> QED
    BY <1>2, <1>3, <1>4, <2>1, <2>2
<1>5. CASE Refund(w, k)
  <2>1. alert'[k].state = alert[k].state /\ alert'[k].attempts = alert[k].attempts - 1
    BY <1>5 DEF Refund
  <2>2. spent'[k] = spent[k] - 1
    BY <1>5 DEF Refund
  <2> QED
    BY <1>2, <1>3, <1>5, <2>1, <2>2
<1> QED
  BY <1>4, <1>5

LEMMA AttemptsMatchStep == ASSUME AInv, Next PROVE AttemptsMatchCalls'
<1> SUFFICES ASSUME NEW k \in Keys, alert'[k].state # "none" PROVE alert'[k].attempts = spent'[k]
  BY DEF AttemptsMatchCalls
<1>1. CASE spent'[k] = spent[k] /\ Inserts(k)
  <2>1. alert[k].state = "none"
    BY <1>1 DEF AInv, Inserts, WriterHasRoom
  <2> QED
    BY <1>1, <2>1 DEF AInv, AbsentIsIdle, Inserts, NewAlert, NoAlert
<1>2. CASE spent'[k] = spent[k] /\ alert'[k].attempts = alert[k].attempts /\ ~Inserts(k)
  <2>1. alert[k].state # "none"
    BY <1>2, AlertSteps DEF AInv, Prunes, MovesOn, KeepsState, NoAlert, Queued, Settled
  <2> QED
    BY <1>2, <2>1 DEF AInv, AttemptsMatchCalls
<1>3. CASE Prunes(k)
  BY <1>3 DEF Prunes, NoAlert
<1>4. CASE \E w \in Workers : Mark(w, k) \/ Refund(w, k)
  BY <1>4, CountsMoveTogether
<1> QED
  BY <1>1, <1>2, <1>3, <1>4, AttemptSteps DEF AInv

LEMMA AbsentIsIdleStep == ASSUME AInv, Next PROVE AbsentIsIdle'
<1> SUFFICES ASSUME NEW k \in Keys, alert'[k].state = "none"
             PROVE  /\ alert'[k].attempts = 0 /\ spent'[k] = 0
                    /\ \A w \in Workers : job'[w][k].at = "idle"
  BY DEF AbsentIsIdle
<1>1. CASE Prunes(k)
  BY <1>1 DEF Prunes, Busy, NoAlert
<1>2. CASE alert[k].state = "none" /\ ~Inserts(k)
  <2>1. alert[k].attempts = 0 /\ spent[k] = 0 /\ \A w \in Workers : job[w][k].at = "idle"
    BY <1>2 DEF AInv, AbsentIsIdle
  <2>2. ASSUME NEW w \in Workers PROVE ~Claim(w, k) /\ ~Dispatch(w, k) /\ ~Fail(w, k)
    BY <1>2, <2>1 DEF Claim, Claimable, Dispatch, CheckTransport, CheckItem, Mark, Skip, Answer,
                      MarkStale, SuppressSiblings, Refund, Settle, Fail
  <2>3. \A w \in Workers : job'[w][k].at = "idle"
    BY <2>1, <2>2, JobSteps DEF AInv, NoJob
  <2>4. alert'[k].attempts = 0 /\ spent'[k] = 0
    BY <1>2, <2>1, <2>2, AttemptSteps DEF AInv, Dispatch, Prunes, NoAlert
  <2> QED
    BY <2>3, <2>4
<1>3. ~Inserts(k)
  BY DEF Inserts, NewAlert, NoAlert
<1> QED
  BY <1>1, <1>2, <1>3, AlertSteps DEF AInv, MovesOn, KeepsState, Queued, Settled

------------------------------------------------------------------------------
(* Provider calls                                                             *)

\* A provider call begins with the mark, and leaves Calling with the answer's
\* settlement or with the refund.
LEMMA CallSteps ==
    ASSUME AInv, Next, NEW k \in Keys
    PROVE  \/ spent'[k] = spent[k] /\ Calling(k)' \subseteq Calling(k)
           \/ Prunes(k)
           \/ \E w \in Workers : Mark(w, k) /\ Calling(k)' = Calling(k) \cup {w} /\ w \notin Calling(k)
           \/ \E w \in Workers : Refund(w, k) /\ Calling(k)' = Calling(k) \ {w} /\ w \in Calling(k)
<1> USE DEF AInv
<1>1. ASSUME NEW w \in Workers, job'[w][k].at \in {"calling", "refused"}
      PROVE  Mark(w, k) \/ job[w][k].at \in {"calling", "refused"}
  BY <1>1, JobSteps, JobMoves DEF NoJob
<1>2. ASSUME NEW w \in Workers, Mark(w, k) \/ Refund(w, k), NEW v \in Workers, v # w
      PROVE  job'[v][k] = job[v][k]
  BY <1>2 DEF Mark, Refund, Go, Conclude, TypeOK
<1>3. ASSUME NEW w \in Workers, Mark(w, k)
      PROVE  Calling(k)' = Calling(k) \cup {w} /\ w \notin Calling(k)
  <2>1. job[w][k].at = "built" /\ job'[w][k].at = "calling"
    BY <1>3 DEF Mark, Go, TypeOK, Jobs
  <2> QED
    BY <1>2, <1>3, <2>1 DEF Calling
<1>4. ASSUME NEW w \in Workers, Refund(w, k)
      PROVE  Calling(k)' = Calling(k) \ {w} /\ w \in Calling(k)
  <2>1. job[w][k].at = "refused" /\ job'[w][k].at = "settling"
    BY <1>4 DEF Refund, Conclude, NoJob, TypeOK
  <2> QED
    BY <1>2, <1>4, <2>1 DEF Calling
<1>5. CASE \E w \in Workers : Mark(w, k) \/ Refund(w, k)
  BY <1>3, <1>4, <1>5
<1>6. CASE ~\E w \in Workers : Mark(w, k) \/ Refund(w, k)
  <2>1. Calling(k)' \subseteq Calling(k)
    BY <1>1, <1>6 DEF Calling
  <2> QED
    BY <1>6, <2>1, AttemptSteps
<1> QED
  BY <1>5, <1>6

LEMMA CallsAreCountedStep == ASSUME AInv, Next PROVE CallsAreCounted'
<1> SUFFICES ASSUME NEW k \in Keys PROVE Cardinality(Calling(k)') <= spent'[k]
  BY DEF CallsAreCounted, Calling
<1>1. spent[k] \in Nat /\ Cardinality(Calling(k)) <= spent[k]
  BY DEF AInv, TypeOK, CallsAreCounted
<1>2. IsFiniteSet(Calling(k)) /\ Cardinality(Calling(k)) \in Nat
  BY CallingIsFinite
<1>3. CASE spent'[k] = spent[k] /\ Calling(k)' \subseteq Calling(k)
  <2>1. Cardinality(Calling(k)') <= Cardinality(Calling(k)) /\ Cardinality(Calling(k)') \in Nat
    BY <1>2, <1>3, FS_Subset, FS_CardinalityType
  <2> QED
    BY <1>1, <1>2, <1>3, <2>1
<1>4. CASE Prunes(k)
  <2>1. Calling(k)' = {}
    BY <1>4 DEF Prunes, Busy, Calling
  <2> QED
    BY <1>4, <2>1, FS_EmptySet DEF Prunes
<1>5. ASSUME NEW w \in Workers, Mark(w, k), Calling(k)' = Calling(k) \cup {w}, w \notin Calling(k)
      PROVE  Cardinality(Calling(k)') <= spent'[k]
  <2>1. Cardinality(Calling(k)') = Cardinality(Calling(k)) + 1
    BY <1>2, <1>5, FS_AddElement
  <2> QED
    BY <1>1, <1>2, <1>5, <2>1, CountsMoveTogether
<1>6. ASSUME NEW w \in Workers, Refund(w, k), Calling(k)' = Calling(k) \ {w}, w \in Calling(k)
      PROVE  Cardinality(Calling(k)') <= spent'[k]
  <2>1. Cardinality(Calling(k)') = Cardinality(Calling(k)) - 1
    BY <1>2, <1>6, FS_RemoveElement
  <2> QED
    BY <1>1, <1>2, <1>6, <2>1, CountsMoveTogether
<1> QED
  BY <1>3, <1>4, <1>5, <1>6, CallSteps

------------------------------------------------------------------------------
(* The owner of a token                                                       *)

\* A worker comes to hold an alert only by claiming it.
LEMMA HoldSteps ==
    ASSUME AInv, Next, NEW w \in Workers, NEW k \in Keys, Holds(w, k)'
    PROVE  Holds(w, k) \/ Claim(w, k)
<1> USE DEF AInv, TypeOK, QueueTypeOK, Alerts
<1>1. ASSUME NEW S, alert' = Suppress(S) PROVE Holds(w, k)
  BY <1>1 DEF Suppress, Holds
<1>2. CASE QueueNext
  <2>1. CASE CommitWrite
    BY <2>1 DEF CommitWrite, NewAlert, NoAlert, Holds
  <2>2. CASE \E t \in Transports, a \in Actors, moved \in BOOLEAN : Register(t, a, moved)
    BY <1>1, <2>2 DEF Register
  <2>3. CASE \E t \in Transports : Revoke(t)
    BY <1>1, <2>3 DEF Revoke
  <2>4. ASSUME NEW n \in Keys, BackoffElapses(n) \/ DeadlinePasses(n) PROVE Holds(w, k)
    <3>1. CASE BackoffElapses(n)
      BY <3>1 DEF BackoffElapses, Holds
    <3>2. CASE DeadlinePasses(n)
      BY <3>2 DEF DeadlinePasses, Holds
    <3> QED
      BY <2>4, <3>1, <3>2
  <2>5. CASE alert' = alert
    BY <2>5 DEF Holds
  <2> QED
    BY <1>2, <2>1, <2>2, <2>3, <2>4, <2>5, ActorsAssumption
       DEF QueueNext, WriteItem, FoldItem, Write, EnqueueAlert, CloseItem, ReopenItem, LoseSubject, SweepInbox,
           TransportLapses, ChangeSettings
<1>3. ASSUME NEW v \in Workers, NEW n \in Keys, Claim(v, n) PROVE Holds(w, k) \/ Claim(w, k)
  <2>1. Leased(v, n).owner = v
    BY DEF Leased
  <2>2. CASE n = k
    BY <1>3, <2>1, <2>2 DEF Claim, Holds
  <2>3. CASE n # k
    BY <1>3, <2>3 DEF Claim, Holds
  <2> QED
    BY <2>2, <2>3
<1>4. ASSUME NEW v \in Workers, NEW n \in Keys, Dispatch(v, n) PROVE Holds(w, k)
  <2>1. CASE CheckTransport(v, n) \/ CheckItem(v, n) \/ Skip(v, n) \/ Answer(v, n) \/ MarkStale(v, n)
    BY <2>1 DEF CheckTransport, CheckItem, Skip, Answer, MarkStale, queueVars, Holds
  <2>2. CASE Mark(v, n)
    BY <2>2 DEF Mark, Holds
  <2>3. CASE SuppressSiblings(v, n)
    BY <1>1, <2>3 DEF SuppressSiblings
  <2>4. CASE Refund(v, n)
    BY <2>4 DEF Refund, Holds
  <2>5. CASE Settle(v, n)
    <3>1. alert' = alert \/ alert'[n].owner = NoWorker
      BY <2>5 DEF Settle, Settlement, SettledAs
    <3>2. n # k => alert'[k] = alert[k]
      BY <2>5 DEF Settle, Settlement, SettledAs
    <3> QED
      BY <3>1, <3>2, WorkersAssumption DEF Holds
  <2> QED
    BY <1>4, <2>1, <2>2, <2>3, <2>4, <2>5 DEF Dispatch
<1>5. CASE FailWrite \/ (\E v \in Workers, n \in Keys : Fail(v, n)) \/ (\E v \in Workers : Vanish(v) \/ BreakerCloses(v))
  BY <1>5 DEF FailWrite, AbortWrite, Fail, Vanish, BreakerCloses, queueVars, Holds
<1>6. ASSUME NEW n \in Keys, LeaseExpires(n) \/ Prune(n) PROVE Holds(w, k)
  BY <1>6 DEF LeaseExpires, Prune, NoAlert, Holds
<1> QED
  BY <1>2, <1>3, <1>4, <1>5, <1>6 DEF Next

\* A token changes hands or is revoked only in a step that takes its alerts from
\* the workers.
LEMMA TransportSteps ==
    ASSUME AInv, Next, NEW t \in Transports
    PROVE  \/ transport'[t].actor = transport[t].actor
              /\ (transport[t].status # "revoked" => transport'[t].status # "revoked")
           \/ \A k \in Keys : k[2] = t => alert'[k].state # "leased"
<1> DEFINE Stays == transport'[t].actor = transport[t].actor
                    /\ (transport[t].status # "revoked" => transport'[t].status # "revoked")
<1> USE DEF AInv, TypeOK, QueueTypeOK, TransportRows
<1>1. ASSUME NEW S, alert' = Suppress(Withdrawn(S)), t \in S, NEW k \in Keys, k[2] = t
      PROVE  alert'[k].state # "leased"
  BY <1>1 DEF Suppress, Withdrawn, Queued, Alerts
<1>2. CASE transport' = transport
  BY <1>2
<1>3. ASSUME NEW u \in Transports, NEW a \in Actors, NEW moved \in BOOLEAN, Register(u, a, moved),
             ~Stays, NEW k \in Keys, k[2] = t
      PROVE  alert'[k].state # "leased"
  <2>1. PICK old \in {{}} \cup {{v} : v \in {v \in Transports \ {u} :
                              transport[v].status = "active" /\ transport[v].actor = a}} :
          /\ alert' = Suppress(Withdrawn(old \cup
                          (IF moved \/ transport[u].actor # a THEN {u} ELSE {})))
          /\ transport' = [v \in Transports |->
                IF v = u THEN [status |-> "active", actor |-> a, current |-> TRUE]
                ELSE IF v \in old THEN [transport[v] EXCEPT !.status = "revoked"]
                ELSE transport[v]]
    BY <1>3 DEF Register
  <2> DEFINE S == old \cup (IF moved \/ transport[u].actor # a THEN {u} ELSE {})
  <2>2. ASSUME t = u PROVE t \in S
    BY <1>3, <2>1, <2>2
  <2>3. ASSUME t # u PROVE t \in S
    BY <1>3, <2>1, <2>3
  <2>4. t \in S /\ alert' = Suppress(Withdrawn(S))
    BY <2>1, <2>2, <2>3
  <2> HIDE DEF S
  <2> QED
    BY <1>1, <1>3, <2>4
<1>4. ASSUME NEW u \in Transports, Revoke(u), ~Stays, NEW k \in Keys, k[2] = t
      PROVE  alert'[k].state # "leased"
  <2>1. t = u
    BY <1>4 DEF Revoke
  <2> QED
    BY <1>1, <1>4, <2>1 DEF Revoke
<1>5. CASE \E u \in Transports : TransportLapses(u)
  BY <1>5 DEF TransportLapses
<1>6. CASE QueueNext
  BY <1>2, <1>3, <1>4, <1>5, <1>6, ActorsAssumption
     DEF QueueNext, WriteItem, FoldItem, Write, EnqueueAlert, CommitWrite, CloseItem, ReopenItem, LoseSubject,
         SweepInbox, ChangeSettings, BackoffElapses, DeadlinePasses
<1>7. ASSUME NEW w \in Workers, NEW k \in Keys, Dispatch(w, k) PROVE Stays
  <2>1. CASE MarkStale(w, k)
    BY <2>1 DEF MarkStale
  <2> QED
    BY <1>7, <2>1 DEF Dispatch, CheckTransport, CheckItem, Mark, Skip, Answer, SuppressSiblings,
                      Refund, Settle, queueVars
<1> QED
  BY <1>2, <1>6, <1>7
     DEF Next, FailWrite, AbortWrite, Claim, Fail, Vanish, BreakerCloses, LeaseExpires, Prune, queueVars

LEMMA GateStillHoldsStep == ASSUME AInv, Next PROVE GateStillHolds'
<1> USE DEF AInv
<1>1. SUFFICES ASSUME NEW w \in Workers, NEW k \in Keys,
                      job'[w][k].at \in {"reachable", "built"}, Holds(w, k)'
               PROVE  transport'[k[2]].actor = Recipient /\ transport'[k[2]].status # "revoked"
  BY DEF GateStillHolds
<1>2. k[2] \in Transports
  BY MaxEventsAssumption DEF Keys
<1>3. CASE job'[w][k] = job[w][k]
  <2>1. Holds(w, k)
    BY <1>1, <1>3, HoldSteps DEF Claim
  <2>2. transport[k[2]].actor = Recipient /\ transport[k[2]].status # "revoked"
    BY <1>1, <1>3, <2>1 DEF GateStillHolds
  <2> QED
    BY <1>1, <1>2, <2>2, TransportSteps DEF Holds
<1>4. CASE CheckTransport(w, k) /\ Reachable(k)
  BY <1>4 DEF CheckTransport, Reachable, Deliverable, queueVars
<1>5. CASE CheckItem(w, k)
  BY <1>1, <1>5 DEF CheckItem, GateStillHolds, Holds
<1> QED
  BY <1>1, <1>3, <1>4, <1>5, JobSteps, JobMoves DEF NoJob

------------------------------------------------------------------------------
(* The invariant and the theorems                                             *)

LEMMA InitAInv == Init => AInv
<1> SUFFICES ASSUME Init PROVE AInv
  OBVIOUS
<1> USE DEF Init, QueueInit
<1>1. QueueTypeOK
  <2>1. item \in [Items -> ItemRows]
    BY MaxEventsAssumption DEF ItemRows
  <2>2. transport \in [Transports -> TransportRows]
    BY DEF TransportRows
  <2>3. alert \in [Keys -> Alerts]
    BY DEF NoAlert, Alerts, States
  <2> QED
    BY <2>1, <2>2, <2>3 DEF QueueTypeOK
<1>2. NoJob \in Jobs
  BY MaxEventsAssumption DEF NoJob, Jobs, Steps, Verdicts
<1>3. TypeOK
  BY <1>1, <1>2, MaxEventsAssumption, AttemptsAssumption DEF TypeOK
<1>4. OneQueuedAlert /\ WriterHasRoom /\ AttemptsMatchCalls
  BY DEF OneQueuedAlert, WriterHasRoom, AttemptsMatchCalls, Queued, NoAlert
<1>5. VerdictsAreDecided /\ AbsentIsIdle /\ GateStillHolds
  BY DEF VerdictsAreDecided, AbsentIsIdle, GateStillHolds, NoAlert, NoJob
<1>6. \A k \in Keys : Calling(k) = {}
  BY DEF Calling, NoJob
<1>7. ASSUME NEW k \in Keys PROVE Cardinality(Calling(k)) <= spent[k]
  <2>1. Cardinality(Calling(k)) = 0 /\ spent[k] = 0
    BY <1>6, FS_EmptySet
  <2> QED
    BY <2>1
<1>8. CallsAreCounted
  BY <1>7 DEF CallsAreCounted
<1> QED
  BY <1>3, <1>4, <1>5, <1>8 DEF AInv

LEMMA StutterAInv == ASSUME AInv, UNCHANGED vars PROVE AInv'
<1> USE DEF AInv, vars, ghosts
<1>1. TypeOK' /\ VerdictsAreDecided'
  BY DEF TypeOK, QueueTypeOK, VerdictsAreDecided
<1>2. OneQueuedAlert' /\ WriterHasRoom'
  BY DEF OneQueuedAlert, WriterHasRoom, IsNewest
<1>3. AbsentIsIdle' /\ AttemptsMatchCalls' /\ GateStillHolds'
  BY DEF AbsentIsIdle, AttemptsMatchCalls, GateStillHolds, Holds
<1>4. CallsAreCounted'
  BY DEF CallsAreCounted, Calling
<1> QED
  BY <1>1, <1>2, <1>3, <1>4

LEMMA NextAInv == AInv /\ [Next]_vars => AInv'
BY TypeStep, VerdictsStep, OneQueuedAlertStep, WriterHasRoomStep, AbsentIsIdleStep,
   AttemptsMatchStep, CallsAreCountedStep, GateStillHoldsStep, StutterAInv DEF AInv

LEMMA AlwaysAInv == Spec => []AInv
BY InitAInv, NextAInv, PTL DEF Spec

\* The tables, the jobs and the ghosts keep their types: no refund takes an
\* attempt count below zero, no item write enqueues an alert that has no row.
THEOREM AlertsTyped == Spec => []TypeOK
BY AlwaysAInv, PTL DEF AInv

\* At most one alert of an item waits for a device, and it is the newest
\* (enqueueAlerts:98-104), for every number of items, devices, workers and events.
THEOREM OneAlertWaits == Spec => []OneQueuedAlert
BY AlwaysAInv, PTL DEF AInv

\* attempt_count is the number of provider calls, refusals of Tower's credential
\* that were booked apart (mark:255-258, refund:302).
THEOREM AttemptsAreCalls == Spec => []AttemptsMatchCalls
BY AlwaysAInv, PTL DEF AInv

\* A settled alert stays settled (settle:153-162, suppressPending:127-132).
THEOREM SettledStaysSettled == Spec => SettlementIsFinal
<1>1. ASSUME AInv, [Next]_vars
      PROVE  [\A k \in Keys : alert[k].state \in Settled => alert'[k].state \in {alert[k].state, "none"}]_vars
  <2>1. ASSUME Next, NEW k \in Keys, alert[k].state \in Settled
        PROVE  alert'[k].state \in {alert[k].state, "none"}
    BY <1>1, <2>1, AlertSteps
       DEF AInv, WriterHasRoom, Inserts, Prunes, MovesOn, KeepsState, NoAlert, Queued, Settled
  <2> QED
    BY <1>1, <2>1
<1> QED
  BY <1>1, AlwaysAInv, PTL DEF Spec, SettlementIsFinal

\* A provider call begins while the token is the recipient's and not revoked
\* (gate:170-208, mark:255-259, suppressPending:127-132).
THEOREM TokenIsTheRecipients == Spec => CallsGoToTheOwner
<1>1. ASSUME AInv, [Next]_vars
      PROVE  [\A w \in Workers, k \in Keys :
                  job[w][k].at = "built" /\ job'[w][k].at = "calling"
                  => transport[k[2]].actor = Recipient /\ transport[k[2]].status # "revoked"]_vars
  <2>1. ASSUME Next, NEW w \in Workers, NEW k \in Keys, job[w][k].at = "built", job'[w][k].at = "calling"
        PROVE  transport[k[2]].actor = Recipient /\ transport[k[2]].status # "revoked"
    <3>1. Mark(w, k)
      BY <1>1, <2>1, JobSteps, JobMoves DEF AInv, NoJob
    <3> QED
      BY <1>1, <2>1, <3>1 DEF AInv, Mark, MayMark, GateStillHolds
  <2> QED
    BY <1>1, <2>1
<1> QED
  BY <1>1, AlwaysAInv, PTL DEF Spec, CallsGoToTheOwner

=============================================================================
