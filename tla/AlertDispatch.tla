---------------------------- MODULE AlertDispatch ----------------------------
(* Worker processes that deliver the queue of AlertQueue: claim an alert under *)
(* a lease, check it again, mark the attempt, call the provider, settle.       *)
(*                                                                             *)
(* Every statement of a worker that reads or writes shared rows is a step of   *)
(* its own, so that producers, registrations, lease expiry and other workers   *)
(* come in between.  The alerts of one batch are dispatched concurrently; each *)
(* is a job of its process.  A process never works twice at once on one alert, *)
(* so the process stands for the lease_owner of the batch (a new one each      *)
(* time).  A job that disappears is a crash of its process, or an error of the *)
(* statement that was to settle it.                                            *)
(*                                                                             *)
(* spent and told are ghosts: provider calls begun less the refusals of        *)
(* Tower's credential that were booked, and the number of events the last call *)
(* announced.                                                                  *)
EXTENDS AlertQueue

CONSTANTS
    MaxAttempts,    \* MAX_ATTEMPTS
    MaxFaults       \* bound on crashes, errors and stalls

ASSUME AttemptsAssumption == MaxAttempts \in Nat \ {0} /\ MaxFaults \in Nat

VARIABLES
    job,        \* what each process does with each alert
    breaker,    \* processes whose circuit breaker is open
    faults,     \* crashes, errors and stalls so far
    spent, told

vars == <<item, transport, alert, allowed, writer, job, breaker, faults, spent, told>>
ghosts == <<spent, told>>

Steps == {"idle", "claimed", "reachable", "built", "calling", "refused", "stale", "gone", "settling"}
Verdicts == {"none", "failed", "sent", "suppressed", "dead"}

\* claimed: attempt_count as it was claimed; events: what the content says.
Jobs == [at : Steps, claimed : Nat, events : 0..MaxEvents, verdict : Verdicts]
NoJob == [at |-> "idle", claimed |-> 0, events |-> 0, verdict |-> "none"]

Init ==
    /\ QueueInit
    /\ job = [w \in Workers |-> [k \in Keys |-> NoJob]]
    /\ breaker = {}
    /\ faults = 0
    /\ spent = [k \in Keys |-> 0]
    /\ told = [k \in Keys |-> 0]

Holds(w, k) == alert[k].owner = w /\ alert[k].state = "leased"
Busy(k) == \E w \in Workers : job[w][k].at # "idle"

Go(w, k, step) == job' = [job EXCEPT ![w][k].at = step]
Conclude(w, k, verdict) ==
    job' = [job EXCEPT ![w][k] = [NoJob EXCEPT !.at = "settling", !.verdict = verdict]]
Stop(w, k) == job' = [job EXCEPT ![w][k] = NoJob]

-----------------------------------------------------------------------------
(* One alert through a worker                                                  *)

\* A claim that leaves the leases of crashed workers alone.
ClaimableFresh(k) == alert[k].state \in {"pending", "failed"} /\ alert[k].due

Claimable(k) ==
    \/ alert[k].state \in {"pending", "failed"} /\ alert[k].due
    \/ alert[k].state = "leased" /\ ~alert[k].held

\* A claim that starts the attempts over.
LeasedAfresh(w, k) == [alert[k] EXCEPT !.state = "leased", !.owner = w, !.held = TRUE, !.attempts = 0]

Leased(w, k) == [alert[k] EXCEPT !.state = "leased", !.owner = w, !.held = TRUE]

Claim(w, k) ==
    /\ job[w][k].at = "idle" /\ w \notin breaker
    /\ Claimable(k)
    /\ alert' = [alert EXCEPT ![k] = Leased(w, k)]
    /\ job' = [job EXCEPT ![w][k] = [NoJob EXCEPT !.at = "claimed", !.claimed = alert[k].attempts]]
    /\ UNCHANGED <<item, transport, allowed, writer, breaker, faults, ghosts>>

Reachable(k) == Deliverable(k[2]) /\ ~alert[k].late

\* gate, the transport and the deadline.
CheckTransport(w, k) ==
    /\ job[w][k].at = "claimed"
    /\ IF Reachable(k) THEN Go(w, k, "reachable") ELSE Conclude(w, k, "suppressed")
    /\ UNCHANGED <<queueVars, breaker, faults, ghosts>>

Built(w, k, events) == [job[w][k] EXCEPT !.at = "built", !.events = events]

\* gate, the sweep and the item; the content is built from the row it read.  The
\* missing origin that makes an alert dead is one of the settings.
CheckItem(w, k) ==
    /\ job[w][k].at = "reachable"
    /\ Doomed # {} => writer = Idle
    /\ item' = Swept
    /\ LET row == Swept[k[1]]
           pair == <<k[1], k[2]>>
       IN  \/ /\ row.open /\ ~row.removed /\ pair \in allowed
              /\ job' = [job EXCEPT ![w][k] = Built(w, k, row.events)]
           \/ /\ ~row.open \/ row.removed \/ pair \notin allowed
              /\ Conclude(w, k, "suppressed")
           \/ row.open /\ ~row.removed /\ pair \notin allowed /\ Conclude(w, k, "dead")
    /\ UNCHANGED <<transport, alert, allowed, writer, breaker, faults, ghosts>>

\* The write-ahead mark without its comparison of the attempt count.
MayMarkAnyCount(w, k) == Holds(w, k) /\ alert[k].held

MayMark(w, k) == Holds(w, k) /\ alert[k].held /\ alert[k].attempts = job[w][k].claimed

\* The write-ahead mark: last lease check, attempt number, renewed lease.  A
\* worker that lost the alert marks nothing and drops it.
Mark(w, k) ==
    /\ job[w][k].at = "built" /\ MayMark(w, k)
    /\ alert' = [alert EXCEPT ![k].attempts = job[w][k].claimed + 1]
    /\ spent' = [spent EXCEPT ![k] = @ + 1]
    /\ told' = [told EXCEPT ![k] = job[w][k].events]
    /\ Go(w, k, "calling")
    /\ UNCHANGED <<item, transport, allowed, writer, breaker, faults>>

Skip(w, k) ==
    /\ job[w][k].at = "built" /\ ~MayMark(w, k)
    /\ Stop(w, k)
    /\ UNCHANGED <<queueVars, breaker, faults, ghosts>>

\* The provider's answer, or none in time (transient).  A transient failure is
\* retried unless the attempts or the time are used up.
Exhausted(w, k) == job[w][k].claimed + 1 >= MaxAttempts \/ alert[k].late

Answer(w, k) ==
    /\ job[w][k].at = "calling"
    /\ \/ Conclude(w, k, "sent") /\ UNCHANGED breaker
       \/ Conclude(w, k, "dead") /\ UNCHANGED breaker
       \/ ~Exhausted(w, k) /\ Conclude(w, k, "failed") /\ UNCHANGED breaker
       \/ Go(w, k, "stale") /\ UNCHANGED breaker
       \/ Go(w, k, "refused") /\ breaker' = breaker \cup {w}
    /\ UNCHANGED <<queueVars, faults, ghosts>>

\* stale_token: the row turns stale if it is still active ...
MarkStale(w, k) ==
    /\ job[w][k].at = "stale"
    /\ transport' = [transport EXCEPT ![k[2]].status = IF @ = "active" THEN "stale" ELSE @]
    /\ Go(w, k, "gone")
    /\ UNCHANGED <<item, alert, allowed, writer, breaker, faults, ghosts>>

\* ... its other waiting alerts are suppressed, and this one is dead.
SuppressSiblings(w, k) ==
    /\ job[w][k].at = "gone"
    /\ alert' = Suppress({n \in Keys : n # k /\ n[2] = k[2] /\ alert[n].state \in {"pending", "failed"}})
    /\ Conclude(w, k, "dead")
    /\ UNCHANGED <<item, transport, allowed, writer, breaker, faults, ghosts>>

\* credential: the attempt is given back, whoever holds the alert now.
Refund(w, k) ==
    /\ job[w][k].at = "refused"
    /\ alert' = [alert EXCEPT ![k].attempts = @ - 1]
    /\ spent' = [spent EXCEPT ![k] = @ - 1]
    /\ Conclude(w, k, "failed")
    /\ UNCHANGED <<item, transport, allowed, writer, breaker, faults, told>>

SettledAs(k, verdict) ==
    [alert EXCEPT ![k] = [@ EXCEPT !.state = verdict, !.owner = NoWorker,
                                   !.held = FALSE, !.due = verdict # "failed"]]

\* settle without its guard on the owner and the state.
SettlementAnyway(w, k) == SettledAs(k, job[w][k].verdict)

\* settle: only the worker that holds the alert decides it.
Settlement(w, k) == IF Holds(w, k) THEN SettledAs(k, job[w][k].verdict) ELSE alert

Settle(w, k) ==
    /\ job[w][k].at = "settling"
    /\ alert' = Settlement(w, k)
    /\ Stop(w, k)
    /\ UNCHANGED <<item, transport, allowed, writer, breaker, faults, ghosts>>

-----------------------------------------------------------------------------
(* What goes wrong                                                             *)

\* Any statement of a job may fail: the alert is given back with a backoff.
Fail(w, k) ==
    /\ job[w][k].at # "idle" /\ job[w][k].verdict # "failed" /\ faults < MaxFaults
    /\ faults' = faults + 1
    /\ Conclude(w, k, "failed")
    /\ UNCHANGED <<queueVars, breaker, ghosts>>

\* A failure inside an item write rolls it back; the intake row retries.
FailWrite == AbortWrite /\ faults < MaxFaults /\ faults' = faults + 1 /\ UNCHANGED <<job, breaker, ghosts>>

\* A process stops, with all its jobs or with one whose settlement failed.
Vanish(w) ==
    /\ faults < MaxFaults
    /\ \E K \in SUBSET {k \in Keys : job[w][k].at # "idle"} :
           /\ K # {}
           /\ job' = [job EXCEPT ![w] = [k \in Keys |-> IF k \in K THEN NoJob ELSE job[w][k]]]
    /\ breaker' \in {breaker, breaker \ {w}}
    /\ faults' = faults + 1
    /\ UNCHANGED <<queueVars, ghosts>>

\* The lease of an alert nobody works on, or of one whose worker stalls.
LeaseExpires(k) ==
    /\ alert[k].state = "leased" /\ alert[k].held
    /\ alert' = [alert EXCEPT ![k].held = FALSE]
    /\ IF \E w \in Workers : alert[k].owner = w /\ job[w][k].at # "idle"
       THEN faults < MaxFaults /\ faults' = faults + 1
       ELSE UNCHANGED faults
    /\ UNCHANGED <<item, transport, allowed, writer, job, breaker, ghosts>>

BreakerCloses(w) ==
    /\ w \in breaker
    /\ breaker' = breaker \ {w}
    /\ UNCHANGED <<queueVars, job, faults, ghosts>>

\* pruneAlerts, two weeks after the alert was queued: no job is that old.
Prune(k) ==
    /\ alert[k].state \in Settled /\ ~Busy(k)
    /\ alert' = [alert EXCEPT ![k] = NoAlert]
    /\ spent' = [spent EXCEPT ![k] = 0]
    /\ told' = [told EXCEPT ![k] = 0]
    /\ UNCHANGED <<item, transport, allowed, writer, job, breaker, faults>>

Dispatch(w, k) ==
    \/ CheckTransport(w, k) \/ CheckItem(w, k) \/ Mark(w, k) \/ Skip(w, k) \/ Answer(w, k)
    \/ MarkStale(w, k) \/ SuppressSiblings(w, k) \/ Refund(w, k) \/ Settle(w, k)

Next ==
    \/ QueueNext /\ UNCHANGED <<job, breaker, faults, ghosts>>
    \/ FailWrite
    \/ \E w \in Workers, k \in Keys : Claim(w, k) \/ Dispatch(w, k) \/ Fail(w, k)
    \/ \E w \in Workers : Vanish(w) \/ BreakerCloses(w)
    \/ \E k \in Keys : LeaseExpires(k) \/ ("prune" \in Events /\ Prune(k))

Spec == Init /\ [][Next]_vars

\* The workers' timer keeps ticking and a running job goes on; time passes.
Fairness ==
    /\ \A k \in Keys :
          /\ WF_vars(\E w \in Workers : Claim(w, k))
          /\ \A w \in Workers : WF_vars(Dispatch(w, k))
          /\ WF_vars(LeaseExpires(k))
          /\ WF_vars(BackoffElapses(k) /\ UNCHANGED <<job, breaker, faults, ghosts>>)
          /\ WF_vars(DeadlinePasses(k) /\ UNCHANGED <<job, breaker, faults, ghosts>>)
    /\ \A w \in Workers : WF_vars(BreakerCloses(w))
    /\ WF_vars((CommitWrite \/ \E t \in Transports : EnqueueAlert(t))
               /\ UNCHANGED <<job, breaker, faults, ghosts>>)

LiveSpec == Spec /\ Fairness

-----------------------------------------------------------------------------
TypeOK ==
    /\ QueueTypeOK
    /\ job \in [Workers -> [Keys -> Jobs]]
    /\ breaker \subseteq Workers
    /\ faults \in 0..MaxFaults
    /\ spent \in [Keys -> Nat]
    /\ told \in [Keys -> 0..MaxEvents]

\* However folds, settlements, withdrawals and pruning interleave, at most one
\* alert of an item waits for a device, and it is the newest one
\* (enqueueAlerts:98-104).
OneQueuedAlert ==
    \A k \in Keys : alert[k].state \in Queued => IsNewest(k)

\* An alert that was sent, suppressed or declared dead stays so: a worker that
\* answers late, a reclaim or a withdrawal never changes it (settle:153-162,
\* suppressPending).
SettlementIsFinal ==
    [][\A k \in Keys : alert[k].state \in Settled
          => alert'[k].state \in {alert[k].state, "none"}]_vars

\* When a provider call begins, the token still belongs to the recipient of the
\* item and was not revoked, even though it was checked several statements ago
\* (gate:170-208, mark:255-259, suppressPending:127-132).
CallsGoToTheOwner ==
    [][\A w \in Workers, k \in Keys :
          job[w][k].at = "built" /\ job'[w][k].at = "calling"
          => transport[k[2]].actor = Recipient /\ transport[k[2]].status # "revoked"]_vars

\* attempt_count says how many provider calls the alert has used, also when a
\* credential refusal is booked after another worker took the alert over
\* (mark:255-258, refund:302).
AttemptsMatchCalls == \A k \in Keys : alert[k].state # "none" => alert[k].attempts = spent[k]

\* Whatever the provider answers, and whichever worker crashes or stalls, every
\* queued alert is settled in the end (claim:140-147, gate:184, dispatchOne).
AlertsSettle == \A k \in Keys : alert[k].state \in Queued ~> alert[k].state \notin Queued

\* docs/contract/notifications-push-v1.md:167 "A folded item re-alerts under a
\* new generation": the newest alert of an open item, once sent, announced every
\* event folded into it.
FoldsAreAlerted ==
    \A k \in Keys :
        IsNewest(k) /\ alert[k].state = "sent" /\ item[k[1]].open
        => told[k] = item[k[1]].events
=============================================================================
