------------------------------- MODULE MCServices -------------------------------
(* The credit ledger, hosting credits and the notification inbox, each a module *)
(* of its own: they share the database but no table, so a behaviour of one is   *)
(* checked while the others stay as they began.                                 *)
EXTENDS CreditLedger, HostingCredits, NotificationInbox, TLC

CONSTANTS nobody, sp1, o1, w1, w2, cust, ws, ord, gk1, k1, k2, t1, m1, m2

(* Bounds on the inbox: the events are of one group, the source publishes one,  *)
(* and workers busy at once are busy with the same row.                         *)
OneGroup ==
  /\ Cardinality({Thread(queue[e].op) : e \in DOMAIN queue}) <= 1
  /\ Cardinality(Published) <= 1
  /\ \A w, v \in Projectors :
       job[w].phase # "idle" /\ job[v].phase # "idle" => job[w].row = job[v].row

ServicesInit == CreditInit /\ HostingInit /\ InboxInit

ServicesNext ==
  \/ HostingInit /\ InboxInit /\ CreditNext /\ UNCHANGED <<hostingVars, inboxVars>>
  \/ CreditInit /\ InboxInit /\ HostingNext /\ UNCHANGED <<creditVars, inboxVars>>
  \/ /\ CreditInit /\ HostingInit /\ InboxNext /\ OneGroup'
     /\ UNCHANGED <<creditVars, hostingVars>>

ServicesSpec ==
  ServicesInit /\ [][ServicesNext]_<<creditVars, hostingVars, inboxVars>>

(* The rows of all three have the types their tables give them, and a lock is   *)
(* held only by a request that is under way and works on that row.              *)
ServicesTypeOK == CreditTypeOK /\ HostingTypeOK /\ InboxTypeOK

Alike == Permutations({m1, m2})
================================================================================
