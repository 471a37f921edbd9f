------------------------------- MODULE GroupKeys -------------------------------
(* The members, epochs and wrapped keys of one group (groups.ts).  A rotation   *)
(* and a removal are transactions; adding a member is three statements that     *)
(* commit one by one, so both may run between them.  A key stands for the       *)
(* secret that a client wrapped, named by the identity of its epoch.            *)
EXTENDS Integers, Sequences

CONSTANTS
  People,
  Identities,      \* group_npubs
  Admins, NoAdmin, \* requests that manage the group; nobody
  MaxEpochs

ASSUME GroupAssumption == MaxEpochs \in Nat \ {0} /\ NoAdmin \notin Admins

VARIABLES
  epochs,       \* epoch -> its identity and whether a later one supersedes it
  groupNpub,    \* the identity on the group's own row
  enrolled,     \* the people with a membership row
  wrapped,      \* person -> epoch label -> key
  admin,        \* request -> what it has read or not yet committed
  deleted,      \* whether the group was deleted; its rows go with it
  rotating      \* the request whose uncommitted epoch the others wait for

groupVars == <<epochs, groupNpub, enrolled, wrapped, admin, deleted, rotating>>

Epochs == 1 .. MaxEpochs
NoKeyYet == [state |-> "none", opens |-> NoAdmin]
LiveKey(identity) == [state |-> "live", opens |-> identity]
Free == [kind |-> "free"]
Exists == epochs # <<>>
Plans(p, next) == admin' = [admin EXCEPT ![p] = next]

GroupInit ==
  /\ epochs = <<>> /\ groupNpub = NoAdmin
  /\ enrolled = {}
  /\ wrapped = [m \in People |-> [e \in Epochs |-> NoKeyYet]]
  /\ admin = [p \in Admins |-> Free]
  /\ deleted = FALSE /\ rotating = NoAdmin

CreateGroup(identity, list) ==
  /\ ~Exists /\ ~deleted
  /\ epochs' = <<[npub |-> identity, superseded |-> FALSE]>>
  /\ groupNpub' = identity
  /\ enrolled' = list
  /\ wrapped' = [m \in People |->
       IF m \in list THEN [wrapped[m] EXCEPT ![1] = LiveKey(identity)] ELSE wrapped[m]]
  /\ UNCHANGED <<admin, deleted, rotating>>

--------------------------------------------------------------------------------
(* Adding a member: the row, the epoch to label the key with, and the key.      *)

AddMembership(p, m) ==
  /\ admin[p] = Free /\ Exists
  /\ ~(rotating # NoAdmin /\ m \in admin[rotating].joins \cup admin[rotating].leaves)
  /\ enrolled' = enrolled \cup {m}
  /\ Plans(p, [kind |-> "label", member |-> m, opens |-> groupNpub])
  /\ UNCHANGED <<epochs, groupNpub, wrapped, deleted, rotating>>

(* Mutant: a group deleted since the membership was added has the label 0. *)
ReadEpochOrZero(p) ==
  /\ admin[p].kind = "label"
  /\ Plans(p, [kind |-> "key", member |-> admin[p].member, opens |-> admin[p].opens,
               epoch |-> Len(epochs)])
  /\ UNCHANGED <<epochs, groupNpub, enrolled, wrapped, deleted, rotating>>

ReadCurrentEpoch(p) ==
  /\ admin[p].kind = "label" /\ Exists
  /\ Plans(p, [kind |-> "key", member |-> admin[p].member, opens |-> admin[p].opens,
               epoch |-> Len(epochs)])
  /\ UNCHANGED <<epochs, groupNpub, enrolled, wrapped, deleted, rotating>>

(* Mutant: the key of a new member is version 1. *)
AddWithFirstVersion(p) ==
  /\ admin[p].kind = "key" /\ Exists
  /\ wrapped' = [wrapped EXCEPT ![admin[p].member][1] = LiveKey(admin[p].opens)]
  /\ Plans(p, Free)
  /\ UNCHANGED <<epochs, groupNpub, enrolled, deleted, rotating>>

(* A key that is there already under that label is replaced and is live again.  *)
AddGroupMember(p) ==
  /\ admin[p].kind = "key" /\ Exists
  /\ wrapped' = [wrapped EXCEPT ![admin[p].member][admin[p].epoch] =
                   LiveKey(admin[p].opens)]
  /\ Plans(p, Free)
  /\ UNCHANGED <<epochs, groupNpub, enrolled, deleted, rotating>>

(* A membership that an uncommitted rotation deletes cannot be removed: the      *)
(* statement waits, and then finds no row.                                       *)
RemoveGroupMember(m) ==
  /\ m \in enrolled
  /\ ~(rotating # NoAdmin /\ m \in admin[rotating].leaves)
  /\ enrolled' = enrolled \ {m}
  /\ wrapped' = [wrapped EXCEPT ![m] =
       [e \in Epochs |-> IF @[e].state = "live" THEN [@[e] EXCEPT !.state = "revoked"]
                         ELSE @[e]]]
  /\ UNCHANGED <<epochs, groupNpub, admin, deleted, rotating>>

--------------------------------------------------------------------------------
(* Rotation.                                                                    *)

ReadMaxEpoch(p, identity, list) ==
  /\ admin[p] = Free /\ Exists /\ Len(epochs) < MaxEpochs
  /\ Plans(p, [kind |-> "rotate", npub |-> identity, list |-> list,
               next |-> Len(epochs) + 1])
  /\ UNCHANGED <<epochs, groupNpub, enrolled, wrapped, deleted, rotating>>

(* Mutant: no constraint on the epoch's identity. *)
IsNewNumber(r) == r.next \notin DOMAIN epochs
IsNewEpoch(r) ==
  /\ r.next \notin DOMAIN epochs
  /\ \A e \in DOMAIN epochs : epochs[e].npub # r.npub

(* The statements of the transaction up to its commit: what it deletes and      *)
(* inserts is decided by the rows there are now.                                *)
RotateMembers(p) ==
  /\ admin[p].kind = "rotate" /\ rotating = NoAdmin /\ Exists
  /\ IsNewEpoch(admin[p])
  /\ rotating' = p
  /\ Plans(p, [kind |-> "commit", npub |-> admin[p].npub, list |-> admin[p].list,
               next |-> admin[p].next, leaves |-> enrolled \ admin[p].list,
               joins |-> admin[p].list \ enrolled])
  /\ UNCHANGED <<epochs, groupNpub, enrolled, wrapped, deleted>>

RotateGroupEpoch(p) ==
  /\ admin[p].kind = "commit"
  /\ LET r == admin[p] IN
       /\ epochs' = [e \in 1 .. r.next |->
            IF e = r.next THEN [npub |-> r.npub, superseded |-> FALSE]
            ELSE IF e = r.next - 1 THEN [epochs[e] EXCEPT !.superseded = TRUE]
            ELSE epochs[e]]
       /\ groupNpub' = r.npub
       /\ enrolled' = (enrolled \ r.leaves) \cup r.joins
       /\ wrapped' = [m \in People |->
            IF m \in r.list THEN [wrapped[m] EXCEPT ![r.next] = LiveKey(r.npub)]
            ELSE wrapped[m]]
  /\ rotating' = NoAdmin /\ Plans(p, Free)
  /\ UNCHANGED deleted

(* An uncommitted rotation refers to the group's row and keeps it from going.   *)
DeleteGroup ==
  /\ Exists /\ rotating = NoAdmin
  /\ deleted' = TRUE
  /\ epochs' = <<>> /\ groupNpub' = NoAdmin /\ enrolled' = {}
  /\ wrapped' = [m \in People |-> [e \in Epochs |-> NoKeyYet]]
  /\ UNCHANGED <<admin, rotating>>

(* A unique constraint fails (another rotation came first, or the identity is   *)
(* taken), or the group is gone: the statement's transaction is undone.         *)
RequestFails(p) ==
  /\ admin[p] # Free /\ rotating = NoAdmin
  /\ ~Exists \/ (admin[p].kind = "rotate" /\ ~IsNewEpoch(admin[p]))
  /\ Plans(p, Free)
  /\ UNCHANGED <<epochs, groupNpub, enrolled, wrapped, deleted, rotating>>

GroupNext ==
  \/ \E i \in Identities, list \in SUBSET People \ {{}} :
       CreateGroup(i, list) \/ (\E p \in Admins : ReadMaxEpoch(p, i, list))
  \/ \E m \in People :
       RemoveGroupMember(m) \/ (\E p \in Admins : AddMembership(p, m))
  \/ \E p \in Admins : ReadCurrentEpoch(p) \/ AddGroupMember(p) \/ RotateMembers(p)
                        \/ RotateGroupEpoch(p) \/ RequestFails(p)
  \/ DeleteGroup

GroupSpec == GroupInit /\ [][GroupNext]_groupVars

--------------------------------------------------------------------------------
(* Properties.                                                                  *)

GroupTypeOK ==
  /\ epochs \in Seq([npub : Identities, superseded : BOOLEAN]) /\ Len(epochs) <= MaxEpochs
  /\ groupNpub \in Identities \cup {NoAdmin} /\ enrolled \subseteq People
  /\ wrapped \in [People -> [Epochs ->
       {NoKeyYet} \cup [state : {"live", "revoked"}, opens : Identities]]]
  /\ rotating \in Admins \cup {NoAdmin} /\ deleted \in BOOLEAN
  /\ admin \in [Admins ->
       {Free}
       \cup [kind : {"label"}, member : People, opens : Identities]
       \cup [kind : {"key"}, member : People, opens : Identities, epoch : Epochs]
       \cup [kind : {"rotate"}, npub : Identities, list : SUBSET People, next : Epochs]
       \cup [kind : {"commit"}, npub : Identities, list : SUBSET People, next : Epochs,
             leaves : SUBSET People, joins : SUBSET People]]

(* However many rotations run at once, exactly the last epoch is current, the   *)
(* group's row names its identity, and no identity serves two epochs.           *)
OneCurrentEpoch ==
  /\ \A e \in DOMAIN epochs : epochs[e].superseded <=> e < Len(epochs)
  /\ Exists => groupNpub = epochs[Len(epochs)].npub
  /\ \A e1, e2 \in DOMAIN epochs : epochs[e1].npub = epochs[e2].npub => e1 = e2

(* A key opens no later epoch than the one it is labelled with, although a      *)
(* member is added with a label that is read after the client wrapped the key   *)
(* and while the group is rotated.                                              *)
KeysOpenNoLaterEpoch ==
  \A m \in People, e \in Epochs : wrapped[m][e] # NoKeyYet =>
    \E i \in DOMAIN epochs : i <= e /\ epochs[i].npub = wrapped[m][e].opens
================================================================================
