---------------------------- MODULE GroupKeysProofs ----------------------------
(* Theorems about GroupKeys for every number of people, identities, requests    *)
(* and epochs.  The inductive invariant GroupInv adds to the properties what a  *)
(* request may still rely on when it goes on: the rotation that waits to commit *)
(* makes the next epoch with a new identity, and what an added member was given *)
(* is the identity of an epoch there is.                                        *)
EXTENDS GroupKeys, SequenceTheorems, TLAPS

EpochRows == [npub : Identities, superseded : BOOLEAN]
Keys == {NoKeyYet} \cup [state : {"live", "revoked"}, opens : Identities]
Labels == [kind : {"label"}, member : People, opens : Identities]
KeyRequests == [kind : {"key"}, member : People, opens : Identities, epoch : Epochs]
Rotations == [kind : {"rotate"}, npub : Identities, list : SUBSET People, next : Epochs]
Commits == [kind : {"commit"}, npub : Identities, list : SUBSET People, next : Epochs,
            leaves : SUBSET People, joins : SUBSET People]
GroupRequests == {Free} \cup Labels \cup KeyRequests \cup Rotations \cup Commits

(* The identity is that of epoch e or of an earlier one.                        *)
Served(identity, e) == \E i \in DOMAIN epochs : i <= e /\ epochs[i].npub = identity

(* What each request may rely on, while the group exists.                       *)
Holds(r) ==
  /\ r.kind = "label" /\ Exists => Served(r.opens, Len(epochs))
  /\ r.kind = "key" /\ Exists => Served(r.opens, r.epoch)
  /\ r.kind = "rotate" /\ Exists => r.next <= Len(epochs) + 1
  /\ r.kind = "commit" => Exists /\ r.next = Len(epochs) + 1 /\ IsNewEpoch(r)

OneRotation == \A p \in Admins : admin[p].kind = "commit" <=> rotating = p
RequestsFollow == \A p \in Admins : Holds(admin[p])
NoRequestsBefore == ~Exists /\ ~deleted => \A p \in Admins : admin[p] = Free
GoneForGood == deleted => ~Exists

GroupInv ==
  /\ GroupTypeOK
  /\ OneCurrentEpoch
  /\ KeysOpenNoLaterEpoch
  /\ OneRotation
  /\ RequestsFollow
  /\ NoRequestsBefore
  /\ GoneForGood

--------------------------------------------------------------------------------
LEMMA GroupTypes ==
  ASSUME GroupTypeOK
  PROVE  /\ epochs \in Seq(EpochRows) /\ Len(epochs) \in 0 .. MaxEpochs
         /\ DOMAIN epochs = 1 .. Len(epochs)
         /\ Exists <=> Len(epochs) # 0
         /\ \A e \in DOMAIN epochs : epochs[e] \in EpochRows
         /\ wrapped \in [People -> [Epochs -> Keys]]
         /\ admin \in [Admins -> GroupRequests]
<1>1. epochs \in Seq(EpochRows) /\ Len(epochs) <= MaxEpochs
  BY DEF GroupTypeOK, EpochRows
<1>2. wrapped \in [People -> [Epochs -> Keys]]
  BY DEF GroupTypeOK, Keys
<1>3. admin \in [Admins -> GroupRequests]
  BY DEF GroupTypeOK, GroupRequests, Labels, KeyRequests, Rotations, Commits
<1> QED BY <1>1, <1>2, <1>3, GroupAssumption DEF Exists

LEMMA RequestKinds ==
  ASSUME NEW r \in GroupRequests
  PROVE  /\ r.kind = "free" <=> r = Free
         /\ r.kind = "label" => r \in Labels
         /\ r.kind = "key" => r \in KeyRequests
         /\ r.kind = "rotate" => r \in Rotations
         /\ r.kind = "commit" => r \in Commits
BY DEF GroupRequests, Labels, KeyRequests, Rotations, Commits, Free

LEMMA TypesFromParts ==
  ASSUME epochs' \in Seq(EpochRows), Len(epochs') <= MaxEpochs,
         groupNpub' \in Identities \cup {NoAdmin}, enrolled' \subseteq People,
         wrapped' \in [People -> [Epochs -> Keys]],
         rotating' \in Admins \cup {NoAdmin}, deleted' \in BOOLEAN,
         admin' \in [Admins -> GroupRequests]
  PROVE  GroupTypeOK'
BY DEF GroupTypeOK, EpochRows, Keys, GroupRequests, Labels, KeyRequests, Rotations, Commits

(* Steps of one request that leave the epochs alone.                            *)
SameEpochs == epochs' = epochs /\ groupNpub' = groupNpub /\ deleted' = deleted

LEMMA RequestSteps ==
  ASSUME GroupInv, SameEpochs, NEW p \in Admins, NEW next \in GroupRequests,
         admin' = [admin EXCEPT ![p] = next],
         Exists \/ next = Free,
         Holds(next),
         rotating' \in Admins \cup {NoAdmin},
         next.kind = "commit" => rotating = NoAdmin /\ rotating' = p,
         next.kind # "commit" => rotating' = rotating /\ rotating # p,
         enrolled' \subseteq People,
         wrapped' \in [People -> [Epochs -> Keys]],
         \A m \in People, e \in Epochs :
           wrapped'[m][e] # NoKeyYet =>
             Served(wrapped'[m][e].opens, e)
  PROVE  GroupInv'
<1> USE DEF GroupInv
<1>1. /\ epochs \in Seq(EpochRows) /\ Len(epochs) \in 0 .. MaxEpochs
      /\ admin \in [Admins -> GroupRequests]
  BY GroupTypes
<1>2. admin' \in [Admins -> GroupRequests] /\ admin'[p] = next
      /\ \A q \in Admins : q # p => admin'[q] = admin[q]
  BY <1>1
<1>3. GroupTypeOK'
  <2>1. groupNpub' \in Identities \cup {NoAdmin} /\ deleted' \in BOOLEAN
    BY DEF SameEpochs, GroupTypeOK
  <2> QED BY <2>1, <1>1, <1>2, TypesFromParts, GroupAssumption DEF SameEpochs
<1>4. OneCurrentEpoch' /\ GoneForGood'
  BY DEF OneCurrentEpoch, GoneForGood, SameEpochs, Exists
<1>5. KeysOpenNoLaterEpoch'
  BY DEF KeysOpenNoLaterEpoch, Served, SameEpochs
<1>6. OneRotation'
  BY <1>2, GroupAssumption DEF OneRotation
<1>7. RequestsFollow'
  <2>1. \A q \in Admins : Holds(admin[q])' <=> Holds(admin'[q])
    BY DEF Holds, Served, IsNewEpoch, SameEpochs, Exists
  <2> QED BY <2>1, <1>2 DEF RequestsFollow
<1>8. NoRequestsBefore'
  BY <1>2 DEF NoRequestsBefore, SameEpochs, Exists
<1> QED BY <1>3, <1>4, <1>5, <1>6, <1>7, <1>8

(* The request that acts holds no uncommitted rotation unless it is one.        *)
LEMMA NotRotating ==
  ASSUME GroupInv, NEW p \in Admins, admin[p].kind # "commit"
  PROVE  rotating # p
BY DEF GroupInv, OneRotation

LEMMA MembershipAdded ==
  ASSUME GroupInv, NEW p \in Admins, NEW m \in People, AddMembership(p, m)
  PROVE  GroupInv'
<1> DEFINE next == [kind |-> "label", member |-> m, opens |-> groupNpub]
<1>1. Exists /\ admin[p].kind # "commit"
  BY DEF AddMembership, Free
<1>2. /\ Len(epochs) \in DOMAIN epochs
      /\ groupNpub = epochs[Len(epochs)].npub /\ groupNpub \in Identities
  BY <1>1, GroupTypes DEF GroupInv, OneCurrentEpoch, EpochRows
<1>3. next \in GroupRequests /\ Holds(next)
  BY <1>2, GroupTypes DEF GroupInv, GroupRequests, Labels, Holds, Served
<1>4. enrolled' \subseteq People
  BY DEF AddMembership, GroupInv, GroupTypeOK
<1>5. /\ wrapped' \in [People -> [Epochs -> Keys]]
      /\ \A n \in People, e \in Epochs :
           wrapped'[n][e] # NoKeyYet => Served(wrapped'[n][e].opens, e)
  BY GroupTypes DEF AddMembership, GroupInv, KeysOpenNoLaterEpoch, Served
<1>6. rotating' \in Admins \cup {NoAdmin} /\ rotating' = rotating /\ rotating # p
  BY <1>1, NotRotating DEF AddMembership, GroupInv, GroupTypeOK
<1>7. SameEpochs /\ admin' = [admin EXCEPT ![p] = next] /\ next.kind # "commit"
  BY DEF AddMembership, Plans, SameEpochs
<1> HIDE DEF next
<1> QED BY <1>1, <1>3, <1>4, <1>5, <1>6, <1>7, RequestSteps

LEMMA CurrentEpochRead ==
  ASSUME GroupInv, NEW p \in Admins, ReadCurrentEpoch(p)
  PROVE  GroupInv'
<1> DEFINE next == [kind |-> "key", member |-> admin[p].member,
                    opens |-> admin[p].opens, epoch |-> Len(epochs)]
<1>1. Exists /\ admin[p].kind = "label"
  BY DEF ReadCurrentEpoch
<1>2. admin[p] \in Labels /\ Served(admin[p].opens, Len(epochs))
  BY <1>1, GroupTypes, RequestKinds DEF GroupInv, RequestsFollow, Holds
<1>3. Len(epochs) \in Epochs
  BY <1>1, GroupTypes DEF GroupInv, Epochs
<1>4. next \in GroupRequests /\ Holds(next)
  BY <1>2, <1>3 DEF GroupRequests, Labels, KeyRequests, Holds
<1>5. enrolled' \subseteq People
  BY DEF ReadCurrentEpoch, GroupInv, GroupTypeOK
<1>6. /\ wrapped' \in [People -> [Epochs -> Keys]]
      /\ \A n \in People, e \in Epochs :
           wrapped'[n][e] # NoKeyYet => Served(wrapped'[n][e].opens, e)
  BY GroupTypes DEF ReadCurrentEpoch, GroupInv, KeysOpenNoLaterEpoch, Served
<1>7. rotating' \in Admins \cup {NoAdmin} /\ rotating' = rotating /\ rotating # p
  BY <1>1, NotRotating DEF ReadCurrentEpoch, GroupInv, GroupTypeOK
<1>8. SameEpochs /\ admin' = [admin EXCEPT ![p] = next] /\ next.kind # "commit"
  BY DEF ReadCurrentEpoch, Plans, SameEpochs
<1> HIDE DEF next
<1> QED BY <1>1, <1>4, <1>5, <1>6, <1>7, <1>8, RequestSteps

LEMMA MemberAdded ==
  ASSUME GroupInv, NEW p \in Admins, AddGroupMember(p)
  PROVE  GroupInv'
<1> DEFINE r == admin[p]
           key == LiveKey(r.opens)
<1>1. Exists /\ r.kind = "key"
  BY DEF AddGroupMember
<1>2. r \in KeyRequests /\ Served(r.opens, r.epoch)
  BY <1>1, GroupTypes, RequestKinds DEF GroupInv, RequestsFollow, Holds
<1>3. key \in Keys /\ key.opens = r.opens
  BY <1>2 DEF KeyRequests, Keys, LiveKey
<1>4. /\ wrapped \in [People -> [Epochs -> Keys]]
      /\ wrapped' = [wrapped EXCEPT ![r.member][r.epoch] = key]
      /\ r.member \in People /\ r.epoch \in Epochs
  BY <1>2, GroupTypes DEF AddGroupMember, GroupInv, KeyRequests
<1> HIDE DEF key
<1>5. /\ wrapped' \in [People -> [Epochs -> Keys]]
      /\ \A m \in People, e \in Epochs : wrapped'[m][e] =
           IF m = r.member /\ e = r.epoch THEN key ELSE wrapped[m][e]
  BY <1>3, <1>4
<1>6. \A m \in People, e \in Epochs :
        wrapped'[m][e] # NoKeyYet => Served(wrapped'[m][e].opens, e)
  BY <1>2, <1>3, <1>5 DEF GroupInv, KeysOpenNoLaterEpoch, Served
<1>7. enrolled' \subseteq People
  BY DEF AddGroupMember, GroupInv, GroupTypeOK
<1>8. rotating' \in Admins \cup {NoAdmin} /\ rotating' = rotating /\ rotating # p
  BY <1>1, NotRotating DEF AddGroupMember, GroupInv, GroupTypeOK
<1>9. SameEpochs /\ admin' = [admin EXCEPT ![p] = Free] /\ Free.kind # "commit"
  BY DEF AddGroupMember, Plans, SameEpochs, Free
<1>10. Free \in GroupRequests /\ Holds(Free)
  BY DEF GroupRequests, Holds, Free
<1> QED BY <1>1, <1>5, <1>6, <1>7, <1>8, <1>9, <1>10, RequestSteps

LEMMA MaxEpochRead ==
  ASSUME GroupInv, NEW p \in Admins, NEW identity \in Identities,
         NEW list \in SUBSET People, ReadMaxEpoch(p, identity, list)
  PROVE  GroupInv'
<1> DEFINE next == [kind |-> "rotate", npub |-> identity, list |-> list,
                    next |-> Len(epochs) + 1]
<1>1. Exists /\ Len(epochs) < MaxEpochs /\ admin[p].kind # "commit"
  BY DEF ReadMaxEpoch, Free
<1>2. Len(epochs) \in Nat /\ Len(epochs) + 1 \in Epochs
  BY <1>1, GroupTypes, GroupAssumption DEF GroupInv, Epochs
<1>3. next \in GroupRequests /\ Holds(next)
  BY <1>2 DEF GroupRequests, Rotations, Holds
<1>4. enrolled' \subseteq People
  BY DEF ReadMaxEpoch, GroupInv, GroupTypeOK
<1>5. /\ wrapped' \in [People -> [Epochs -> Keys]]
      /\ \A n \in People, e \in Epochs :
           wrapped'[n][e] # NoKeyYet => Served(wrapped'[n][e].opens, e)
  BY GroupTypes DEF ReadMaxEpoch, GroupInv, KeysOpenNoLaterEpoch, Served
<1>6. rotating' \in Admins \cup {NoAdmin} /\ rotating' = rotating /\ rotating # p
  BY <1>1, NotRotating DEF ReadMaxEpoch, GroupInv, GroupTypeOK
<1>7. SameEpochs /\ admin' = [admin EXCEPT ![p] = next] /\ next.kind # "commit"
  BY DEF ReadMaxEpoch, Plans, SameEpochs
<1> HIDE DEF next
<1> QED BY <1>1, <1>3, <1>4, <1>5, <1>6, <1>7, RequestSteps

LEMMA MembersRotated ==
  ASSUME GroupInv, NEW p \in Admins, RotateMembers(p)
  PROVE  GroupInv'
<1> DEFINE r == admin[p]
           next == [kind |-> "commit", npub |-> r.npub, list |-> r.list,
                    next |-> r.next, leaves |-> enrolled \ r.list,
                    joins |-> r.list \ enrolled]
<1>1. Exists /\ r.kind = "rotate" /\ rotating = NoAdmin /\ IsNewEpoch(r)
  BY DEF RotateMembers
<1>2. r \in Rotations /\ r.next <= Len(epochs) + 1
  BY <1>1, GroupTypes, RequestKinds DEF GroupInv, RequestsFollow, Holds
<1>3. r.next = Len(epochs) + 1
  BY <1>1, <1>2, GroupTypes, GroupAssumption
  DEF GroupInv, IsNewEpoch, Rotations, Epochs
<1>4. enrolled \subseteq People /\ enrolled' \subseteq People
  BY DEF RotateMembers, GroupInv, GroupTypeOK
<1>5. next \in GroupRequests
  BY <1>2, <1>4 DEF GroupRequests, Commits, Rotations
<1>6. Holds(next)
  BY <1>1, <1>3 DEF Holds, IsNewEpoch
<1>7. /\ wrapped' \in [People -> [Epochs -> Keys]]
      /\ \A n \in People, e \in Epochs :
           wrapped'[n][e] # NoKeyYet => Served(wrapped'[n][e].opens, e)
  BY GroupTypes DEF RotateMembers, GroupInv, KeysOpenNoLaterEpoch, Served
<1>8. SameEpochs /\ admin' = [admin EXCEPT ![p] = next] /\ next.kind = "commit"
      /\ rotating' = p
  BY DEF RotateMembers, Plans, SameEpochs
<1> HIDE DEF next
<1> QED BY <1>1, <1>4, <1>5, <1>6, <1>7, <1>8, RequestSteps

LEMMA RequestFailed ==
  ASSUME GroupInv, NEW p \in Admins, RequestFails(p)
  PROVE  GroupInv'
<1>1. enrolled' \subseteq People
  BY DEF RequestFails, GroupInv, GroupTypeOK
<1>2. /\ wrapped' \in [People -> [Epochs -> Keys]]
      /\ \A n \in People, e \in Epochs :
           wrapped'[n][e] # NoKeyYet => Served(wrapped'[n][e].opens, e)
  BY GroupTypes DEF RequestFails, GroupInv, KeysOpenNoLaterEpoch, Served
<1>3. rotating' \in Admins \cup {NoAdmin} /\ rotating' = rotating /\ rotating # p
  BY GroupAssumption DEF RequestFails
<1>4. SameEpochs /\ admin' = [admin EXCEPT ![p] = Free] /\ Free.kind # "commit"
  BY DEF RequestFails, Plans, SameEpochs, Free
<1>5. Free \in GroupRequests /\ Holds(Free)
  BY DEF GroupRequests, Holds, Free
<1> QED BY <1>1, <1>2, <1>3, <1>4, <1>5, RequestSteps

(* Steps of the group as a whole.                                               *)

LEMMA GroupCreated ==
  ASSUME GroupInv, NEW identity \in Identities, NEW list \in SUBSET People,
         CreateGroup(identity, list)
  PROVE  GroupInv'
<1> USE DEF GroupInv
<1>1. ~Exists /\ ~deleted /\ \A p \in Admins : admin[p] = Free
  BY DEF CreateGroup, NoRequestsBefore
<1>2. DOMAIN epochs = {} /\ wrapped \in [People -> [Epochs -> Keys]]
      /\ admin \in [Admins -> GroupRequests]
  BY <1>1, GroupTypes DEF Exists
<1>3. \A m \in People, e \in Epochs : wrapped[m][e] = NoKeyYet
  BY <1>2 DEF KeysOpenNoLaterEpoch
<1>4. 1 \in Epochs /\ LiveKey(identity) \in Keys /\ LiveKey(identity).opens = identity
  BY GroupAssumption DEF Epochs, LiveKey, Keys
<1>5. /\ wrapped' \in [People -> [Epochs -> Keys]]
      /\ \A m \in People, e \in Epochs : wrapped'[m][e] =
           IF m \in list /\ e = 1 THEN LiveKey(identity) ELSE wrapped[m][e]
  BY <1>2, <1>4 DEF CreateGroup
<1>6. /\ epochs' \in Seq(EpochRows) /\ Len(epochs') = 1 /\ DOMAIN epochs' = {1}
      /\ epochs'[1] = [npub |-> identity, superseded |-> FALSE]
  BY DEF CreateGroup, EpochRows
<1>7. GroupTypeOK'
  <2>1. /\ groupNpub' \in Identities \cup {NoAdmin} /\ enrolled' \subseteq People
        /\ rotating' \in Admins \cup {NoAdmin} /\ deleted' \in BOOLEAN
        /\ admin' \in [Admins -> GroupRequests]
    BY <1>2 DEF CreateGroup, GroupTypeOK
  <2> QED BY <2>1, <1>5, <1>6, GroupAssumption, TypesFromParts
<1>8. OneCurrentEpoch'
  BY <1>6 DEF CreateGroup, OneCurrentEpoch
<1>9. KeysOpenNoLaterEpoch'
  <2> SUFFICES ASSUME NEW m \in People, NEW e \in Epochs, wrapped'[m][e] # NoKeyYet
               PROVE  \E i \in DOMAIN epochs' :
                        i <= e /\ epochs'[i].npub = wrapped'[m][e].opens
    BY DEF KeysOpenNoLaterEpoch
  <2>1. e = 1 /\ wrapped'[m][e].opens = identity
    BY <1>3, <1>4, <1>5
  <2> QED BY <2>1, <1>6
<1>10. OneRotation' /\ NoRequestsBefore' /\ RequestsFollow'
  BY <1>1 DEF CreateGroup, OneRotation, NoRequestsBefore, RequestsFollow, Holds, Free
<1>11. GoneForGood'
  BY <1>1 DEF CreateGroup, GoneForGood
<1> QED BY <1>7, <1>8, <1>9, <1>10, <1>11

LEMMA MemberRemoved ==
  ASSUME GroupInv, NEW m \in People, RemoveGroupMember(m)
  PROVE  GroupInv'
<1> USE DEF GroupInv
<1>1. /\ wrapped \in [People -> [Epochs -> Keys]] /\ admin \in [Admins -> GroupRequests]
      /\ epochs \in Seq(EpochRows) /\ Len(epochs) \in 0 .. MaxEpochs
  BY GroupTypes
<1>2. \A key \in Keys : key.state = "live" =>
        /\ [key EXCEPT !.state = "revoked"] \in Keys
        /\ key # NoKeyYet
        /\ [key EXCEPT !.state = "revoked"].opens = key.opens
  BY DEF Keys, NoKeyYet
<1>3. \A n \in People, e \in Epochs : wrapped'[n][e] =
        IF n = m /\ wrapped[m][e].state = "live"
        THEN [wrapped[m][e] EXCEPT !.state = "revoked"] ELSE wrapped[n][e]
  BY <1>1 DEF RemoveGroupMember
<1>4. wrapped' \in [People -> [Epochs -> Keys]]
  <2> DEFINE row == [e \in Epochs |-> IF wrapped[m][e].state = "live"
                       THEN [wrapped[m][e] EXCEPT !.state = "revoked"] ELSE wrapped[m][e]]
  <2>1. row \in [Epochs -> Keys]
    BY <1>1, <1>2
  <2>2. wrapped' = [wrapped EXCEPT ![m] = row]
    BY <1>1 DEF RemoveGroupMember
  <2> HIDE DEF row
  <2> QED BY <2>1, <2>2, <1>1
<1>5. GroupTypeOK'
  <2>1. /\ groupNpub' \in Identities \cup {NoAdmin} /\ enrolled' \subseteq People
        /\ rotating' \in Admins \cup {NoAdmin} /\ deleted' \in BOOLEAN
        /\ admin' = admin /\ epochs' = epochs
    BY DEF RemoveGroupMember, GroupTypeOK
  <2> QED BY <2>1, <1>1, <1>4, GroupAssumption, TypesFromParts
<1>6. KeysOpenNoLaterEpoch'
  <2> SUFFICES ASSUME NEW n \in People, NEW e \in Epochs, wrapped'[n][e] # NoKeyYet
               PROVE  \E i \in DOMAIN epochs' :
                        i <= e /\ epochs'[i].npub = wrapped'[n][e].opens
    BY DEF KeysOpenNoLaterEpoch
  <2>1. wrapped[n][e] # NoKeyYet /\ wrapped'[n][e].opens = wrapped[n][e].opens
    <3>1. wrapped[n][e] \in Keys
      BY <1>1
    <3>2. CASE n = m /\ wrapped[m][e].state = "live"
      BY <3>1, <3>2, <1>2, <1>3
    <3>3. CASE ~(n = m /\ wrapped[m][e].state = "live")
      BY <3>3, <1>3
    <3> QED BY <3>2, <3>3
  <2> QED BY <2>1 DEF KeysOpenNoLaterEpoch, RemoveGroupMember
<1>7. /\ epochs' = epochs /\ groupNpub' = groupNpub /\ admin' = admin
      /\ rotating' = rotating /\ deleted' = deleted
  BY DEF RemoveGroupMember
<1> QED BY <1>5, <1>6, <1>7
    DEF OneCurrentEpoch, OneRotation, RequestsFollow, NoRequestsBefore, GoneForGood,
        Holds, Served, IsNewEpoch, Exists

(* The epochs after a rotation: one more, with a new identity, and the one      *)
(* before it superseded.                                                        *)
LEMMA EpochAdded ==
  ASSUME GroupInv, NEW p \in Admins, RotateGroupEpoch(p)
  PROVE  /\ admin[p] \in Commits /\ rotating = p /\ Exists
         /\ admin[p].next = Len(epochs) + 1 /\ IsNewEpoch(admin[p])
         /\ epochs' \in Seq(EpochRows) /\ Len(epochs') = Len(epochs) + 1
         /\ DOMAIN epochs' = 1 .. Len(epochs) + 1
         /\ epochs'[Len(epochs) + 1] = [npub |-> admin[p].npub, superseded |-> FALSE]
         /\ \A e \in DOMAIN epochs :
              /\ e \in DOMAIN epochs' /\ epochs'[e].npub = epochs[e].npub
              /\ epochs'[e].superseded = TRUE
<1> DEFINE r == admin[p]
<1>1. r.kind = "commit"
  BY DEF RotateGroupEpoch
<1>2. r \in Commits /\ rotating = p /\ Exists /\ r.next = Len(epochs) + 1 /\ IsNewEpoch(r)
  BY <1>1, GroupTypes, RequestKinds DEF GroupInv, RequestsFollow, Holds, OneRotation
<1>3. /\ epochs \in Seq(EpochRows) /\ Len(epochs) \in Nat
      /\ DOMAIN epochs = 1 .. Len(epochs) /\ \A e \in DOMAIN epochs : epochs[e] \in EpochRows
  BY GroupTypes, GroupAssumption DEF GroupInv
<1>4. epochs' = [e \in 1 .. Len(epochs) + 1 |->
         IF e = Len(epochs) + 1 THEN [npub |-> r.npub, superseded |-> FALSE]
         ELSE IF e = Len(epochs) THEN [epochs[e] EXCEPT !.superseded = TRUE]
         ELSE epochs[e]]
  BY <1>2, <1>3 DEF RotateGroupEpoch
<1>5. /\ DOMAIN epochs' = 1 .. Len(epochs) + 1
      /\ epochs'[Len(epochs) + 1] = [npub |-> r.npub, superseded |-> FALSE]
      /\ \A e \in DOMAIN epochs : epochs'[e] =
           IF e = Len(epochs) THEN [epochs[e] EXCEPT !.superseded = TRUE] ELSE epochs[e]
  BY <1>3, <1>4
<1>6. \A row \in EpochRows : /\ [row EXCEPT !.superseded = TRUE] \in EpochRows
                             /\ [row EXCEPT !.superseded = TRUE].npub = row.npub
                             /\ [row EXCEPT !.superseded = TRUE].superseded = TRUE
                             /\ row.superseded \in BOOLEAN
  BY DEF EpochRows
<1>7. [npub |-> r.npub, superseded |-> FALSE] \in EpochRows
  BY <1>2 DEF Commits, EpochRows
<1>8. \A e \in 1 .. Len(epochs) + 1 : epochs'[e] \in EpochRows
  <2> SUFFICES ASSUME NEW e \in 1 .. Len(epochs) + 1 PROVE epochs'[e] \in EpochRows
    OBVIOUS
  <2>1. CASE e = Len(epochs) + 1
    BY <2>1, <1>5, <1>7
  <2>2. CASE e # Len(epochs) + 1
    <3>1. e \in DOMAIN epochs
      BY <2>2, <1>3
    <3>2. epochs[e] \in EpochRows
      BY <3>1, <1>3
    <3>3. CASE e = Len(epochs)
      <4>1. epochs'[e] = [epochs[e] EXCEPT !.superseded = TRUE]
        BY <3>1, <3>3, <1>5
      <4> QED BY <4>1, <3>2, <1>6
    <3>4. CASE e # Len(epochs)
      BY <3>1, <3>2, <3>4, <1>5
    <3> QED BY <3>3, <3>4
  <2> QED BY <2>1, <2>2
<1>9. epochs' \in Seq(EpochRows) /\ Len(epochs') = Len(epochs) + 1
  <2>1. epochs' = [e \in 1 .. Len(epochs) + 1 |-> epochs'[e]]
    BY <1>4
  <2> QED BY <2>1, <1>3, <1>8
<1>10. \A e \in DOMAIN epochs :
        /\ e \in DOMAIN epochs' /\ epochs'[e].npub = epochs[e].npub
        /\ epochs'[e].superseded = TRUE
  <2> SUFFICES ASSUME NEW e \in DOMAIN epochs
               PROVE  /\ e \in DOMAIN epochs' /\ epochs'[e].npub = epochs[e].npub
                      /\ epochs'[e].superseded = TRUE
    OBVIOUS
  <2>1. e \in DOMAIN epochs' /\ epochs[e] \in EpochRows
    BY <1>3, <1>5
  <2>2. CASE e = Len(epochs)
    <3>1. epochs'[e] = [epochs[e] EXCEPT !.superseded = TRUE]
      BY <2>2, <1>5
    <3> QED BY <2>1, <3>1, <1>6
  <2>3. CASE e # Len(epochs)
    <3>1. epochs[e].superseded
      BY <2>3, <1>3 DEF GroupInv, OneCurrentEpoch
    <3>2. epochs[e].superseded = TRUE
      BY <3>1, <2>1 DEF EpochRows
    <3> QED BY <3>2, <2>1, <2>3, <1>5
  <2> QED BY <2>2, <2>3
<1> QED BY <1>2, <1>5, <1>9, <1>10

LEMMA EpochRotated ==
  ASSUME GroupInv, NEW p \in Admins, RotateGroupEpoch(p)
  PROVE  GroupInv'
<1> DEFINE r == admin[p]
           last == Len(epochs) + 1
<1> USE DEF GroupInv
<1>1. /\ r \in Commits /\ rotating = p /\ Exists
      /\ r.next = last /\ IsNewEpoch(r)
      /\ epochs' \in Seq(EpochRows) /\ Len(epochs') = last
      /\ DOMAIN epochs' = 1 .. last
      /\ epochs'[last] = [npub |-> r.npub, superseded |-> FALSE]
      /\ \A e \in DOMAIN epochs :
           /\ e \in DOMAIN epochs' /\ epochs'[e].npub = epochs[e].npub
           /\ epochs'[e].superseded = TRUE
  BY EpochAdded
<1>2. /\ Len(epochs) \in Nat /\ DOMAIN epochs = 1 .. Len(epochs)
      /\ wrapped \in [People -> [Epochs -> Keys]] /\ admin \in [Admins -> GroupRequests]
  BY GroupTypes, GroupAssumption
<1>3. /\ last \in Epochs /\ last <= MaxEpochs
      /\ r.npub \in Identities /\ r.list \subseteq People
      /\ r.joins \subseteq People
  BY <1>1, GroupAssumption DEF Commits, Epochs
<1>4. LiveKey(r.npub) \in Keys /\ LiveKey(r.npub).opens = r.npub
  BY <1>3 DEF LiveKey, Keys
<1>5. wrapped' = [m \in People |->
        IF m \in r.list THEN [wrapped[m] EXCEPT ![last] = LiveKey(r.npub)] ELSE wrapped[m]]
  BY <1>1 DEF RotateGroupEpoch
<1>6. /\ wrapped' \in [People -> [Epochs -> Keys]]
      /\ \A m \in People, e \in Epochs : wrapped'[m][e] =
           IF m \in r.list /\ e = last THEN LiveKey(r.npub) ELSE wrapped[m][e]
  BY <1>2, <1>3, <1>4, <1>5
<1>7. /\ admin' \in [Admins -> GroupRequests] /\ admin'[p] = Free
      /\ \A q \in Admins : q # p => admin'[q] = admin[q]
  BY <1>2 DEF RotateGroupEpoch, Plans, GroupRequests
<1>8. GroupTypeOK'
  <2>1. /\ groupNpub' \in Identities \cup {NoAdmin} /\ enrolled' \subseteq People
        /\ rotating' \in Admins \cup {NoAdmin} /\ deleted' \in BOOLEAN
    BY <1>3 DEF RotateGroupEpoch, GroupTypeOK
  <2> QED BY <2>1, <1>1, <1>3, <1>6, <1>7, TypesFromParts
<1>9. OneCurrentEpoch'
  <2>1. \A e \in DOMAIN epochs' : e = last \/ e \in DOMAIN epochs
    BY <1>1, <1>2
  <2>2. \A e \in DOMAIN epochs : epochs'[e].superseded
    BY <1>1
  <2>3. \A e \in DOMAIN epochs' : epochs'[e].superseded <=> e < Len(epochs')
    BY <2>1, <2>2, <1>1, <1>2
  <2>4. groupNpub' = epochs'[Len(epochs')].npub
    BY <1>1 DEF RotateGroupEpoch
  <2>5. \A e1, e2 \in DOMAIN epochs' : epochs'[e1].npub = epochs'[e2].npub => e1 = e2
    BY <2>1, <1>1, <1>2 DEF OneCurrentEpoch, IsNewEpoch
  <2> QED BY <2>3, <2>4, <2>5 DEF OneCurrentEpoch
<1>10. \A identity, e : Served(identity, e) => Served(identity, e)'
  BY <1>1 DEF Served
<1>11. KeysOpenNoLaterEpoch'
  <2> SUFFICES ASSUME NEW m \in People, NEW e \in Epochs, wrapped'[m][e] # NoKeyYet
               PROVE  \E i \in DOMAIN epochs' :
                        i <= e /\ epochs'[i].npub = wrapped'[m][e].opens
    BY DEF KeysOpenNoLaterEpoch
  <2>1. CASE m \in r.list /\ e = last
    <3>1. wrapped'[m][e].opens = r.npub /\ last \in DOMAIN epochs'
          /\ last <= e /\ epochs'[last].npub = r.npub
      BY <2>1, <1>1, <1>2, <1>4, <1>6
    <3> HIDE DEF last, r
    <3> QED BY <3>1
  <2>2. CASE ~(m \in r.list /\ e = last)
    <3>1. wrapped'[m][e] = wrapped[m][e]
      BY <2>2, <1>6
    <3> QED BY <3>1, <1>1 DEF KeysOpenNoLaterEpoch
  <2> QED BY <2>1, <2>2
<1>12. OneRotation'
  BY <1>1, <1>7, GroupAssumption DEF OneRotation, RotateGroupEpoch, Free
<1>13. Exists'
  BY <1>1, <1>2 DEF Exists
<1>14. RequestsFollow'
  <2> SUFFICES ASSUME NEW q \in Admins PROVE Holds(admin[q])'
    BY DEF RequestsFollow
  <2>1. CASE q = p
    BY <2>1, <1>7 DEF Holds, Free
  <2>2. CASE q # p
    <3>1. admin'[q] = admin[q] /\ admin[q].kind # "commit" /\ Holds(admin[q])
      BY <2>2, <1>1, <1>7 DEF OneRotation, RequestsFollow
    <3>2. admin[q] \in GroupRequests
      BY <1>2
    <3>3. admin[q].kind = "label" => Served(admin[q].opens, Len(epochs))'
      BY <3>1, <1>1, <1>2, <1>10 DEF Holds, Served
    <3>4. admin[q].kind = "key" => \E i \in DOMAIN epochs' :
            i <= admin[q].epoch /\ epochs'[i].npub = admin[q].opens
      BY <3>1, <1>1 DEF Holds, Served
    <3>5. admin[q].kind = "rotate" => admin[q].next <= Len(epochs') + 1
      BY <3>1, <3>2, <1>1, <1>2, RequestKinds DEF Holds, Rotations, Epochs
    <3>6. admin[q].kind = "label" => \E i \in DOMAIN epochs' :
            i <= Len(epochs') /\ epochs'[i].npub = admin[q].opens
      BY <3>1, <1>1, <1>2 DEF Holds, Served
    <3> QED BY <3>1, <3>4, <3>5, <3>6 DEF Holds, Served
  <2> QED BY <2>1, <2>2
<1>15. NoRequestsBefore' /\ GoneForGood'
  BY <1>1, <1>13 DEF NoRequestsBefore, GoneForGood, RotateGroupEpoch
<1> QED BY <1>8, <1>9, <1>11, <1>12, <1>14, <1>15

LEMMA GroupDeleted ==
  ASSUME GroupInv, DeleteGroup
  PROVE  GroupInv'
<1> USE DEF GroupInv
<1>1. /\ epochs' = <<>> /\ DOMAIN epochs' = {} /\ Len(epochs') = 0 /\ deleted'
      /\ epochs' \in Seq(EpochRows) /\ ~Exists'
  BY DEF DeleteGroup, Exists
<1>2. /\ wrapped' \in [People -> [Epochs -> Keys]]
      /\ \A m \in People, e \in Epochs : wrapped'[m][e] = NoKeyYet
  BY DEF DeleteGroup, Keys
<1>3. GroupTypeOK'
  <2>1. admin' \in [Admins -> GroupRequests]
    BY GroupTypes DEF DeleteGroup
  <2>2. /\ groupNpub' \in Identities \cup {NoAdmin} /\ enrolled' \subseteq People
        /\ rotating' \in Admins \cup {NoAdmin} /\ deleted' \in BOOLEAN
    BY DEF DeleteGroup, GroupTypeOK
  <2> QED BY <2>1, <2>2, <1>1, <1>2, GroupAssumption, TypesFromParts
<1>4. OneCurrentEpoch' /\ KeysOpenNoLaterEpoch' /\ NoRequestsBefore' /\ GoneForGood'
  BY <1>1, <1>2 DEF OneCurrentEpoch, KeysOpenNoLaterEpoch, NoRequestsBefore, GoneForGood
<1>5. OneRotation' /\ RequestsFollow'
  <2>1. \A q \in Admins : admin'[q] = admin[q] /\ admin[q].kind # "commit"
    BY GroupAssumption DEF DeleteGroup, OneRotation
  <2> QED BY <2>1, <1>1, GroupAssumption
      DEF DeleteGroup, OneRotation, RequestsFollow, Holds
<1> QED BY <1>3, <1>4, <1>5

--------------------------------------------------------------------------------
LEMMA GroupStarts == GroupInit => GroupInv
<1> SUFFICES ASSUME GroupInit PROVE GroupInv
  OBVIOUS
<1> USE DEF GroupInit
<1>1. GroupTypeOK
  <2>1. epochs \in Seq(EpochRows) /\ Len(epochs) = 0
    OBVIOUS
  <2>2. wrapped \in [People -> [Epochs -> Keys]]
    BY DEF Keys
  <2>3. admin \in [Admins -> GroupRequests]
    BY DEF GroupRequests
  <2>4. /\ groupNpub \in Identities \cup {NoAdmin} /\ enrolled \subseteq People
        /\ rotating \in Admins \cup {NoAdmin} /\ deleted \in BOOLEAN
    OBVIOUS
  <2>5. Len(epochs) <= MaxEpochs
    BY <2>1, GroupAssumption
  <2> HIDE DEF GroupInit
  <2> QED BY <2>1, <2>2, <2>3, <2>4, <2>5
      DEF GroupTypeOK, EpochRows, Keys, GroupRequests, Labels, KeyRequests, Rotations, Commits
<1>2. DOMAIN epochs = {} /\ ~Exists
  BY DEF Exists
<1>3. OneCurrentEpoch /\ KeysOpenNoLaterEpoch
  BY <1>2 DEF OneCurrentEpoch, KeysOpenNoLaterEpoch
<1>4. OneRotation /\ RequestsFollow /\ NoRequestsBefore /\ GoneForGood
  BY GroupAssumption DEF OneRotation, RequestsFollow, NoRequestsBefore, GoneForGood, Holds, Free
<1> QED BY <1>1, <1>3, <1>4 DEF GroupInv

LEMMA GroupSteps == GroupInv /\ [GroupNext]_groupVars => GroupInv'
<1> SUFFICES ASSUME GroupInv, [GroupNext]_groupVars PROVE GroupInv'
  OBVIOUS
<1>1. ASSUME NEW i \in Identities, NEW list \in SUBSET People,
             CreateGroup(i, list) \/ (\E p \in Admins : ReadMaxEpoch(p, i, list))
      PROVE  GroupInv'
  BY <1>1, GroupCreated, MaxEpochRead
<1>2. ASSUME NEW m \in People,
             RemoveGroupMember(m) \/ (\E p \in Admins : AddMembership(p, m))
      PROVE  GroupInv'
  BY <1>2, MemberRemoved, MembershipAdded
<1>3. ASSUME NEW p \in Admins,
             ReadCurrentEpoch(p) \/ AddGroupMember(p) \/ RotateMembers(p)
               \/ RotateGroupEpoch(p) \/ RequestFails(p)
      PROVE  GroupInv'
  BY <1>3, CurrentEpochRead, MemberAdded, MembersRotated, EpochRotated, RequestFailed
<1>4. CASE DeleteGroup
  BY <1>4, GroupDeleted
<1>5. CASE UNCHANGED groupVars
  BY <1>5 DEF groupVars, GroupInv, GroupTypeOK, OneCurrentEpoch, KeysOpenNoLaterEpoch,
     OneRotation, RequestsFollow, NoRequestsBefore, GoneForGood, Holds, Served,
     IsNewEpoch, Exists
<1> QED BY <1>1, <1>2, <1>3, <1>4, <1>5 DEF GroupNext

LEMMA GroupAlways == GroupSpec => []GroupInv
BY GroupStarts, GroupSteps, PTL DEF GroupSpec

(* Every state of a group has the types that the code's rows have.              *)
THEOREM GroupsTyped == GroupSpec => []GroupTypeOK
<1>1. GroupInv => GroupTypeOK
  BY DEF GroupInv
<1> QED BY <1>1, GroupAlways, PTL

(* For any number of concurrent rotations, exactly one epoch is current, it is  *)
(* the last one and the one the group's row names, and no identity is used for  *)
(* two epochs (the constraints that rotateGroupEpoch relies on).                *)
THEOREM OneEpochIsCurrent == GroupSpec => []OneCurrentEpoch
<1>1. GroupInv => OneCurrentEpoch
  BY DEF GroupInv
<1> QED BY <1>1, GroupAlways, PTL

(* addGroupMember labels a key with an epoch that it reads later than the       *)
(* client wrapped it; whatever runs in between, the key opens that epoch or an  *)
(* earlier one, never a later one.                                              *)
THEOREM KeysStayBehind == GroupSpec => []KeysOpenNoLaterEpoch
<1>1. GroupInv => KeysOpenNoLaterEpoch
  BY DEF GroupInv
<1> QED BY <1>1, GroupAlways, PTL
================================================================================
