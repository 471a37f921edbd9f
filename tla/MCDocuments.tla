------------------------------ MODULE MCDocuments ------------------------------
(* Documents, shared encrypted records and group keys: what several people edit *)
(* at once.  They share the database but no table, so a behaviour of one is     *)
(* checked while the others stay as they began.                                 *)
EXTENDS DocumentEditing, SharedRecords, GroupKeys, TLC

CONSTANTS nobody, al, none, e1, e2, c1, c2, b1, b2, p1, p2,
          ann, bob, h1, h2, n1, n2, n3, a1, a2

(* Bound: while a third lease is there, one thing is under way.                 *)
FewAtOnce ==
  Len(leases) > 2 =>
    Cardinality(Kept) + Len(comments)
      + Cardinality({p \in DocWorkers : docWork[p] # Unused}) <= 1

SharedWorkInit == DocInit /\ SharedInit /\ GroupInit

SharedWorkNext ==
  \/ /\ SharedInit /\ GroupInit /\ DocNext /\ FewAtOnce'
     /\ UNCHANGED <<sharedVars, groupVars>>
  \/ DocInit /\ GroupInit /\ SharedNext /\ UNCHANGED <<docVars, groupVars>>
  \/ DocInit /\ SharedInit /\ GroupNext /\ UNCHANGED <<docVars, sharedVars>>

SharedWorkSpec ==
  SharedWorkInit /\ [][SharedWorkNext]_<<docVars, sharedVars, groupVars>>

(* The rows of all three have the types their tables give them, and a request   *)
(* holds only what its kind of request reads.                                   *)
SharedWorkTypeOK == DocTypeOK /\ SharedTypeOK /\ GroupTypeOK

Alike == Permutations({e1, e2}) \cup Permutations({p1, p2})
================================================================================
