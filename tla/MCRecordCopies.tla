---------------------------- MODULE MCRecordCopies ----------------------------
(* Two instances of RecordSync in one run: one copy of the cache that asks for *)
(* bounded pages while authority is gained and lost, and two copies that pull  *)
(* either kind of page under one authority.                                    *)
EXTENDS RecordSync, TLC
CONSTANTS a, d1, d2

VARIABLE copies

OneCopyPulls(d, other) ==
    /\ cache[other] = EmptyCache /\ held[other] \subseteq {0}
    /\ Cardinality(replies) <= 1 /\ \A m \in replies : IsNewest(m.from, d)
    /\ held[d] \subseteq {0} => Len(issued) <= 1
    /\ \A t \in 1..Len(issued) : issued[t].state.bounded

Instance ==
    IF copies = 1
    THEN OneCopyPulls(d1, d2) \/ OneCopyPulls(d2, d1)
    ELSE accessRev = 0 /\ Len(issued) <= (IF position > 1 THEN 2 ELSE 3)

CopiesInit == Init /\ copies \in {1, 2}
CopiesNext == Next /\ copies' = copies /\ Instance'
CopiesSpec == CopiesInit /\ [][CopiesNext]_<<vars, copies>>

\* The copies are alike.
Alike == Permutations({d1, d2})
==============================================================================
