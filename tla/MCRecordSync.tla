----------------------------- MODULE MCRecordSync -----------------------------
EXTENDS RecordSync
CONSTANTS a, b, d1, d2

\* Bounds.  The second copy of the cache is used while authority is unchanged; an
\* identity is rebound without other changes of authority or pruning; after both a
\* change of authority and pruning one page is read.
FewRareEvents ==
  /\ (accessRev > 0 => cache[d2] = EmptyCache /\ held[d2] \subseteq {0})'
  /\ (epoch > 0 => accessRev = 1 /\ floor = 0)'
  /\ (floor > 0 /\ accessRev > 0 => Len(issued) <= 1)'

\* A bound: a third page and a third position only while authority is unchanged.
ThirdPageBeforeChange == (Len(issued) > 2 => accessRev = 0 \/ position <= 2)'
==============================================================================
