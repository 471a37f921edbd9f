---------------------------- MODULE MCAlertDispatch ----------------------------
EXTENDS AlertDispatch, TLC
CONSTANTS i1, i2, t1, t2, alice, bob, w1, w2

\* The workers are alike.
Alike == Permutations({w1, w2})
===============================================================================
