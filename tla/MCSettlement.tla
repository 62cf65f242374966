---------------------------- MODULE MCSettlement ----------------------------
(* TLC instances of Settlement. *)
EXTENDS Settlement, TLC

CONSTANTS l1, l2, p1, p2, b1, b2

\* Each lane has a beneficiary of its own.
OwnPayee == [l \in Lanes |-> IF l = l1 THEN b1 ELSE b2]

\* POSTs are interchangeable.
Alike == Permutations(Posts)
=============================================================================
