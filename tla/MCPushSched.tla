---------------------------- MODULE MCPushSched ----------------------------
(* TLC instances of PushSched. *)
EXTENDS PushSched, TLC

CONSTANTS c1, c2, l1, l2, b1, b2, b3

\* Lane l1 takes two concurrent POSTs once it has proved itself, l2 one, so
\* three batch ids are all the scheduler can ever use.
TwoAndOne == [l \in Lanes |-> IF l = l1 THEN 2 ELSE 1]

\* Chunks admitted on their own (module MCContent has a group).
Ungrouped == [c \in Chunks |-> NoGroup]
NeedOne == [g \in Groups |-> 1]

\* Chunks and batch ids are interchangeable.
Alike == Permutations(Chunks) \cup Permutations(BatchIds)
=============================================================================
