--------------------------- MODULE MCRelayLedger ---------------------------
(* TLC instances of RelayLedger. *)
EXTENDS RelayLedger, TLC

CONSTANTS a1, k1, p1, p2, q1, q2

\* The chequebook was deployed for the account.
IssuerOf == [k \in Books |-> a1]

\* Requests are interchangeable.
Alike == Permutations(Posts) \cup Permutations(Pays)
=============================================================================
