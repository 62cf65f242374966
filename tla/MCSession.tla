----------------------------- MODULE MCSession ------------------------------
(***************************************************************************)
(* A session with two pushes of different price and a probe, and a second  *)
(* session after it.                                                       *)
(***************************************************************************)
EXTENDS Session

CONSTANTS p1, p2, f

KindOf == [o \in Ops |-> IF o = f THEN "probe" ELSE "push"]
RatesOf == {[exchange_rate |-> 1, deduction |-> d] : d \in {0, 1}}
PriceOf == [o \in Ops |-> IF o = p2 THEN 2 ELSE IF o = p1 THEN 1 ELSE 0]
=============================================================================
