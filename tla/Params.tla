------------------------------- MODULE Params -------------------------------
(***************************************************************************)
(* The price and the settlement thresholds of a metered relay              *)
(* (src/src/meter.rs, Params).  Amounts are PLUR in a u128: the largest    *)
(* cumulative the ledger accepts is 10^30, so no sum here comes near 2^128 *)
(* and amounts are natural numbers.                                        *)
(***************************************************************************)
EXTENDS Integers

CONSTANTS
  Price,           \* price_plur_per_kib
  MinCheque,       \* min_cheque_plur
  SettleEvery,     \* settle_every_plur
  MaxOutstanding,  \* max_outstanding_plur
  CreditRatio      \* credit_ratio

\* The relay refuses to boot with any other parameters.
validate ==
  /\ Price # 0
  /\ CreditRatio # 0
  /\ MinCheque <= SettleEvery
  /\ SettleEvery < MaxOutstanding

ASSUME ParamsAssumption ==
  /\ Price \in Nat /\ MinCheque \in Nat /\ SettleEvery \in Nat
  /\ MaxOutstanding \in Nat /\ CreditRatio \in Nat
  /\ validate

AtMost(n, bound) == IF n <= bound THEN n ELSE bound
AtLeast(n, bound) == IF n >= bound THEN n ELSE bound

\* The credit line of a batch worth `value' on chain.
credit_line(value) == AtMost(value \div CreditRatio, MaxOutstanding)

\* The price of a body: whole KiB, rounded up once.
price_bytes(bytes) == ((bytes + 1023) \div 1024) * Price

\* Mutant: the configured dust floor whatever the credit line.
effectiveConfigured(cap) == [min_cheque |-> MinCheque, settle_every |-> SettleEvery]

\* The thresholds that apply to an account whose credit line is cap.
effective(cap) ==
  LET settle == AtLeast(AtMost(SettleEvery, cap \div 2), 1)
  IN  [min_cheque   |-> AtLeast(AtMost(MinCheque, settle), 1),
       settle_every |-> settle]
=============================================================================
