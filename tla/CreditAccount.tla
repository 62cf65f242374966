---------------------------- MODULE CreditAccount ----------------------------
(***************************************************************************)
(* What a metered relay promises the accounts it serves on credit          *)
(* (src/src/ledger.rs, "pusher-incentives"), without requests, locks,      *)
(* reservations or a disk.  Work makes debt; a cheque of the account's own *)
(* chequebook pays off as much debt as it is worth, and only what is owed; *)
(* and the relay may forget debt, never add any.                           *)
(***************************************************************************)
EXTENDS Integers

CONSTANTS
  Accounts,  \* batch owners
  Books,     \* chequebooks
  Issuer,    \* the account each chequebook was deployed for
  Bills      \* what one POST may cost

VARIABLES
  owed,      \* the debt of each account
  cashed     \* what was ever accepted from each chequebook

vars == <<owed, cashed>>

Init ==
  /\ owed = [a \in Accounts |-> 0]
  /\ cashed = [k \in Books |-> 0]

\* Work of account a is done on credit.
Serve(a, bill) ==
  /\ owed' = [owed EXCEPT ![a] = @ + bill]
  /\ UNCHANGED cashed

\* A cheque drawn on book k pays off part of its issuer's debt, at most all.
Cash(k, amount) ==
  /\ owed' = [owed EXCEPT ![Issuer[k]] = @ - amount]
  /\ cashed' = [cashed EXCEPT ![k] = @ + amount]

\* A restart from an older file: debt is lost, no accepted cheque is.
Forget ==
  /\ owed' \in [Accounts -> Nat]
  /\ \A a \in Accounts : owed'[a] <= owed[a]
  /\ UNCHANGED cashed

Next ==
  \/ \E a \in Accounts, bill \in Bills : Serve(a, bill)
  \/ \E k \in Books : \E amount \in 1..owed[Issuer[k]] : Cash(k, amount)
  \/ Forget

Spec == Init /\ [][Next]_vars
=============================================================================
