---------------------------- MODULE RelayProofs ----------------------------
(***************************************************************************)
(* Proofs about the relay's money and about whom it admits.                *)
(*                                                                         *)
(* RelayLedger, for any number of accounts, chequebooks and concurrent     *)
(* requests, any prices that pass validate, and any pattern of failed      *)
(* writes and restarts.                                                    *)
(*                                                                         *)
(* Standing, for every number of requests and batches, every lifetime and  *)
(* read time: whom the relay admits or turns away is settled by what the   *)
(* chain said recently.                                                    *)
(***************************************************************************)
EXTENDS RelayLedger, Standing, SumsProofs

-----------------------------------------------------------------------------
\* The ledger.

USE ParamsAssumption, RelayAssumption DEF validate

\* Prices and credit lines are natural numbers.
LEMMA PriceType ==
  ASSUME NEW n \in Nat
  PROVE  price_bytes(n) \in Nat
<1>1. (n + 1023) \div 1024 \in Nat
  OBVIOUS
<1> QED
  BY <1>1 DEF price_bytes

\* A credit line (meter.rs credit_line) is an amount.
LEMMA LineType ==
  ASSUME NEW value \in Nat
  PROVE  credit_line(value) \in Nat
BY DEF credit_line, AtMost

\* The thresholds of meter.rs Params::effective are in order at every credit
\* line: a cheque for the settlement amount is never dust, and no cheque of
\* nothing is accepted.
THEOREM ThresholdsOrdered ==
  ASSUME NEW cap \in Nat
  PROVE  /\ effective(cap).min_cheque \in Nat /\ effective(cap).settle_every \in Nat
         /\ 1 <= effective(cap).min_cheque
         /\ effective(cap).min_cheque <= effective(cap).settle_every
         /\ cap >= 2 => 2 * effective(cap).settle_every <= cap
BY DEF effective, AtMost, AtLeast

\* A body costs no less than any part of it, so the bill of the admitted
\* frames never exceeds the reservation of the declared body.
LEMMA PriceMonotone ==
  ASSUME NEW n \in Nat, NEW m \in Nat, m <= n
  PROVE  price_bytes(m) <= price_bytes(n)
<1> DEFINE x == (m + 1023) \div 1024
           y == (n + 1023) \div 1024
<1>1. x \in Nat /\ y \in Nat /\ x <= y
  OBVIOUS
<1> HIDE DEF x, y
<1>2. x * Price <= y * Price
  BY <1>1
<1> QED
  BY <1>2 DEF price_bytes, x, y

-----------------------------------------------------------------------------
\* The inductive invariant.  A request past its first check names an account,
\* and a checked cheque a chequebook.  NeverOverbilled needs its counterpart
\* for the file, which is what a restart loads.

Named ==
  /\ \A p \in Posts : post[p].st # "idle" => post[p].account \in Accounts
  /\ \A q \in Pays : pay[q].st # "idle" => pay[q].account \in Accounts
  /\ \A q \in Pays : pay[q].st = "checked" => pay[q].book \in Books

DiskNeverOverbilled == \A a \in Accounts : disk.owed[a] + paid[a] <= billed[a]

LedgerInv ==
  /\ TypeOK /\ Named
  /\ DurableCheques /\ NoReplay
  /\ NeverOverbilled /\ DiskNeverOverbilled

\* The first boot satisfies it.
LEMMA InitInv == Init => LedgerInv
BY DEF Init, LedgerInv, TypeOK, Named, DurableCheques, NoReplay, NeverOverbilled,
       DiskNeverOverbilled, EmptyLedger, LedgerState, PostState, PayState, NoPost, NoPay

\* A request changes its own record only, and leaves ledger and file alone.
LEMMA RequestStep ==
  ASSUME LedgerInv, UNCHANGED <<ledger, disk, billed, paid, drawn>>, TypeOK', Named'
  PROVE  LedgerInv'
BY Zenon DEF LedgerInv, DurableCheques, NoReplay, NeverOverbilled, DiskNeverOverbilled

\* POST /v1/push up to the end of its reservation.
LEMMA PostStep ==
  ASSUME LedgerInv, NEW p \in Posts,
         \/ \E a \in Accounts, value \in Values : ShedCheck(p, a, value)
         \/ BadLength(p)
         \/ \E bytes \in Bodies : Reserve(p, bytes)
         \/ Release(p)
  PROVE  LedgerInv'
<1> USE DEF LedgerInv
<1>1. ASSUME NEW a \in Accounts, NEW value \in Values, ShedCheck(p, a, value)
      PROVE  TypeOK' /\ Named' /\ UNCHANGED <<ledger, disk, billed, paid, drawn>>
  <2>1. credit_line(value) \in Nat
    BY Zenon, LineType
  <2> QED
    BY Zenon, <1>1, <2>1 DEF ShedCheck, TypeOK, Named, PostState
<1>2. ASSUME BadLength(p)
      PROVE  TypeOK' /\ Named' /\ UNCHANGED <<ledger, disk, billed, paid, drawn>>
  BY Zenon, <1>2 DEF BadLength, TypeOK, Named, PostState, NoPost
<1>3. ASSUME NEW bytes \in Bodies, Reserve(p, bytes)
      PROVE  TypeOK' /\ Named' /\ UNCHANGED <<ledger, disk, billed, paid, drawn>>
  <2>1. price_bytes(bytes) \in Nat
    BY Zenon, PriceType
  <2>2. post[p].account \in Accounts
    BY Zenon, <1>3 DEF Reserve, Named
  <2>3. PICK r \in PostState : r.account = post[p].account /\ post' = [post EXCEPT ![p] = r]
    <3> DEFINE r == [post[p] EXCEPT !.st = post'[p].st, !.bytes = bytes]
    <3>1. post[p] \in PostState
      BY Zenon DEF TypeOK
    <3>2. r \in PostState /\ r.account = post[p].account
      BY Zenon, <1>3, <3>1 DEF Reserve, TypeOK, PostState
    <3>3. post' = [post EXCEPT ![p] = r]
      BY Zenon, <1>3, <3>1 DEF Reserve, TypeOK, PostState
    <3> QED
      BY Zenon, <3>2, <3>3
  <2>4. post' \in [Posts -> PostState]
    BY Zenon, <2>3 DEF TypeOK
  <2>6. \A x \in Posts : post'[x].st # "idle" => post'[x].account \in Accounts
    BY Zenon, <2>2, <2>3 DEF TypeOK, Named
  <2>7. Named'
    BY Zenon, <1>3, <2>6 DEF Reserve, Named
  <2>5. reserved' \in [Accounts -> Nat]
    <3>1. reserved' = [reserved EXCEPT ![post[p].account] = @ + price_bytes(bytes)]
      BY Zenon, <1>3 DEF Reserve
    <3> QED
      BY <2>1, <2>2, <3>1 DEF TypeOK
  <2> QED
    BY Zenon, <1>3, <2>4, <2>5, <2>7 DEF Reserve, TypeOK
<1>4. ASSUME Release(p)
      PROVE  TypeOK' /\ Named' /\ UNCHANGED <<ledger, disk, billed, paid, drawn>>
  <2>1. price_bytes(post[p].bytes) \in Nat
    BY Zenon, PriceType DEF TypeOK, PostState
  <2>2. post[p].account \in Accounts
    BY Zenon, <1>4 DEF Release, Named
  <2> QED
    BY <1>4, <2>1, <2>2 DEF Release, GiveBack, TypeOK, Named, PostState, NoPost
<1> QED
  BY Zenon, <1>1, <1>2, <1>3, <1>4, RequestStep

\* POST /v1/pay up to its credit.
LEMMA PayStep ==
  ASSUME LedgerInv, NEW q \in Pays,
         \/ \E a \in Accounts, value \in Values : PayStart(q, a, value)
         \/ \E k \in Books, cumulative \in 1..MaxCumulative : PayCheck(q, k, cumulative)
         \/ PayReject(q)
  PROVE  LedgerInv'
<1> USE DEF LedgerInv
<1>1. ASSUME NEW a \in Accounts, NEW value \in Values, PayStart(q, a, value)
      PROVE  TypeOK' /\ Named' /\ UNCHANGED <<ledger, disk, billed, paid, drawn>>
  <2>1. credit_line(value) \in Nat
    BY Zenon, LineType
  <2> DEFINE r == [pay[q] EXCEPT !.st = "owing", !.account = a, !.cap = credit_line(value)]
  <2>0. pay[q] \in PayState
    BY Zenon DEF TypeOK
  <2>2. r \in PayState
    BY <2>0, <2>1, Zenon DEF PayState
  <2>3. r.account \in Accounts /\ r.st = "owing"
    BY Zenon, <2>0 DEF PayState
  <2>4. /\ pay' = [pay EXCEPT ![q] = r]
        /\ UNCHANGED <<ledger, reserved, disk, post, billed, paid, drawn>>
    BY Zenon, <1>1 DEF PayStart
  <2> HIDE DEF r
  <2> QED
    BY Zenon, <2>2, <2>3, <2>4 DEF TypeOK, Named
<1>2. ASSUME NEW k \in Books, NEW cumulative \in 1..MaxCumulative,
             PayCheck(q, k, cumulative)
      PROVE  TypeOK' /\ Named' /\ UNCHANGED <<ledger, disk, billed, paid, drawn>>
  <2> DEFINE r == [pay[q] EXCEPT !.st = "checked", !.book = k, !.cumulative = cumulative]
  <2>1. pay[q] \in PayState /\ pay[q].account \in Accounts
    BY Zenon, <1>2 DEF PayCheck, TypeOK, Named
  <2>0. cumulative \in Nat
    BY <1>2
  <2>2. r \in PayState /\ r.account \in Accounts /\ r.book \in Books
    BY Zenon, <2>0, <2>1 DEF PayState
  <2>3. pay' = [pay EXCEPT ![q] = r]
    BY Zenon, <1>2 DEF PayCheck
  <2> HIDE DEF r
  <2>4. /\ pay' \in [Pays -> PayState]
        /\ \A x \in Pays : pay'[x].st # "idle" => pay'[x].account \in Accounts
        /\ \A x \in Pays : pay'[x].st = "checked" => pay'[x].book \in Books
    BY Zenon, <2>2, <2>3 DEF TypeOK, Named
  <2> QED
    BY Zenon, <1>2, <2>4 DEF PayCheck, TypeOK, Named
<1>3. ASSUME PayReject(q)
      PROVE  TypeOK' /\ Named' /\ UNCHANGED <<ledger, disk, billed, paid, drawn>>
  BY Zenon, <1>3 DEF PayReject, TypeOK, Named, PayState, NoPay
<1> QED
  BY Zenon, <1>1, <1>2, <1>3, RequestStep

\* A commit raises the debt and the bill by the same amount; the file has
\* either both or neither.
LEMMA CommitStep ==
  ASSUME LedgerInv, NEW p \in Posts, NEW bytes \in Bodies, NEW ok \in BOOLEAN,
         Commit(p, bytes, ok)
  PROVE  LedgerInv'
<1> DEFINE a == post[p].account
           bill == price_bytes(bytes)
           held == price_bytes(post[p].bytes)
<1>1. a \in Accounts /\ bill \in Nat /\ held \in Nat
  BY Zenon, PriceType DEF Commit, LedgerInv, Named, TypeOK, PostState
<1>2. /\ ledger' = [owed |-> [ledger.owed EXCEPT ![a] = @ + bill],
                  last |-> ledger.last, binding |-> ledger.binding]
      /\ reserved' = [reserved EXCEPT ![a] = IF @ < held THEN 0 ELSE @ - held]
      /\ disk' = IF ok THEN ledger' ELSE disk
      /\ post' = [post EXCEPT ![p] = NoPost]
      /\ billed' = [billed EXCEPT ![a] = @ + bill]
      /\ UNCHANGED <<pay, paid, drawn>>
  BY Zenon DEF Commit, GiveBack, persist
<1> HIDE DEF a, bill, held
<1>3. /\ ledger' \in LedgerState /\ ledger'.last = ledger.last
      /\ ledger'.binding = ledger.binding
      /\ ledger'.owed = [ledger.owed EXCEPT ![a] = @ + bill]
  BY <1>1, <1>2 DEF LedgerInv, TypeOK, LedgerState
<1>4. TypeOK'
  <2>1. disk' \in LedgerState
    BY Zenon, <1>2, <1>3 DEF LedgerInv, TypeOK
  <2>2. reserved' \in [Accounts -> Nat] /\ billed' \in [Accounts -> Nat]
    BY <1>1, <1>2 DEF LedgerInv, TypeOK
  <2>3. post' \in [Posts -> PostState]
    BY Zenon, <1>2 DEF LedgerInv, TypeOK, PostState, NoPost
  <2> QED
    BY Zenon, <1>2, <1>3, <2>1, <2>2, <2>3 DEF LedgerInv, TypeOK
<1>5. Named'
  BY Zenon, <1>2 DEF LedgerInv, TypeOK, Named, NoPost
<1>6. DurableCheques' /\ NoReplay'
  BY Zenon, <1>2, <1>3 DEF LedgerInv, DurableCheques, NoReplay
<1>7. ASSUME NEW x \in Accounts
      PROVE  /\ ledger'.owed[x] + paid'[x] <= billed'[x]
             /\ disk'.owed[x] + paid'[x] <= billed'[x]
  <2>1. /\ ledger.owed[x] \in Nat /\ disk.owed[x] \in Nat /\ paid[x] \in Nat
        /\ billed[x] \in Nat
        /\ ledger.owed[x] + paid[x] <= billed[x] /\ disk.owed[x] + paid[x] <= billed[x]
    BY Zenon DEF LedgerInv, TypeOK, LedgerState, NeverOverbilled, DiskNeverOverbilled
  <2>2. /\ ledger'.owed[x] = IF x = a THEN ledger.owed[x] + bill ELSE ledger.owed[x]
        /\ billed'[x] = IF x = a THEN billed[x] + bill ELSE billed[x]
        /\ paid'[x] = paid[x]
    BY <1>1, <1>2, <1>3 DEF LedgerInv, TypeOK, LedgerState
  <2>3. disk'.owed[x] = ledger'.owed[x] \/ disk'.owed[x] = disk.owed[x]
    BY Zenon, <1>2
  <2> QED
    BY <1>1, <2>1, <2>2, <2>3
<1> QED
  BY Zenon, <1>4, <1>5, <1>6, <1>7 DEF LedgerInv, NeverOverbilled, DiskNeverOverbilled

\* rollback_credit undoes all that Ledger::credit changes.
LEMMA CreditUndone ==
  ASSUME LedgerInv, NEW a \in Accounts, NEW k \in Books, NEW cumulative \in Nat,
         Acceptable(a, k, cumulative)
  PROVE  rollback_credit(Credited(a, k, cumulative), a, k) = ledger
<1> DEFINE delta == cumulative - ledger.last[a][k]
           after == Credited(a, k, cumulative)
<1>4. /\ after.owed = [ledger.owed EXCEPT ![a] = @ - delta]
      /\ after.last = [ledger.last EXCEPT ![a][k] = cumulative]
      /\ after.binding = [ledger.binding EXCEPT ![k] = a]
      /\ after = [owed |-> after.owed, last |-> after.last, binding |-> after.binding]
  BY Zenon DEF Credited, LedgerInv, TypeOK, LedgerState
<1>6. rollback_credit(after, a, k) = ledger
  <2> DEFINE back == rollback_credit(after, a, k)
  <2>1. /\ back.owed = [after.owed EXCEPT ![a] = ledger.owed[a]]
        /\ back.last = [after.last EXCEPT ![a][k] = ledger.last[a][k]]
        /\ back.binding = IF ledger.binding[k] = NoAccount
                          THEN [after.binding EXCEPT ![k] = NoAccount] ELSE after.binding
        /\ back = [owed |-> back.owed, last |-> back.last, binding |-> back.binding]
    BY Zenon, <1>4 DEF rollback_credit
  <2>2. back.owed = ledger.owed
    BY SMTT(60), <1>4, <2>1 DEF LedgerInv, TypeOK, LedgerState
  <2>3. back.last = ledger.last
    BY SMTT(60), <1>4, <2>1 DEF LedgerInv, TypeOK, LedgerState
  <2>4. back.binding = ledger.binding
    BY SMTT(30), <1>4, <2>1 DEF LedgerInv, TypeOK, LedgerState, Acceptable
  <2>5. ledger = [owed |-> ledger.owed, last |-> ledger.last, binding |-> ledger.binding]
    BY Zenon DEF LedgerInv, TypeOK, LedgerState
  <2> QED
    BY Zenon, <2>1, <2>2, <2>3, <2>4, <2>5
<1> QED
  BY Zenon, <1>6

\* A credit that is written moves its amount from the debt to the payments and
\* advances the chequebook's cumulative; one that is not leaves no trace.
LEMMA CreditStep ==
  ASSUME LedgerInv, NEW q \in Pays, NEW ok \in BOOLEAN, PayCredit(q, ok)
  PROVE  LedgerInv'
<1> DEFINE a == pay[q].account
           k == pay[q].book
           cumulative == pay[q].cumulative
           delta == cumulative - ledger.last[a][k]
           after == Credited(a, k, cumulative)
<1>1. a \in Accounts /\ k \in Books /\ Issuer[k] = a /\ cumulative \in Nat
  BY Zenon DEF PayCredit, LedgerInv, Named, TypeOK, PayState
<1>2. /\ Acceptable(a, k, cumulative)
      /\ ledger' = IF ok THEN after ELSE rollback_credit(after, a, k)
      /\ disk' = IF ok THEN ledger' ELSE disk
      /\ paid' = IF ok THEN [paid EXCEPT ![a] = @ + delta] ELSE paid
      /\ drawn' = IF ok THEN [drawn EXCEPT ![k] = @ + delta] ELSE drawn
      /\ pay' = [pay EXCEPT ![q] = NoPay]
      /\ UNCHANGED <<reserved, post, billed>>
  BY Zenon DEF PayCredit, persist
<1> HIDE DEF a, k, cumulative
<1>3. /\ ledger.last[a][k] \in Nat /\ ledger.owed[a] \in Nat
      /\ delta \in Nat /\ delta <= ledger.owed[a]
  BY <1>1, <1>2 DEF LedgerInv, TypeOK, LedgerState, Acceptable
<1>4. /\ after.owed = [ledger.owed EXCEPT ![a] = @ - delta]
      /\ after.last = [ledger.last EXCEPT ![a][k] = cumulative]
      /\ after.binding = [ledger.binding EXCEPT ![k] = a]
      /\ after = [owed |-> after.owed, last |-> after.last, binding |-> after.binding]
  BY Zenon, <1>1 DEF Credited, LedgerInv, TypeOK, LedgerState
<1>5. after \in LedgerState
  <2>1. after.owed \in [Accounts -> Nat]
    BY <1>1, <1>3, <1>4 DEF LedgerInv, TypeOK, LedgerState
  <2>2. after.last \in [Accounts -> [Books -> Nat]]
    BY <1>1, <1>4 DEF LedgerInv, TypeOK, LedgerState
  <2>3. after.binding \in [Books -> Accounts \cup {NoAccount}]
    BY <1>1, <1>4 DEF LedgerInv, TypeOK, LedgerState
  <2> QED
    BY <1>4, <2>1, <2>2, <2>3, SMTT(60) DEF LedgerState
<1>6. rollback_credit(after, a, k) = ledger
  BY Zenon, <1>1, <1>2, CreditUndone
<1> HIDE DEF after, delta
<1>7. CASE ~ok
  <2>1. UNCHANGED <<ledger, disk, billed, paid, drawn, reserved, post>>
    BY Zenon, <1>2, <1>6, <1>7
  <2>2. TypeOK' /\ Named'
    BY Zenon, <1>2, <2>1 DEF LedgerInv, TypeOK, Named, PayState, NoPay
  <2> QED
    BY Zenon, <2>1, <2>2, RequestStep
<1>8. CASE ok
  <2>1. ledger' = after /\ disk' = after
    BY Zenon, <1>2, <1>8
  <2>2. TypeOK'
    <3>1. pay' \in [Pays -> PayState]
      BY Zenon, <1>2 DEF LedgerInv, TypeOK, PayState, NoPay
    <3>2. paid' \in [Accounts -> Nat] /\ drawn' \in [Books -> Nat]
      BY <1>1, <1>2, <1>3, <1>8 DEF LedgerInv, TypeOK
    <3> QED
      BY Zenon, <1>2, <1>5, <2>1, <3>1, <3>2 DEF LedgerInv, TypeOK
  <2>3. Named'
    BY Zenon, <1>2 DEF LedgerInv, TypeOK, Named, NoPay
  <2>4. DurableCheques'
    BY Zenon, <2>1 DEF DurableCheques
  <2>5. NoReplay'
    <3> SUFFICES ASSUME NEW x \in Books, NEW y \in Accounts
                 PROVE  after.last[y][x] = IF y = Issuer[x] THEN drawn'[x] ELSE 0
      BY Zenon, <2>1 DEF NoReplay
    <3>1. ledger.last[y][x] = IF y = Issuer[x] THEN drawn[x] ELSE 0
      BY Zenon DEF LedgerInv, NoReplay
    <3>2. CASE x = k /\ y = a
      <4>1. drawn[k] = ledger.last[a][k]
        BY Zenon, <1>1 DEF LedgerInv, NoReplay
      <4>2. drawn'[k] = drawn[k] + delta
        BY Zenon, <1>1, <1>2, <1>8 DEF LedgerInv, TypeOK
      <4>3. after.last[a][k] = cumulative
        BY <1>1, <1>4 DEF LedgerInv, TypeOK, LedgerState
      <4> QED
        BY <1>1, <1>3, <3>2, <4>1, <4>2, <4>3 DEF delta
    <3>3. CASE ~(x = k /\ y = a)
      <4>1. after.last[y][x] = ledger.last[y][x]
        BY <1>1, <1>4, <3>3 DEF LedgerInv, TypeOK, LedgerState
      <4>2. y = Issuer[x] => drawn'[x] = drawn[x]
        BY Zenon, <1>1, <1>2, <3>3 DEF LedgerInv, TypeOK
      <4> QED
        BY Zenon, <3>1, <4>1, <4>2
    <3> QED
      BY Zenon, <3>2, <3>3
  <2>6. ASSUME NEW x \in Accounts
        PROVE  after.owed[x] + paid'[x] <= billed'[x]
    <3>1. /\ ledger.owed[x] \in Nat /\ paid[x] \in Nat /\ billed[x] \in Nat
          /\ ledger.owed[x] + paid[x] <= billed[x]
      BY Zenon DEF LedgerInv, TypeOK, LedgerState, NeverOverbilled
    <3>2. /\ after.owed[x] = IF x = a THEN ledger.owed[x] - delta ELSE ledger.owed[x]
          /\ paid'[x] = IF x = a THEN paid[x] + delta ELSE paid[x]
          /\ billed'[x] = billed[x]
      BY <1>1, <1>2, <1>4, <1>8 DEF LedgerInv, TypeOK, LedgerState
    <3> QED
      BY <1>3, <3>1, <3>2
  <2> QED
    BY Zenon, <2>1, <2>2, <2>3, <2>4, <2>5, <2>6
    DEF LedgerInv, NeverOverbilled, DiskNeverOverbilled
<1> QED
  BY Zenon, <1>7, <1>8

\* Every step preserves the invariant; a restart loads a file that satisfies it.
LEMMA LedgerStep ==
  ASSUME LedgerInv, [Next]_vars
  PROVE  LedgerInv'
<1>1. CASE UNCHANGED vars
  <2>1. TypeOK' /\ Named'
    BY Zenon, <1>1 DEF vars, LedgerInv, TypeOK, Named
  <2> QED
    BY Zenon, <1>1, <2>1, RequestStep DEF vars
<1>2. CASE Restart
  <2>1. TypeOK'
    <3>1. post' \in [Posts -> PostState] /\ pay' \in [Pays -> PayState]
      BY Zenon, <1>2 DEF Restart, NoPost, NoPay, PostState, PayState
    <3> QED
      BY Zenon, <1>2, <3>1 DEF Restart, LedgerInv, TypeOK
  <2>2. Named'
    BY Zenon, <1>2 DEF Restart, Named, NoPost, NoPay
  <2>3. DurableCheques' /\ NoReplay'
    BY <1>2 DEF Restart, LedgerInv, DurableCheques, NoReplay
  <2>4. NeverOverbilled' /\ DiskNeverOverbilled'
    BY Zenon, <1>2 DEF Restart, LedgerInv, NeverOverbilled, DiskNeverOverbilled
  <2> QED
    BY Zenon, <2>1, <2>2, <2>3, <2>4 DEF LedgerInv
<1> QED
  BY Zenon, <1>1, <1>2, PostStep, PayStep, CommitStep, CreditStep DEF Next

\* The inductive invariant holds in every state of every run.
LEMMA LedgerInvariant == Spec => []LedgerInv
BY InitInv, LedgerStep, PTL DEF Spec

-----------------------------------------------------------------------------
\* Type correctness of the relay's ledger and of its requests (ledger.rs,
\* pusher.rs): in particular no debt is ever driven below zero.
THEOREM LedgerTyping == Spec => []TypeOK
<1>1. LedgerInv => TypeOK
  BY Zenon DEF LedgerInv
<1> QED
  BY <1>1, LedgerInvariant, PTL

\* Every cheque accepted by Metered::credit is on disk when its lock is
\* released, and none that is not accepted is.
THEOREM ChequesDurable == Spec => []DurableCheques
<1>1. LedgerInv => DurableCheques
  BY Zenon DEF LedgerInv
<1> QED
  BY <1>1, LedgerInvariant, PTL

\* No cheque is credited twice (ledger.rs credit, rollback_credit and
\* load_or_create), whatever writes fail and whenever the relay restarts.
THEOREM ChequesCreditedOnce == Spec => []NoReplay
<1>1. LedgerInv => NoReplay
  BY Zenon DEF LedgerInv
<1> QED
  BY <1>1, LedgerInvariant, PTL

\* No account is asked to pay for more than it was served, across failed
\* writes and restarts (ledger.rs commit, credit and persist).
THEOREM BillsAreFair == Spec => []NeverOverbilled
<1>1. LedgerInv => NeverOverbilled
  BY Zenon DEF LedgerInv
<1> QED
  BY <1>1, LedgerInvariant, PTL

-----------------------------------------------------------------------------
\* The arithmetic behind a 402: what does not fit next to half the line means
\* a debt above the dust floor.
LEMMA HalfLineIsPayable ==
  ASSUME NEW cap \in Nat, NEW owed \in Nat, NEW amount \in Nat,
         owed + amount > cap, 2 * amount <= cap + 1
  PROVE  owed >= effective(cap).min_cheque
BY DEF effective, AtMost, AtLeast

\* An account refused a POST of at most half its credit line, with nothing
\* else in flight, can clear the refusal with a cheque for what it owes
\* (pusher.rs admit_metered against pay_response's floor).
THEOREM RefusalsPayable == Spec => RefusalIsPayable
<1>1. ASSUME LedgerInv, [Next]_vars, NEW p \in Posts, RefusedAlone(p),
             2 * price_bytes(post'[p].bytes) <= post[p].cap + 1
      PROVE  ledger.owed[post[p].account] >= effective(post[p].cap).min_cheque
  <2>1. PICK bytes \in Bodies : Reserve(p, bytes)
    <3>1. post' # post
      BY Zenon, <1>1 DEF RefusedAlone
    <3>2. ~Restart
      BY <1>1 DEF Restart, RefusedAlone, NoPost
    <3>3. ASSUME NEW x \in Posts, NEW r, r.st # "refused", post' = [post EXCEPT ![x] = r]
          PROVE  FALSE
      BY Zenon, <1>1, <3>3 DEF RefusedAlone, LedgerInv, TypeOK
    <3>4. ASSUME NEW x \in Posts, NEW bytes \in Bodies, Reserve(x, bytes)
          PROVE  x = p
      BY Zenon, <1>1, <3>4 DEF Reserve, RefusedAlone, LedgerInv, TypeOK
    <3>5. \A x \in Posts : ~BadLength(x) /\ ~Release(x)
      BY Zenon, <3>3 DEF BadLength, Release, NoPost
    <3>6. \A x \in Posts, bytes \in Bodies, ok \in BOOLEAN : ~Commit(x, bytes, ok)
      BY Zenon, <3>3 DEF Commit, NoPost
    <3>7. \A x \in Posts, a \in Accounts, value \in Values : ~ShedCheck(x, a, value)
      BY Zenon, <3>3 DEF ShedCheck
    <3>8. ASSUME NEW q \in Pays
          PROVE  /\ \A a \in Accounts, value \in Values : ~PayStart(q, a, value)
                 /\ \A k \in Books, cumulative \in 1..MaxCumulative :
                      ~PayCheck(q, k, cumulative)
                 /\ ~PayReject(q)
                 /\ \A ok \in BOOLEAN : ~PayCredit(q, ok)
      BY Zenon, <3>1 DEF PayStart, PayCheck, PayReject, PayCredit
    <3> QED
      BY Zenon, <1>1, <3>1, <3>2, <3>4, <3>5, <3>6, <3>7, <3>8 DEF Next, vars
  <2> DEFINE a == post[p].account
             cap == post[p].cap
             amount == price_bytes(bytes)
  <2>2. a \in Accounts /\ cap \in Nat /\ amount \in Nat /\ ledger.owed[a] \in Nat
    BY Zenon, <1>1, <2>1, PriceType DEF Reserve, LedgerInv, Named, TypeOK, PostState, LedgerState
  <2>3. post'[p].bytes = bytes
    BY Zenon, <1>1, <2>1 DEF Reserve, LedgerInv, TypeOK, PostState
  <2>4. OverCap(a, amount, cap)
    BY Zenon, <1>1, <2>1 DEF Reserve, RefusedAlone, LedgerInv, TypeOK, PostState
  <2>5. ledger.owed[a] + amount > cap
    BY <1>1, <2>2, <2>4 DEF OverCap, RefusedAlone
  <2> HIDE DEF a, cap, amount
  <2>6. ledger.owed[a] >= effective(cap).min_cheque
    BY Zenon, <1>1, <2>2, <2>3, <2>5, HalfLineIsPayable DEF cap, amount
  <2> QED
    BY Zenon, <2>6 DEF a, cap
<1>2. LedgerInv /\ [Next]_vars
        => [\A p \in Posts :
              RefusedAlone(p) /\ 2 * price_bytes(post'[p].bytes) <= post[p].cap + 1
                => ledger.owed[post[p].account] >= effective(post[p].cap).min_cheque]_vars
  BY Zenon, <1>1
<1> QED
  BY <1>2, LedgerInvariant, PTL DEF Spec, RefusalIsPayable

-----------------------------------------------------------------------------
\* The relay implements its promise.  A restart forgets debt and adds none
\* because the file never holds more debt than memory: every write copies
\* memory, and a credit, the only step that lowers a debt in memory, is written
\* or undone before its lock is released.

FileBelow == \A a \in Accounts : disk.owed[a] <= ledger.owed[a]

Cashed == [k \in Books |-> ledger.last[Issuer[k]][k]]

\* A request that touches neither ledger nor file.
LEMMA QuietStep ==
  ASSUME FileBelow, UNCHANGED <<ledger, disk>>
  PROVE  FileBelow' /\ UNCHANGED Account!vars
BY Zenon DEF FileBelow, Account!vars

\* A commit serves on credit.
LEMMA CommitServes ==
  ASSUME LedgerInv, FileBelow, NEW p \in Posts, NEW bytes \in Bodies, NEW ok \in BOOLEAN,
         Commit(p, bytes, ok)
  PROVE  FileBelow' /\ Account!Next
<1> DEFINE a == post[p].account
           bill == price_bytes(bytes)
<1>1. a \in Accounts /\ bill \in Nat
  BY Zenon, PriceType DEF Commit, LedgerInv, Named, TypeOK, PostState
<1>2. /\ ledger'.owed = [ledger.owed EXCEPT ![a] = @ + bill]
      /\ ledger'.last = ledger.last
      /\ disk' = IF ok THEN ledger' ELSE disk
  BY Zenon DEF Commit, persist
<1>3. bill \in {price_bytes(x) : x \in Bodies}
  BY Zenon
<1> HIDE DEF a, bill
<1>4. Account!Serve(a, bill)
  BY Zenon, <1>2 DEF Account!Serve
<1>5. Account!Next
  BY Zenon, <1>1, <1>3, <1>4 DEF Account!Next
<1>6. ASSUME NEW x \in Accounts
      PROVE  disk'.owed[x] <= ledger'.owed[x]
  <2>1. ledger.owed[x] \in Nat /\ disk.owed[x] \in Nat /\ disk.owed[x] <= ledger.owed[x]
    BY Zenon DEF LedgerInv, TypeOK, LedgerState, FileBelow
  <2>2. ledger'.owed[x] = IF x = a THEN ledger.owed[x] + bill ELSE ledger.owed[x]
    BY <1>1, <1>2 DEF LedgerInv, TypeOK, LedgerState
  <2>3. disk'.owed[x] = ledger'.owed[x] \/ disk'.owed[x] = disk.owed[x]
    BY Zenon, <1>2
  <2> QED
    BY <1>1, <2>1, <2>2, <2>3
<1> QED
  BY Zenon, <1>5, <1>6 DEF FileBelow

\* A credit that is written cashes a cheque; one that is not changes nothing.
LEMMA CreditCashes ==
  ASSUME LedgerInv, FileBelow, NEW q \in Pays, NEW ok \in BOOLEAN, PayCredit(q, ok)
  PROVE  FileBelow' /\ [Account!Next]_(Account!vars)
<1> DEFINE a == pay[q].account
           k == pay[q].book
           cumulative == pay[q].cumulative
           delta == cumulative - ledger.last[a][k]
           after == Credited(a, k, cumulative)
<1>1. a \in Accounts /\ k \in Books /\ Issuer[k] = a /\ cumulative \in Nat
  BY Zenon DEF PayCredit, LedgerInv, Named, TypeOK, PayState
<1>2. /\ Acceptable(a, k, cumulative)
      /\ ledger' = IF ok THEN after ELSE rollback_credit(after, a, k)
      /\ disk' = IF ok THEN ledger' ELSE disk
  BY Zenon DEF PayCredit, persist
<1> HIDE DEF a, k, cumulative
<1>3. /\ delta \in Nat \ {0} /\ delta <= ledger.owed[a]
      /\ after.owed = [ledger.owed EXCEPT ![a] = @ - delta]
      /\ after.last = [ledger.last EXCEPT ![a][k] = cumulative]
      /\ rollback_credit(after, a, k) = ledger
  <2>1. delta \in Nat \ {0} /\ delta <= ledger.owed[a]
    BY <1>1, <1>2 DEF LedgerInv, TypeOK, LedgerState, Acceptable
  <2>2. /\ after.owed = [ledger.owed EXCEPT ![a] = @ - delta]
        /\ after.last = [ledger.last EXCEPT ![a][k] = cumulative]
    BY Zenon, <1>1 DEF Credited, LedgerInv, TypeOK, LedgerState
  <2>3. rollback_credit(after, a, k) = ledger
    BY Zenon, <1>1, <1>2, CreditUndone
  <2> QED
    BY Zenon, <2>1, <2>2, <2>3
<1>4. /\ ledger.last \in [Accounts -> [Books -> Nat]] /\ ledger.owed \in [Accounts -> Nat]
      /\ delta = cumulative - ledger.last[a][k]
  BY Zenon DEF LedgerInv, TypeOK, LedgerState
<1> HIDE DEF after, delta
<1>5. CASE ~ok
  BY Zenon, <1>2, <1>3, <1>5, QuietStep
<1>6. CASE ok
  <2>1. ledger' = after /\ disk' = after
    BY Zenon, <1>2, <1>6
  <2>2. after.owed \in [Accounts -> Nat]
    BY <1>1, <1>3, <1>4
  <2>3. FileBelow'
    BY <2>1, <2>2 DEF FileBelow
  <2>4. Cashed' = [Cashed EXCEPT ![k] = @ + delta]
    <3>1. ASSUME NEW x \in Books
          PROVE  after.last[Issuer[x]][x] =
                   IF x = k THEN ledger.last[a][k] + delta ELSE ledger.last[Issuer[x]][x]
      BY <1>1, <1>3, <1>4
    <3> QED
      BY <1>1, <2>1, <3>1, Zenon DEF Cashed
  <2>5. delta \in 1..ledger.owed[Issuer[k]]
    BY <1>1, <1>3, <1>4
  <2>6. PICK x \in Books, amount \in 1..ledger.owed[Issuer[k]] : x = k /\ amount = delta
    BY Zenon, <1>1, <2>5
  <2>7. Account!Next
    <3>1. Account!Cash(x, amount)
      BY Zenon, <1>1, <1>3, <2>1, <2>4, <2>6 DEF Account!Cash, Cashed
    <3>2. amount \in 1..ledger.owed[Issuer[x]]
      BY Zenon, <2>6
    <3>3. \E y \in Books : \E n \in 1..ledger.owed[Issuer[y]] : Account!Cash(y, n)
      BY Zenon, <3>1, <3>2
    <3> QED
      BY Zenon, <3>3 DEF Account!Next
  <2> QED
    BY Zenon, <2>3, <2>7
<1> QED
  BY Zenon, <1>5, <1>6

\* A credit, written or undone, raises no debt.
LEMMA CreditLowers ==
  ASSUME LedgerInv, NEW q \in Pays, NEW ok \in BOOLEAN, PayCredit(q, ok)
  PROVE  \A x \in Accounts : ledger'.owed[x] <= ledger.owed[x]
<1> DEFINE a == pay[q].account
           k == pay[q].book
           cumulative == pay[q].cumulative
           delta == cumulative - ledger.last[a][k]
           after == Credited(a, k, cumulative)
<1>1. a \in Accounts /\ k \in Books /\ cumulative \in Nat
  BY Zenon DEF PayCredit, LedgerInv, Named, TypeOK, PayState
<1>2. /\ Acceptable(a, k, cumulative)
      /\ ledger' = IF ok THEN after ELSE rollback_credit(after, a, k)
  BY Zenon DEF PayCredit
<1> HIDE DEF a, k, cumulative
<1>3. delta \in Nat /\ ledger.owed \in [Accounts -> Nat]
  BY <1>1, <1>2 DEF LedgerInv, TypeOK, LedgerState, Acceptable
<1>4. after.owed = [ledger.owed EXCEPT ![a] = @ - delta]
  BY Zenon DEF Credited
<1>5. rollback_credit(after, a, k) = ledger
  BY Zenon, <1>1, <1>2, CreditUndone
<1> HIDE DEF after, delta
<1> QED
  BY <1>1, <1>2, <1>3, <1>4, <1>5

\* A restart forgets the debt whose write failed, and no cheque.
LEMMA RestartForgets ==
  ASSUME LedgerInv, FileBelow, Restart
  PROVE  FileBelow' /\ Account!Next
<1>1. /\ ledger' = disk /\ disk' = disk /\ disk.last = ledger.last
      /\ disk.owed \in [Accounts -> Nat]
  BY Zenon DEF Restart, LedgerInv, TypeOK, LedgerState, DurableCheques
<1>2. FileBelow'
  BY <1>1 DEF FileBelow
<1>3. Account!Forget
  BY Zenon, <1>1 DEF Account!Forget, FileBelow
<1> QED
  BY Zenon, <1>2, <1>3 DEF Account!Next

\* Every step of the relay is a step of its accounts, or changes none.
LEMMA AccountStep ==
  ASSUME LedgerInv, FileBelow, [Next]_vars
  PROVE  FileBelow' /\ [Account!Next]_(Account!vars)
<1>1. CASE UNCHANGED vars
  BY Zenon, <1>1, QuietStep DEF vars
<1>2. ASSUME NEW p \in Posts,
             \/ \E a \in Accounts, value \in Values : ShedCheck(p, a, value)
             \/ BadLength(p)
             \/ \E bytes \in Bodies : Reserve(p, bytes)
             \/ Release(p)
      PROVE  UNCHANGED <<ledger, disk>>
  BY Zenon, <1>2 DEF ShedCheck, BadLength, Reserve, Release
<1>3. ASSUME NEW q \in Pays,
             \/ \E a \in Accounts, value \in Values : PayStart(q, a, value)
             \/ \E k \in Books, cumulative \in 1..MaxCumulative : PayCheck(q, k, cumulative)
             \/ PayReject(q)
      PROVE  UNCHANGED <<ledger, disk>>
  BY Zenon, <1>3 DEF PayStart, PayCheck, PayReject
<1> QED
  BY Zenon, <1>1, <1>2, <1>3, QuietStep, CommitServes, CreditCashes, RestartForgets DEF Next

\* The relay keeps its clients' accounts (ledger.rs commit, credit,
\* rollback_credit, persist and load_or_create under metered.rs's lock): for any
\* accounts, chequebooks and requests, and whatever writes fail, the detailed
\* ledger implements CreditAccount.
THEOREM RelayKeepsAccounts == Spec => KeepsAccounts
<1>1. Init => FileBelow /\ Account!Init
  BY DEF Init, EmptyLedger, FileBelow, Account!Init
<1> QED
  BY <1>1, LedgerInvariant, AccountStep, PTL DEF Spec, KeepsAccounts, Account!Spec

-----------------------------------------------------------------------------
\* Reservations.  A POST past its first check carries a credit line of one of
\* the account's batches, and each reservation is held by one POST.

Holding == {"refused", "admitted"}

LineCarried ==
  \A p \in Posts : post[p].st # "idle" => \E value \in Values : post[p].cap = credit_line(value)

CreditInv == ReservedIsHeld /\ WithinCreditLine /\ LineCarried

\* What p contributes to a sum over the POSTs of a in one of the states.
Share(p, a, states) ==
  IF p \in Held(a, states) THEN price_bytes(post[p].bytes) ELSE 0

\* Every sum of reservations is an amount, and what is admitted is part of
\* what is held.
LEMMA HeldType ==
  ASSUME TypeOK, NEW a \in Accounts
  PROVE  /\ \A states : PriceOf(Held(a, states)) \in Nat
         /\ PriceOf(Held(a, {"admitted"})) <= PriceOf(Held(a, Holding))
<1> DEFINE cost == [x \in Posts |-> price_bytes(post[x].bytes)]
<1>1. \A x \in Posts : cost[x] \in Nat
  BY Zenon, PriceType DEF TypeOK, PostState
<1>2. ASSUME NEW states
      PROVE  IsFiniteSet(Held(a, states)) /\ Held(a, states) \in SUBSET Posts
  BY Zenon, FS_Subset DEF Held
<1> HIDE DEF cost
<1>3. ASSUME NEW states
      PROVE  SumOver(cost, Held(a, states)) \in Nat
  BY Zenon, <1>1, <1>2, SumNat
<1>4. Held(a, {"admitted"}) \in SUBSET Held(a, Holding)
  BY Zenon DEF Held, Holding
<1>5. SumOver(cost, Held(a, {"admitted"})) <= SumOver(cost, Held(a, Holding))
  BY Zenon, <1>1, <1>2, <1>4, SumSubset
<1> QED
  BY Zenon, <1>3, <1>5 DEF PriceOf, cost

\* A step of p leaves the other POSTs alone.
Others(p) == \A x \in Posts \ {p} : post'[x] = post[x]

\* A step that changes only p changes each sum by p's share.
LEMMA HeldMoves ==
  ASSUME TypeOK, TypeOK', NEW p \in Posts, Others(p),
         NEW a \in Accounts, NEW states
  PROVE  /\ PriceOf(Held(a, states))' + Share(p, a, states)
              = PriceOf(Held(a, states)) + Share(p, a, states)'
         /\ Share(p, a, states) \in Nat /\ Share(p, a, states)' \in Nat
         /\ PriceOf(Held(a, states)) \in Nat /\ PriceOf(Held(a, states))' \in Nat
         /\ Share(p, a, states) <= PriceOf(Held(a, states))
<1> DEFINE cost == [x \in Posts |-> price_bytes(post[x].bytes)]
           next == [x \in Posts |-> price_bytes(post'[x].bytes)]
           H == Held(a, states)
           G == {x \in Posts : post'[x].account = a /\ post'[x].st \in states}
           R == H \ {p}
<1>1. /\ \A x \in Posts : cost[x] \in Nat /\ next[x] \in Nat
      /\ \A x \in Posts \ {p} : cost[x] = next[x]
  BY Zenon, PriceType DEF TypeOK, PostState, Others
<1>2. H \subseteq Posts /\ G \subseteq Posts /\ G \ {p} = R
  BY Zenon DEF Held, Others
<1>3. IsFiniteSet(H) /\ IsFiniteSet(G) /\ IsFiniteSet(R)
  BY Zenon, <1>2, FS_Subset
<1>4. /\ PriceOf(Held(a, states)) = SumOver(cost, H)
      /\ PriceOf(Held(a, states))' = SumOver(next, G)
      /\ Share(p, a, states) = IF p \in H THEN cost[p] ELSE 0
      /\ Share(p, a, states)' = IF p \in G THEN next[p] ELSE 0
  BY Zenon DEF PriceOf, Held, Share
<1> HIDE DEF cost, next, H, G
<1>5. SumOver(cost, R) = SumOver(next, R) /\ SumOver(cost, R) \in Nat
  <2>1. \A x \in R : cost[x] = next[x] /\ cost[x] \in Nat
    BY Zenon, <1>1, <1>2
  <2> HIDE DEF R
  <2> QED
    BY Zenon, <1>3, <2>1, SumEqual, SumNat
<1>6. SumOver(cost, H) = SumOver(cost, R) + (IF p \in H THEN cost[p] ELSE 0)
  <2>1. CASE p \in H
    <3>0. \A x \in H : cost[x] \in Nat
      BY Zenon, <1>1, <1>2
    <3>1. SumOver(cost, H) = cost[p] + SumOver(cost, H \ {p})
      BY <1>3, <2>1, <3>0, SumRemove
    <3> QED
      BY <1>1, <1>5, <2>1, <3>1
  <2>2. CASE p \notin H
    <3>1. R = H
      BY Zenon, <2>2
    <3> HIDE DEF R
    <3> QED
      BY <1>5, <2>2, <3>1
  <2> QED
    BY Zenon, <2>1, <2>2
<1>7. SumOver(next, G) = SumOver(next, R) + (IF p \in G THEN next[p] ELSE 0)
  <2>1. CASE p \in G
    <3>0. \A x \in G : next[x] \in Nat
      BY Zenon, <1>1, <1>2
    <3>1. SumOver(next, G) = next[p] + SumOver(next, G \ {p})
      BY <1>3, <2>1, <3>0, SumRemove
    <3>2. SumOver(next, G) = next[p] + SumOver(next, R)
      BY Zenon, <1>2, <3>1
    <3> HIDE DEF R
    <3> QED
      BY <1>1, <1>5, <2>1, <3>2
  <2>2. CASE p \notin G
    <3>1. R = G
      BY Zenon, <1>2, <2>2
    <3> HIDE DEF R
    <3> QED
      BY <1>5, <2>2, <3>1
  <2> QED
    BY Zenon, <2>1, <2>2
<1> HIDE DEF R
<1> QED
  BY <1>1, <1>4, <1>5, <1>6, <1>7

\* A step that holds nothing before or after leaves every sum as it was.
LEMMA UnheldStep ==
  ASSUME CreditInv, TypeOK, TypeOK', NEW p \in Posts,
         \A x \in Posts \ {p} : post'[x] = post[x],
         post[p].st \notin Holding, post'[p].st \notin Holding,
         LineCarried', UNCHANGED <<ledger, reserved>>
  PROVE  CreditInv'
<1>0. Others(p)
  BY Zenon DEF Others
<1>1. ASSUME NEW a \in Accounts, NEW states \in SUBSET Holding
      PROVE  PriceOf(Held(a, states))' = PriceOf(Held(a, states))
  <2>1. Share(p, a, states) = 0 /\ Share(p, a, states)' = 0
    BY Zenon DEF Share, Held
  <2>2. /\ PriceOf(Held(a, states))' + Share(p, a, states)
             = PriceOf(Held(a, states)) + Share(p, a, states)'
        /\ PriceOf(Held(a, states)) \in Nat /\ PriceOf(Held(a, states))' \in Nat
    BY <1>0, HeldMoves, Zenon
  <2> QED
    BY <2>1, <2>2
<1>2. Holding \in SUBSET Holding /\ {"admitted"} \in SUBSET Holding
  BY Zenon DEF Holding
<1>3. ReservedIsHeld'
  <2> SUFFICES ASSUME NEW a \in Accounts
               PROVE  reserved'[a] = PriceOf(Held(a, Holding))'
    BY Zenon DEF ReservedIsHeld, Holding
  <2>1. reserved[a] = PriceOf(Held(a, Holding))
    BY Zenon DEF CreditInv, ReservedIsHeld, Holding
  <2> QED
    BY Zenon, <1>1, <1>2, <2>1
<1>4. WithinCreditLine'
  <2> SUFFICES ASSUME HardMode, NEW a \in Accounts
               PROVE  \E value \in Values :
                        ledger'.owed[a] + PriceOf(Held(a, {"admitted"}))' <= credit_line(value)
    BY Zenon DEF WithinCreditLine
  <2>1. PICK value \in Values :
          ledger.owed[a] + PriceOf(Held(a, {"admitted"})) <= credit_line(value)
    BY Zenon DEF CreditInv, WithinCreditLine
  <2> QED
    BY Zenon, <1>1, <1>2, <2>1
<1> QED
  BY Zenon, <1>3, <1>4 DEF CreditInv

\* The first check takes a credit line of one of the account's batches.
LEMMA ShedCredit ==
  ASSUME LedgerInv, LedgerInv', CreditInv, NEW p \in Posts, NEW a \in Accounts,
         NEW value \in Values, ShedCheck(p, a, value)
  PROVE  CreditInv'
<1>1. /\ \A x \in Posts \ {p} : post'[x] = post[x]
      /\ post'[p].st = "unshed" /\ post'[p].cap = credit_line(value)
      /\ post[p].st = "idle" /\ UNCHANGED <<ledger, reserved>>
  BY Zenon DEF ShedCheck, LedgerInv, TypeOK
<1>2. LineCarried'
  BY Zenon, <1>1 DEF CreditInv, LineCarried
<1>3. post[p].st \notin Holding /\ post'[p].st \notin Holding
  BY Zenon, <1>1 DEF Holding
<1> QED
  BY Zenon, <1>1, <1>2, <1>3, UnheldStep DEF LedgerInv

\* A POST of unknown length leaves before it reserves.
LEMMA BadLengthCredit ==
  ASSUME LedgerInv, LedgerInv', CreditInv, NEW p \in Posts, BadLength(p)
  PROVE  CreditInv'
<1>1. /\ \A x \in Posts \ {p} : post'[x] = post[x]
      /\ post'[p].st = "idle" /\ post[p].st = "unshed" /\ UNCHANGED <<ledger, reserved>>
  BY Zenon DEF BadLength, LedgerInv, TypeOK, NoPost
<1>2. LineCarried'
  BY Zenon, <1>1 DEF CreditInv, LineCarried
<1>3. post[p].st \notin Holding /\ post'[p].st \notin Holding
  BY Zenon, <1>1 DEF Holding
<1> QED
  BY Zenon, <1>1, <1>2, <1>3, UnheldStep DEF LedgerInv

\* A reservation is added to what the account holds; it is admitted only where
\* it fits the line next to everything already held.
LEMMA ReserveCredit ==
  ASSUME LedgerInv, LedgerInv', CreditInv, NEW p \in Posts, NEW bytes \in Bodies,
         Reserve(p, bytes)
  PROVE  CreditInv'
<1> DEFINE a == post[p].account
           amount == price_bytes(bytes)
           cap == post[p].cap
<1>1. /\ post[p] \in PostState /\ post[p].st = "unshed" /\ a \in Accounts
      /\ amount \in Nat /\ cap \in Nat
  BY Zenon, PriceType DEF Reserve, LedgerInv, TypeOK, Named, PostState
<1>2. /\ \A x \in Posts \ {p} : post'[x] = post[x]
      /\ post'[p].st = IF OverCap(a, amount, cap) /\ HardMode THEN "refused" ELSE "admitted"
      /\ post'[p].account = a /\ post'[p].cap = cap /\ post'[p].bytes = bytes
      /\ reserved' = [reserved EXCEPT ![a] = @ + amount]
      /\ ledger' = ledger
  BY Zenon, <1>1 DEF Reserve, LedgerInv, TypeOK, PostState
<1> HIDE DEF a, amount, cap
<1>rest. Others(p)
  BY Zenon, <1>2 DEF Others
<1>3. TypeOK /\ TypeOK' /\ reserved \in [Accounts -> Nat] /\ ledger.owed \in [Accounts -> Nat]
  BY Zenon DEF LedgerInv, TypeOK, LedgerState
<1>4. LineCarried'
  BY Zenon, <1>1, <1>2 DEF CreditInv, LineCarried, cap
<1>5. ASSUME NEW x \in Accounts
      PROVE  /\ Share(p, x, Holding) = 0 /\ Share(p, x, {"admitted"}) = 0
             /\ Share(p, x, Holding)' = IF x = a THEN amount ELSE 0
             /\ Share(p, x, {"admitted"})' =
                  IF x = a /\ post'[p].st = "admitted" THEN amount ELSE 0
  BY Zenon, <1>1, <1>2 DEF Share, Held, Holding, amount
<1>6. ASSUME NEW x \in Accounts
      PROVE  /\ PriceOf(Held(x, Holding)) \in Nat
             /\ PriceOf(Held(x, {"admitted"})) \in Nat
             /\ PriceOf(Held(x, {"admitted"})) <= PriceOf(Held(x, Holding))
  BY Zenon, <1>3, HeldType
<1>7. ASSUME NEW x \in Accounts
      PROVE  /\ PriceOf(Held(x, Holding))'
                  = PriceOf(Held(x, Holding)) + Share(p, x, Holding)'
             /\ PriceOf(Held(x, {"admitted"}))'
                  = PriceOf(Held(x, {"admitted"})) + Share(p, x, {"admitted"})'
  <2>1. /\ PriceOf(Held(x, Holding))' + Share(p, x, Holding)
             = PriceOf(Held(x, Holding)) + Share(p, x, Holding)'
        /\ PriceOf(Held(x, Holding))' \in Nat /\ Share(p, x, Holding)' \in Nat
    BY <1>3, <1>rest, HeldMoves, Zenon
  <2>2. /\ PriceOf(Held(x, {"admitted"}))' + Share(p, x, {"admitted"})
             = PriceOf(Held(x, {"admitted"})) + Share(p, x, {"admitted"})'
        /\ PriceOf(Held(x, {"admitted"}))' \in Nat /\ Share(p, x, {"admitted"})' \in Nat
    BY <1>3, <1>rest, HeldMoves, Zenon
  <2> QED
    BY SMTT(60), <1>5, <1>6, <2>1, <2>2
<1>8. ReservedIsHeld'
  <2> SUFFICES ASSUME NEW x \in Accounts
               PROVE  reserved'[x] = PriceOf(Held(x, Holding))'
    BY Zenon DEF ReservedIsHeld, Holding
  <2>1. reserved[x] = PriceOf(Held(x, Holding))
    BY Zenon DEF CreditInv, ReservedIsHeld, Holding
  <2>2. reserved'[x] = IF x = a THEN reserved[x] + amount ELSE reserved[x]
    BY Zenon, <1>1, <1>2, <1>3
  <2> QED
    BY <1>1, <1>5, <1>6, <1>7, <2>1, <2>2
<1>9. WithinCreditLine'
  <2> SUFFICES ASSUME HardMode, NEW x \in Accounts
               PROVE  \E value \in Values :
                        ledger'.owed[x] + PriceOf(Held(x, {"admitted"}))' <= credit_line(value)
    BY Zenon DEF WithinCreditLine
  <2>1. CASE x = a /\ post'[p].st = "admitted"
    <3>1. PICK value \in Values : cap = credit_line(value)
      BY Zenon, <1>1 DEF CreditInv, LineCarried, cap
    <3>2. ledger.owed[a] + reserved[a] + amount <= cap
      <4>1. ~ OverCap(a, amount, cap)
        BY Zenon, <1>2, <2>1
      <4>2. ledger.owed[a] \in Nat /\ reserved[a] \in Nat
        BY Zenon, <1>1, <1>3
      <4> QED
        BY <1>1, <4>1, <4>2 DEF OverCap
    <3>3. reserved[a] = PriceOf(Held(a, Holding))
      BY Zenon, <1>1 DEF CreditInv, ReservedIsHeld, Holding
    <3>4. PriceOf(Held(x, {"admitted"}))' = PriceOf(Held(a, {"admitted"})) + amount
      BY Zenon, <1>5, <1>7, <2>1
    <3>5. ledger.owed[a] \in Nat /\ PriceOf(Held(a, {"admitted"})) \in Nat
          /\ PriceOf(Held(a, {"admitted"})) <= PriceOf(Held(a, Holding))
          /\ PriceOf(Held(a, Holding)) \in Nat
      BY Zenon, <1>1, <1>3, <1>6
    <3>6. ledger'.owed[x] + PriceOf(Held(x, {"admitted"}))' <= credit_line(value)
      BY <1>1, <1>2, <2>1, <3>1, <3>2, <3>3, <3>4, <3>5
    <3> QED
      BY Zenon, <3>6
  <2>2. CASE ~ (x = a /\ post'[p].st = "admitted")
    <3>1. PriceOf(Held(x, {"admitted"}))' = PriceOf(Held(x, {"admitted"}))
      BY <1>5, <1>6, <1>7, <2>2
    <3> QED
      BY <1>2, <3>1, Zenon DEF CreditInv, WithinCreditLine
  <2> QED
    BY Zenon, <2>1, <2>2
<1> QED
  BY Zenon, <1>4, <1>8, <1>9 DEF CreditInv

\* A POST that ends gives back what it held and no more: the subtraction never
\* saturates.  What it adds to the debt is at most what it held.
LEMMA EndCredit ==
  ASSUME LedgerInv, LedgerInv', CreditInv, NEW p \in Posts, post[p].st \in Holding,
         GiveBack(p), post' = [post EXCEPT ![p] = NoPost], NEW bill \in Nat,
         bill # 0 => post[p].st = "admitted" /\ bill <= price_bytes(post[p].bytes),
         \A x \in Accounts : ledger'.owed[x] =
             IF x = post[p].account THEN ledger.owed[x] + bill ELSE ledger.owed[x]
  PROVE  CreditInv'
<1> DEFINE a == post[p].account
           held == price_bytes(post[p].bytes)
<1>1. a \in Accounts /\ held \in Nat
  BY Zenon, PriceType DEF Holding, LedgerInv, TypeOK, Named, PostState
<1>2. /\ \A x \in Posts \ {p} : post'[x] = post[x]
      /\ post'[p].st = "idle"
      /\ reserved' = [reserved EXCEPT ![a] = IF @ < held THEN 0 ELSE @ - held]
  BY Zenon DEF LedgerInv, TypeOK, NoPost, GiveBack
<1>rest. Others(p)
  BY Zenon, <1>2 DEF Others
<1>3. TypeOK /\ TypeOK' /\ reserved \in [Accounts -> Nat] /\ ledger.owed \in [Accounts -> Nat]
  BY Zenon DEF LedgerInv, TypeOK, LedgerState
<1>4. LineCarried'
  BY <1>2 DEF CreditInv, LineCarried
<1>5. ASSUME NEW x \in Accounts
      PROVE  /\ Share(p, x, Holding)' = 0 /\ Share(p, x, {"admitted"})' = 0
             /\ Share(p, x, Holding) = IF x = a THEN held ELSE 0
             /\ Share(p, x, {"admitted"}) =
                  IF x = a /\ post[p].st = "admitted" THEN held ELSE 0
  BY Zenon, <1>2 DEF Share, Held, Holding
<1> HIDE DEF a, held
<1>6. ASSUME NEW x \in Accounts
      PROVE  /\ PriceOf(Held(x, Holding))' + Share(p, x, Holding) = PriceOf(Held(x, Holding))
             /\ PriceOf(Held(x, {"admitted"}))' + Share(p, x, {"admitted"})
                  = PriceOf(Held(x, {"admitted"}))
             /\ PriceOf(Held(x, Holding))' \in Nat /\ PriceOf(Held(x, {"admitted"}))' \in Nat
             /\ PriceOf(Held(x, Holding)) \in Nat /\ PriceOf(Held(x, {"admitted"})) \in Nat
  <2>1. /\ PriceOf(Held(x, Holding))' + Share(p, x, Holding)
             = PriceOf(Held(x, Holding)) + Share(p, x, Holding)'
        /\ PriceOf(Held(x, Holding)) \in Nat /\ PriceOf(Held(x, Holding))' \in Nat
    BY <1>3, <1>rest, HeldMoves, Zenon
  <2>2. /\ PriceOf(Held(x, {"admitted"}))' + Share(p, x, {"admitted"})
             = PriceOf(Held(x, {"admitted"})) + Share(p, x, {"admitted"})'
        /\ PriceOf(Held(x, {"admitted"})) \in Nat /\ PriceOf(Held(x, {"admitted"}))' \in Nat
    BY <1>3, <1>rest, HeldMoves, Zenon
  <2> QED
    BY SMTT(60), <1>5, <2>1, <2>2
<1>7. ReservedIsHeld'
  <2> SUFFICES ASSUME NEW x \in Accounts
               PROVE  reserved'[x] = PriceOf(Held(x, Holding))'
    BY Zenon DEF ReservedIsHeld, Holding
  <2>1. reserved[x] = PriceOf(Held(x, Holding))
    BY Zenon DEF CreditInv, ReservedIsHeld, Holding
  <2>2. reserved'[x] = IF x = a THEN (IF reserved[x] < held THEN 0 ELSE reserved[x] - held)
                       ELSE reserved[x]
    BY Zenon, <1>1, <1>2, <1>3
  <2> QED
    BY SMTT(60), <1>1, <1>5, <1>6, <2>1, <2>2
<1>8. WithinCreditLine'
  <2> SUFFICES ASSUME HardMode, NEW x \in Accounts
               PROVE  \E value \in Values :
                        ledger'.owed[x] + PriceOf(Held(x, {"admitted"}))' <= credit_line(value)
    BY Zenon DEF WithinCreditLine
  <2>1. PICK value \in Values :
          ledger.owed[x] + PriceOf(Held(x, {"admitted"})) <= credit_line(value)
    BY Zenon DEF CreditInv, WithinCreditLine
  <2>2. credit_line(value) \in Nat
    BY Zenon, LineType
  <2>3. ledger'.owed[x] + PriceOf(Held(x, {"admitted"}))'
          <= ledger.owed[x] + PriceOf(Held(x, {"admitted"}))
    <3>1. ledger'.owed[x] = IF x = a THEN ledger.owed[x] + bill ELSE ledger.owed[x]
      BY Zenon DEF a
    <3>2. bill = 0 \/ (post[p].st = "admitted" /\ bill <= held)
      BY Zenon DEF held
    <3>3. ledger.owed[x] \in Nat
      BY Zenon, <1>3
    <3>4. CASE x = a
      BY SMTT(60), <1>1, <1>5, <1>6, <3>1, <3>2, <3>3, <3>4
    <3>5. CASE x # a
      BY SMTT(60), <1>5, <1>6, <3>1, <3>3, <3>5
    <3> QED
      BY Zenon, <3>4, <3>5
  <2>4. ledger'.owed[x] \in Nat /\ ledger.owed[x] \in Nat
    BY Zenon DEF LedgerInv, TypeOK, LedgerState
  <2>5. ledger'.owed[x] + PriceOf(Held(x, {"admitted"}))' <= credit_line(value)
    BY SMTT(60), <1>6, <2>1, <2>2, <2>3, <2>4
  <2> QED
    BY Zenon, <2>5
<1> QED
  BY Zenon, <1>4, <1>7, <1>8 DEF CreditInv

\* A payment touches no reservation and raises no debt.
LEMMA PayCreditInv ==
  ASSUME LedgerInv, LedgerInv', CreditInv, UNCHANGED <<reserved, post>>,
         \A x \in Accounts : ledger'.owed[x] <= ledger.owed[x]
  PROVE  CreditInv'
<1>1. ASSUME NEW a \in Accounts, NEW states
      PROVE  PriceOf(Held(a, states))' = PriceOf(Held(a, states))
  BY Zenon DEF PriceOf, Held
<1>2. ReservedIsHeld' /\ LineCarried'
  BY Zenon, <1>1 DEF CreditInv, ReservedIsHeld, LineCarried
<1>3. WithinCreditLine'
  <2> SUFFICES ASSUME HardMode, NEW x \in Accounts
               PROVE  \E value \in Values :
                        ledger'.owed[x] + PriceOf(Held(x, {"admitted"}))' <= credit_line(value)
    BY Zenon DEF WithinCreditLine
  <2>1. PICK value \in Values :
          ledger.owed[x] + PriceOf(Held(x, {"admitted"})) <= credit_line(value)
    BY Zenon DEF CreditInv, WithinCreditLine
  <2>2. credit_line(value) \in Nat /\ PriceOf(Held(x, {"admitted"})) \in Nat
    BY LineType, HeldType, Zenon DEF LedgerInv
  <2>3. ledger'.owed[x] \in Nat /\ ledger.owed[x] \in Nat
    BY Zenon DEF LedgerInv, TypeOK, LedgerState
  <2>4. /\ ledger'.owed[x] <= ledger.owed[x]
        /\ PriceOf(Held(x, {"admitted"}))' = PriceOf(Held(x, {"admitted"}))
    BY Zenon, <1>1
  <2>5. ledger'.owed[x] + PriceOf(Held(x, {"admitted"}))' <= credit_line(value)
    BY SMTT(60), <2>1, <2>2, <2>3, <2>4
  <2> QED
    BY Zenon, <2>5
<1> QED
  BY Zenon, <1>2, <1>3 DEF CreditInv

\* A process that has just started holds nothing, and loads a debt no larger
\* than the one the last process had in memory.
LEMMA RestartCredit ==
  ASSUME LedgerInv, LedgerInv', FileBelow, CreditInv, Restart
  PROVE  CreditInv'
<1>1. /\ \A x \in Posts : post'[x].st = "idle"
      /\ \A x \in Accounts : reserved'[x] = 0
      /\ ledger' = disk
  BY Zenon DEF Restart, NoPost
<1>2. ASSUME NEW a \in Accounts, NEW states \in SUBSET Holding
      PROVE  PriceOf(Held(a, states))' = 0
  <2>1. Held(a, states)' = {}
    BY Zenon, <1>1 DEF Held, Holding
  <2> QED
    BY Zenon, <2>1, SumEmpty DEF PriceOf
<1>3. Holding \in SUBSET Holding /\ {"admitted"} \in SUBSET Holding
  BY Zenon DEF Holding
<1>4. ReservedIsHeld' /\ LineCarried'
  BY Zenon, <1>1, <1>2, <1>3 DEF ReservedIsHeld, LineCarried, Holding
<1>5. WithinCreditLine'
  <2> SUFFICES ASSUME HardMode, NEW x \in Accounts
               PROVE  \E value \in Values :
                        ledger'.owed[x] + PriceOf(Held(x, {"admitted"}))' <= credit_line(value)
    BY Zenon DEF WithinCreditLine
  <2>1. PICK value \in Values :
          ledger.owed[x] + PriceOf(Held(x, {"admitted"})) <= credit_line(value)
    BY Zenon DEF CreditInv, WithinCreditLine
  <2>2. credit_line(value) \in Nat /\ PriceOf(Held(x, {"admitted"})) \in Nat
    BY Zenon, LineType, HeldType DEF LedgerInv
  <2>3. ledger'.owed[x] \in Nat /\ ledger.owed[x] \in Nat /\ ledger'.owed[x] <= ledger.owed[x]
    BY Zenon, <1>1 DEF LedgerInv, TypeOK, LedgerState, FileBelow
  <2>4. PriceOf(Held(x, {"admitted"}))' = 0
    BY Zenon, <1>2, <1>3
  <2> QED
    BY SMTT(60), <2>1, <2>2, <2>3, <2>4
<1> QED
  BY Zenon, <1>4, <1>5 DEF CreditInv

\* Every step keeps the reservations and the credit line.
LEMMA CreditInvStep ==
  ASSUME LedgerInv, LedgerInv', FileBelow, CreditInv, [Next]_vars
  PROVE  CreditInv'
<1>1. CASE UNCHANGED vars
  <2>1. UNCHANGED <<reserved, post, ledger>>
    BY Zenon, <1>1 DEF vars
  <2>2. \A x \in Accounts : ledger'.owed[x] <= ledger.owed[x]
    BY SMTT(60), <2>1 DEF LedgerInv, TypeOK, LedgerState
  <2> QED
    BY Zenon, <2>1, <2>2, PayCreditInv
<1>2. ASSUME NEW p \in Posts, Release(p)
      PROVE  CreditInv'
  <2>1. /\ post[p].st \in Holding /\ GiveBack(p) /\ post' = [post EXCEPT ![p] = NoPost]
        /\ ledger' = ledger
    BY Zenon, <1>2 DEF Release, Holding
  <2>2. \A x \in Accounts : ledger'.owed[x] =
          IF x = post[p].account THEN ledger.owed[x] + 0 ELSE ledger.owed[x]
    BY SMTT(60), <2>1 DEF LedgerInv, TypeOK, LedgerState
  <2> QED
    BY <2>1, <2>2, EndCredit, Zenon
<1>3. ASSUME NEW p \in Posts, NEW bytes \in Bodies, NEW ok \in BOOLEAN, Commit(p, bytes, ok)
      PROVE  CreditInv'
  <2> DEFINE bill == price_bytes(bytes)
  <2>1. /\ post[p].st = "admitted" /\ GiveBack(p) /\ post' = [post EXCEPT ![p] = NoPost]
        /\ bytes <= post[p].bytes
        /\ ledger'.owed = [ledger.owed EXCEPT ![post[p].account] = @ + bill]
    BY Zenon, <1>3 DEF Commit
  <2>2. post[p].bytes \in Nat /\ bytes \in Nat /\ ledger.owed \in [Accounts -> Nat]
        /\ post[p].account \in Accounts
    BY Zenon, <2>1 DEF LedgerInv, TypeOK, LedgerState, PostState, Named
  <2>3. bill \in Nat /\ bill <= price_bytes(post[p].bytes)
    BY Zenon, <2>1, <2>2, PriceType, PriceMonotone
  <2> HIDE DEF bill
  <2>4. \A x \in Accounts : ledger'.owed[x] =
          IF x = post[p].account THEN ledger.owed[x] + bill ELSE ledger.owed[x]
    BY Zenon, <2>1, <2>2
  <2>5. post[p].st \in Holding
    BY Zenon, <2>1 DEF Holding
  <2> QED
    BY Zenon, <2>1, <2>3, <2>4, <2>5, EndCredit
<1>4. ASSUME NEW q \in Pays,
             \/ \E a \in Accounts, value \in Values : PayStart(q, a, value)
             \/ \E k \in Books, cumulative \in 1..MaxCumulative : PayCheck(q, k, cumulative)
             \/ PayReject(q)
      PROVE  CreditInv'
  <2>1. UNCHANGED <<reserved, post, ledger>>
    BY Zenon, <1>4 DEF PayStart, PayCheck, PayReject
  <2>2. \A x \in Accounts : ledger'.owed[x] <= ledger.owed[x]
    BY <2>1 DEF LedgerInv, TypeOK, LedgerState
  <2> QED
    BY Zenon, <2>1, <2>2, PayCreditInv
<1>5. ASSUME NEW q \in Pays, NEW ok \in BOOLEAN, PayCredit(q, ok)
      PROVE  CreditInv'
  <2>1. UNCHANGED <<reserved, post>>
    BY Zenon, <1>5 DEF PayCredit
  <2>2. \A x \in Accounts : ledger'.owed[x] <= ledger.owed[x]
    BY Zenon, <1>5, CreditLowers
  <2> QED
    BY Zenon, <2>1, <2>2, PayCreditInv
<1> QED
  BY Zenon, <1>1, <1>2, <1>3, <1>4, <1>5, ShedCredit, BadLengthCredit, ReserveCredit, RestartCredit
  DEF Next

\* Concurrent POSTs of one account share its credit line (ledger.rs reserve,
\* release and commit under pusher.rs's guard): reserved_plur is at all times
\* the price of the POSTs in progress, and in hard mode debt and admitted work
\* fit a credit line of the account, for any number of POSTs and accounts,
\* whatever writes fail and whenever the relay restarts.
THEOREM CreditAlwaysHeld == Spec => []CreditHeld
<1>1. Init => FileBelow /\ CreditInv
  <2> SUFFICES ASSUME Init PROVE FileBelow /\ CreditInv
    BY Zenon
  <2>1. FileBelow /\ LineCarried
    BY DEF Init, EmptyLedger, FileBelow, LineCarried, NoPost
  <2>2. ASSUME NEW a \in Accounts, NEW states \in SUBSET Holding
        PROVE  PriceOf(Held(a, states)) = 0
    <3>1. Held(a, states) = {}
      BY Zenon DEF Init, NoPost, Held, Holding
    <3> QED
      BY Zenon, <3>1, SumEmpty DEF PriceOf
  <2>3. Holding \in SUBSET Holding /\ {"admitted"} \in SUBSET Holding
    BY Zenon DEF Holding
  <2>4. ReservedIsHeld
    BY Zenon, <2>2, <2>3 DEF ReservedIsHeld, Init, Holding
  <2>5. PICK value : value \in Values
    BY Zenon
  <2>6. credit_line(value) \in Nat
    BY Zenon, <2>5, LineType
  <2>7. \A a \in Accounts : ledger.owed[a] = 0
    BY Zenon DEF Init, EmptyLedger
  <2>8. WithinCreditLine
    BY <2>2, <2>3, <2>5, <2>6, <2>7 DEF WithinCreditLine
  <2> QED
    BY Zenon, <2>1, <2>4, <2>8 DEF CreditInv
<1>2. LedgerInv /\ CreditInv => CreditHeld
  BY Zenon DEF LedgerInv, CreditInv, CreditHeld
<1>3. LedgerInv /\ FileBelow /\ [Next]_vars => FileBelow'
  BY Zenon, AccountStep
<1> QED
  BY <1>1, <1>2, <1>3, LedgerInvariant, CreditInvStep, PTL DEF Spec

\* Whatever the accounts do at the same time, with any number of accounts,
\* chequebooks and requests, in either mode: each account's reservation, bills
\* and cheques are its own (LedgersApart; Ledger::reserve, commit, credit).
THEOREM AccountsStayApart == Spec => []LedgersApart
<1>1. CreditHeld /\ NeverOverbilled /\ NoReplay => LedgersApart
  BY Zenon DEF CreditHeld, LedgersApart
<1> QED
  BY <1>1, CreditAlwaysHeld, BillsAreFair, ChequesCreditedOnce, PTL

-----------------------------------------------------------------------------
\* The standing of batches.

States == {"absent", "funded", "expired"}

ChainType == [Batches -> [is : States, since : Int]]

EntryType == [owned : BOOLEAN, when : Int]

ReqType == [st : {"idle", "next", "owner", "balance"}, todo : Seq(Batches), budget : 0..Lookups,
            memo : Batches \cup {"none"}, sent : Int, wants : Batches \cup {"none", "challenge"},
            said : States \cup {"none"}, spent : Nat, errs : SUBSET Batches]

STyped ==
  /\ now_unix \in 0..MaxUnix /\ started \in 0..MaxReqs /\ moves \in 0..MaxMoves
  /\ chain \in ChainType /\ \A b \in Batches : chain[b].since <= now_unix
  /\ req \in [Reqs -> ReqType]
  /\ issued \subseteq [batch : Batches, expiry : Int]

\* The owner cache is what its order lists, within its cap.
CacheOK ==
  /\ cache.order \in Seq(Batches) /\ IsInjective(cache.order) /\ Len(cache.order) <= OwnerCap
  /\ cache.map \in [Range(cache.order) -> EntryType]

\* The batch was funded at t or later; and it was not.
FundedFrom(b, t) == chain[b].is = "funded" \/ chain[b].since >= t
UnfundedFrom(b, t) == chain[b].is # "funded" \/ chain[b].since >= t

\* A cached answer is at most one read older than its entry.
CacheRecent ==
  \A b \in DOMAIN cache.map :
    /\ cache.map[b].when <= now_unix
    /\ IF cache.map[b].owned THEN FundedFrom(b, cache.map[b].when - RpcMax)
       ELSE UnfundedFrom(b, cache.map[b].when - RpcMax)

\* A read in progress is at most RpcMax old, and its answer no older than it.
Reading(q) ==
  q.st \in {"owner", "balance"} =>
    /\ q.todo # <<>> /\ q.sent <= now_unix /\ now_unix - q.sent <= RpcMax
    /\ q.said = "funded" => FundedFrom(Head(q.todo), q.sent)
    /\ q.said \in {"absent", "expired"} => UnfundedFrom(Head(q.todo), q.sent)

ReqsRecent == \A r \in Reqs : Reading(req[r]) /\ req[r].spent + req[r].budget <= Lookups

\* A challenge was issued on an answer at most as old as a cached one may be.
Age == ChallengeTTL + OkTTL - 1 + RpcMax
IssuedRecent ==
  \A c \in issued : c.expiry <= now_unix + ChallengeTTL /\ FundedFrom(c.batch, c.expiry - Age)

\* The inductive invariant: whatever is remembered was so at most one read and
\* the lifetime of the memory ago.
StandInv == STyped /\ CacheOK /\ CacheRecent /\ ReqsRecent /\ IssuedRecent

HIDE ParamsAssumption DEF validate
HIDE RelayAssumption
USE StandingAssumption

-----------------------------------------------------------------------------
\* The chain forgets neither that a batch was funded nor that it was not.
LEMMA ChainKeeps ==
  ASSUME STyped, NEW b \in Batches, NEW is \in States, ChainMoves(b, is),
         NEW x \in Batches, NEW t \in Int, t <= now_unix
  PROVE  /\ FundedFrom(x, t) => FundedFrom(x, t)'
         /\ UnfundedFrom(x, t) => UnfundedFrom(x, t)'
<1> DEFINE c == [is |-> is, since |-> IF "funded" \in {chain[b].is, is} THEN now_unix
                                      ELSE chain[b].since]
<1>1. chain[x] \in [is : States, since : Int] /\ now_unix \in Int
  BY DEF STyped, ChainType
<1>2. chain'[x] = IF x = b THEN c ELSE chain[x]
  BY Zenon DEF STyped, ChainType, ChainMoves
<1>3. CASE x # b
  BY Zenon, <1>2, <1>3 DEF FundedFrom, UnfundedFrom
<1>4. CASE x = b
  <2>1. chain'[x].is = is /\ chain'[x].since = IF "funded" \in {chain[x].is, is} THEN now_unix
                                               ELSE chain[x].since
    BY <1>2, <1>4
  <2>2. <<chain[x].is, is>> \in {<<"absent", "funded">>, <<"funded", "expired">>,
                                 <<"expired", "funded">>, <<"expired", "absent">>}
    BY Zenon, <1>4 DEF ChainMoves
  <2>3. \/ chain[x].is = "absent" /\ is = "funded"
        \/ chain[x].is = "funded" /\ is = "expired"
        \/ chain[x].is = "expired" /\ is = "funded"
        \/ chain[x].is = "expired" /\ is = "absent"
    BY <2>2
  <2>4. now_unix >= t
    BY <1>1
  <2> HIDE DEF c
  <2> QED
    BY <2>1, <2>3, <2>4 DEF FundedFrom, UnfundedFrom
<1> QED
  BY Zenon, <1>3, <1>4

\* insert(): the cache stays within its cap, and an entry is the new one or one
\* it had.
LEMMA Inserted ==
  ASSUME CacheOK, now_unix \in Int, NEW b \in Batches, NEW owned \in BOOLEAN,
         cache' = insert(b, owned)
  PROVE  /\ CacheOK'
         /\ \A x \in DOMAIN cache'.map :
              \/ x = b /\ cache'.map[x] = [owned |-> owned, when |-> now_unix]
              \/ x \in DOMAIN cache.map /\ cache'.map[x] = cache.map[x]
<1> DEFINE order == IF b \in DOMAIN cache.map THEN cache.order ELSE Append(cache.order, b)
           over == IF Len(order) > OwnerCap THEN Len(order) - OwnerCap ELSE 0
           kept == SubSeq(order, over + 1, Len(order))
           entry == [owned |-> owned, when |-> now_unix]
           map == [x \in Range(kept) |-> IF x = b THEN entry ELSE cache.map[x]]
<1>1. cache'.map = map /\ cache'.order = kept
  BY Zenon DEF insert
<1>2. cache.order \in Seq(Batches) /\ DOMAIN cache.map = Range(cache.order)
  BY Zenon DEF CacheOK
<1>3. \A i \in 1..Len(cache.order) : cache.order[i] \in Range(cache.order)
  BY <1>2 DEF Range
<1>4. \A i, j \in 1..Len(cache.order) : cache.order[i] = cache.order[j] => i = j
  BY <1>2 DEF CacheOK, IsInjective
<1>5. /\ order \in Seq(Batches)
      /\ \A i, j \in 1..Len(order) : order[i] = order[j] => i = j
      /\ \A i \in 1..Len(order) : order[i] = b \/ order[i] \in Range(cache.order)
  <2>1. CASE b \in DOMAIN cache.map
    BY Zenon, <1>2, <1>3, <1>4, <2>1
  <2>2. CASE b \notin DOMAIN cache.map
    <3>1. order = Append(cache.order, b)
      BY Zenon, <2>2
    <3>2. b \notin Range(cache.order)
      BY Zenon, <1>2, <2>2
    <3> HIDE DEF order
    <3>3. order \in Seq(Batches) /\ Len(order) = Len(cache.order) + 1
      BY <1>2, <3>1
    <3>4. \A i \in 1..Len(order) : order[i] = IF i <= Len(cache.order) THEN cache.order[i] ELSE b
      BY <1>2, <3>1, <3>3
    <3> QED
      BY <1>2, <1>3, <1>4, <3>2, <3>3, <3>4
  <2> QED
    BY Zenon, <2>1, <2>2
<1> HIDE DEF order
<1>6. over \in 0..Len(order) /\ Len(order) \in Nat
  BY <1>5
<1>7. Len(order) - over <= OwnerCap
  BY <1>5
<1> HIDE DEF over
<1>8. /\ kept \in Seq(Batches) /\ Len(kept) = Len(order) - over
      /\ \A i \in 1..Len(kept) : i + over \in 1..Len(order) /\ kept[i] = order[i + over]
  BY <1>5, <1>6
<1> HIDE DEF kept
<1>9. \A i, j \in 1..Len(kept) : kept[i] = kept[j] => i = j
  <2> SUFFICES ASSUME NEW i \in 1..Len(kept), NEW j \in 1..Len(kept), kept[i] = kept[j]
               PROVE  i = j
    BY Zenon
  <2>1. i + over = j + over
    BY Zenon, <1>5, <1>8
  <2> QED
    BY <1>6, <2>1
<1>10. IsInjective(kept) /\ Len(kept) <= OwnerCap
  BY <1>7, <1>8, <1>9 DEF IsInjective
<1>11. \A x \in Range(kept) : x = b \/ x \in DOMAIN cache.map
  BY <1>2, <1>5, <1>8 DEF Range
<1>12. entry \in EntryType
  BY Zenon DEF EntryType
<1> HIDE DEF entry
<1>13. map \in [Range(kept) -> EntryType]
  BY Zenon, <1>11, <1>12 DEF CacheOK
<1> QED
  BY Zenon, <1>1, <1>8, <1>10, <1>11, <1>13 DEF CacheOK, entry

-----------------------------------------------------------------------------
\* Time passes no read's limit.
LEMMA TickRecent ==
  ASSUME StandInv, STick
  PROVE  StandInv'
<1>1. /\ now_unix \in Nat /\ now_unix' = now_unix + 1 /\ now_unix' \in 0..MaxUnix
      /\ UNCHANGED <<started, moves, chain, cache, req, issued>>
  BY DEF StandInv, STyped, STick
<1>2. STyped'
  <2>1. ASSUME NEW b \in Batches PROVE chain[b].since <= now_unix'
    <3>1. chain[b].since \in Int /\ chain[b].since <= now_unix
      BY Zenon DEF StandInv, STyped, ChainType
    <3> QED
      BY <1>1, <3>1
  <2> QED
    BY Zenon, <1>1, <2>1 DEF StandInv, STyped
<1>3. CacheOK' /\ CacheRecent'
  <2>1. ASSUME NEW b \in DOMAIN cache.map PROVE cache.map[b].when <= now_unix'
    <3>1. cache.map[b].when \in Int /\ cache.map[b].when <= now_unix
      BY Zenon DEF StandInv, CacheOK, CacheRecent, EntryType
    <3> QED
      BY <1>1, <3>1
  <2> QED
    BY Zenon, <1>1, <2>1 DEF StandInv, CacheOK, CacheRecent, FundedFrom, UnfundedFrom
<1>4. ASSUME NEW r \in Reqs PROVE Reading(req[r])'
  <2> SUFFICES ASSUME req[r].st \in {"owner", "balance"}
               PROVE  req[r].sent <= now_unix' /\ now_unix' - req[r].sent <= RpcMax
    BY Zenon, <1>1 DEF StandInv, ReqsRecent, Reading, FundedFrom, UnfundedFrom
  <2>1. req[r].sent \in Int /\ req[r].sent <= now_unix
    BY Zenon DEF StandInv, STyped, ReqType, ReqsRecent, Reading
  <2>2. now_unix - req[r].sent < RpcMax
    BY Zenon DEF STick
  <2> QED
    BY <1>1, <2>1, <2>2
<1>5. ASSUME NEW c \in issued PROVE c.expiry <= now_unix' + ChallengeTTL
  <2>1. c.expiry \in Int /\ c.expiry <= now_unix + ChallengeTTL
    BY Zenon DEF StandInv, STyped, IssuedRecent
  <2> QED
    BY <1>1, <2>1
<1> QED
  BY Zenon, <1>1, <1>2, <1>3, <1>4, <1>5
     DEF StandInv, ReqsRecent, IssuedRecent, FundedFrom

\* The chain moves under cached answers, reads in progress and challenges.
LEMMA ChainRecent ==
  ASSUME StandInv, NEW b \in Batches, NEW is \in States, ChainMoves(b, is)
  PROVE  StandInv'
<1> DEFINE c == [is |-> is, since |-> IF "funded" \in {chain[b].is, is} THEN now_unix
                                      ELSE chain[b].since]
<1>1. /\ now_unix \in Int /\ UNCHANGED <<now_unix, started, cache, req, issued>>
      /\ moves' \in 0..MaxMoves /\ STyped
  BY DEF StandInv, STyped, ChainMoves
<1>2. STyped'
  <2>1. chain[b].since \in Int /\ chain[b].since <= now_unix
    BY Zenon DEF StandInv, STyped, ChainType
  <2>2. c.since \in Int /\ c.since <= now_unix /\ c \in [is : States, since : Int]
    BY <1>1, <2>1
  <2>3. chain' = [chain EXCEPT ![b] = c]
    BY Zenon DEF ChainMoves
  <2> HIDE DEF c
  <2>4. chain' \in ChainType /\ \A x \in Batches : chain'[x].since <= now_unix
    BY Zenon, <2>2, <2>3 DEF StandInv, STyped, ChainType
  <2> QED
    BY Zenon, <1>1, <2>4 DEF STyped
<1>0. \A y \in Batches, u \in Int : u <= now_unix =>
        /\ chain[y].is = "funded" \/ chain[y].since >= u
             => chain'[y].is = "funded" \/ chain'[y].since >= u
        /\ chain[y].is # "funded" \/ chain[y].since >= u
             => chain'[y].is # "funded" \/ chain'[y].since >= u
  BY Zenon, <1>1, ChainKeeps DEF FundedFrom, UnfundedFrom
<1>3. CacheRecent'
  <2> SUFFICES ASSUME NEW x \in DOMAIN cache.map
               PROVE  IF cache.map[x].owned THEN FundedFrom(x, cache.map[x].when - RpcMax)'
                      ELSE UnfundedFrom(x, cache.map[x].when - RpcMax)'
    BY Zenon, <1>1 DEF StandInv, CacheRecent, FundedFrom, UnfundedFrom
  <2>1. x \in Batches
    BY DEF StandInv, CacheOK, Range
  <2>2. /\ cache.map[x].when \in Int /\ cache.map[x].when <= now_unix
        /\ IF cache.map[x].owned THEN FundedFrom(x, cache.map[x].when - RpcMax)
           ELSE UnfundedFrom(x, cache.map[x].when - RpcMax)
    BY Zenon DEF StandInv, CacheOK, CacheRecent, EntryType
  <2> DEFINE t == cache.map[x].when - RpcMax
  <2>3. t \in Int /\ t <= now_unix
    BY <1>1, <2>2
  <2>4. t' = t
    BY Zenon, <1>1
  <2> HIDE DEF t
  <2>5. /\ FundedFrom(x, t) => FundedFrom(x, t)'
        /\ UnfundedFrom(x, t) => UnfundedFrom(x, t)'
    BY Zenon, <1>0, <2>1, <2>3, <2>4 DEF FundedFrom, UnfundedFrom
  <2> QED
    BY Zenon, <2>2, <2>5 DEF t
<1>4. ASSUME NEW r \in Reqs PROVE Reading(req[r])'
  <2> DEFINE x == Head(req[r].todo)
             t == req[r].sent
  <2> SUFFICES ASSUME req[r].st \in {"owner", "balance"}
               PROVE  /\ req[r].said = "funded" => FundedFrom(x, t)'
                      /\ req[r].said \in {"absent", "expired"} => UnfundedFrom(x, t)'
    BY Zenon, <1>1 DEF StandInv, ReqsRecent, Reading, FundedFrom, UnfundedFrom
  <2>1. /\ req[r].todo \in Seq(Batches) /\ req[r].todo # <<>> /\ t \in Int /\ t <= now_unix
        /\ req[r].said = "funded" => FundedFrom(x, t)
        /\ req[r].said \in {"absent", "expired"} => UnfundedFrom(x, t)
    BY Zenon DEF StandInv, STyped, ReqType, ReqsRecent, Reading
  <2>2. x \in Batches
    BY <2>1
  <2>3. x' = x /\ t' = t
    BY Zenon, <1>1
  <2> HIDE DEF x, t
  <2> QED
    BY Zenon, <1>0, <2>1, <2>2, <2>3 DEF FundedFrom, UnfundedFrom
<1>5. ASSUME NEW k \in issued PROVE FundedFrom(k.batch, k.expiry - Age)'
  <2>1. /\ k.batch \in Batches /\ k.expiry \in Int /\ k.expiry <= now_unix + ChallengeTTL
        /\ FundedFrom(k.batch, k.expiry - Age)
    BY Zenon DEF StandInv, STyped, IssuedRecent
  <2> DEFINE t == k.expiry - Age
  <2>2. t \in Int /\ t <= now_unix
    BY <1>1, <2>1 DEF Age
  <2> HIDE DEF t
  <2>3. FundedFrom(k.batch, t)'
    BY Zenon, <1>0, <2>1, <2>2 DEF FundedFrom, t
  <2> QED
    BY Zenon, <2>3 DEF t, FundedFrom, Age
<1> QED
  BY Zenon, <1>1, <1>2, <1>3, <1>4, <1>5 DEF StandInv, CacheOK, ReqsRecent, IssuedRecent

-----------------------------------------------------------------------------
\* A request that is as good as the others takes their invariant along.
LEMMA ReqMoves ==
  ASSUME STyped, ReqsRecent, NEW r \in Reqs, NEW q \in ReqType, req' = [req EXCEPT ![r] = q],
         UNCHANGED <<now_unix, chain>>, Reading(q), q.spent + q.budget <= Lookups
  PROVE  req' \in [Reqs -> ReqType] /\ ReqsRecent'
<1>1. /\ req' \in [Reqs -> ReqType]
      /\ \A x \in Reqs : req'[x] = IF x = r THEN q ELSE req[x]
  BY Zenon DEF STyped
<1>2. ASSUME NEW x \in Reqs PROVE (Reading(req[x]) /\ req[x].spent + req[x].budget <= Lookups)'
  <2>1. CASE x = r
    <3>1. req'[x] = q
      BY Zenon, <1>1, <2>1
    <3> QED
      BY Zenon, <3>1 DEF Reading, FundedFrom, UnfundedFrom
  <2>2. CASE x # r
    <3>1. req'[x] = req[x]
      BY Zenon, <1>1, <2>2
    <3> QED
      BY Zenon, <3>1 DEF ReqsRecent, Reading, FundedFrom, UnfundedFrom
  <2> QED
    BY Zenon, <2>1, <2>2
<1> QED
  BY Zenon, <1>1, <1>2 DEF ReqsRecent

\* A step of a request that leaves the cache and the challenges alone.
LEMMA ReqOnly ==
  ASSUME StandInv, NEW r \in Reqs, NEW q \in ReqType, req' = [req EXCEPT ![r] = q],
         UNCHANGED <<now_unix, moves, chain, cache, issued>>, started' \in 0..MaxReqs,
         Reading(q), q.spent + q.budget <= Lookups
  PROVE  StandInv'
<1>1. req' \in [Reqs -> ReqType] /\ ReqsRecent'
  BY Zenon, ReqMoves DEF StandInv
<1> QED
  BY Zenon, <1>1 DEF StandInv, STyped, CacheOK, CacheRecent, IssuedRecent, FundedFrom, UnfundedFrom

\* The fields of a request.
LEMMA ReqFields ==
  ASSUME StandInv, NEW r \in Reqs
  PROVE  /\ req[r] \in ReqType /\ req[r].todo \in Seq(Batches)
         /\ req[r].budget \in 0..Lookups /\ req[r].spent \in Nat
         /\ req[r].spent + req[r].budget <= Lookups /\ Reading(req[r])
         /\ req[r].st \in {"owner", "balance"} => req[r].todo # <<>>
         /\ req[r].todo # <<>> => Head(req[r].todo) \in Batches /\ Tail(req[r].todo) \in Seq(Batches)
<1>1. req[r] \in ReqType /\ Reading(req[r]) /\ req[r].spent + req[r].budget <= Lookups
  BY Zenon DEF StandInv, STyped, ReqsRecent
<1>2. req[r].todo \in Seq(Batches) /\ req[r].budget \in 0..Lookups /\ req[r].spent \in Nat
  BY Zenon, <1>1 DEF ReqType
<1>3. req[r].todo # <<>> => Head(req[r].todo) \in Batches /\ Tail(req[r].todo) \in Seq(Batches)
  BY <1>2
<1> QED
  BY Zenon, <1>1, <1>2, <1>3 DEF Reading

\* Steps that settle nothing.
LEMMA PlainRecent ==
  ASSUME StandInv, NEW r \in Reqs,
         Memo(r) \/ ReadBatch(r) \/ Serve(r) \/ Exists(r) \/ End(r)
  PROVE  StandInv'
<1>1. /\ req[r] \in ReqType /\ req[r].todo \in Seq(Batches)
      /\ req[r].budget \in 0..Lookups /\ req[r].spent \in Nat
      /\ req[r].spent + req[r].budget <= Lookups /\ Reading(req[r])
      /\ req[r].st \in {"owner", "balance"} => req[r].todo # <<>>
      /\ req[r].todo # <<>> => Head(req[r].todo) \in Batches /\ Tail(req[r].todo) \in Seq(Batches)
  BY Zenon, ReqFields
<1>2. started \in 0..MaxReqs /\ now_unix \in Nat /\ STyped
  BY DEF StandInv, STyped
<1>3. CASE Memo(r)
  <2> DEFINE q == [req[r] EXCEPT !.todo = Tail(req[r].todo)]
  <2>1. /\ req' = [req EXCEPT ![r] = q] /\ started' = started
        /\ UNCHANGED <<now_unix, moves, chain, cache, issued>> /\ req[r].todo # <<>> /\ req[r].st = "next"
    BY Zenon, <1>3 DEF Memo
  <2>2. q \in ReqType /\ q.st = "next" /\ q.spent = req[r].spent /\ q.budget = req[r].budget
    BY Zenon, <1>1, <2>1 DEF ReqType
  <2> HIDE DEF q
  <2>3. Reading(q) /\ q.spent + q.budget <= Lookups
    BY Zenon, <1>1, <2>2 DEF Reading
  <2> QED
    BY Zenon, <1>2, <2>1, <2>2, <2>3, ReqOnly
<1>4. CASE ReadBatch(r)
  <2> DEFINE q == [req[r] EXCEPT !.st = "owner", !.budget = Spend(r), !.spent = req[r].spent + 1,
                                 !.sent = now_unix, !.said = "none"]
  <2>1. /\ req' = [req EXCEPT ![r] = q] /\ started' = started
        /\ UNCHANGED <<now_unix, moves, chain, cache, issued>> /\ req[r].todo # <<>>
        /\ req[r].budget > 0
    BY Zenon, <1>4 DEF ReadBatch, Asks
  <2>2. Spend(r) \in 0..Lookups /\ req[r].spent + 1 \in Nat /\ now_unix \in Int
        /\ req[r].spent + 1 + Spend(r) <= Lookups
    <3>1. \A g \in 0..Lookups, n \in Nat : g > 0 /\ n + g <= Lookups =>
            g - 1 \in 0..Lookups /\ n + 1 \in Nat /\ n + 1 + (g - 1) <= Lookups
      OBVIOUS
    <3>2. now_unix \in Int
      BY <1>2
    <3> QED
      BY Zenon, <1>1, <2>1, <3>1, <3>2 DEF Spend
  <2>3. /\ q \in ReqType /\ q.todo = req[r].todo /\ q.sent = now_unix /\ q.said = "none"
        /\ q.spent = req[r].spent + 1 /\ q.budget = Spend(r)
    BY Zenon, <1>1, <2>2 DEF ReqType
  <2> HIDE DEF q
  <2>4. now_unix <= now_unix /\ now_unix - now_unix <= RpcMax
    BY <1>2
  <2>5. Reading(q) /\ q.spent + q.budget <= Lookups
    BY Zenon, <2>1, <2>2, <2>3, <2>4 DEF Reading
  <2> QED
    BY Zenon, <1>2, <2>1, <2>3, <2>5, ReqOnly
<1>5. CASE Serve(r)
  <2> DEFINE b == Head(req[r].todo)
             q == [req[r] EXCEPT !.said = chain[b].is]
  <2>1. /\ req' = [req EXCEPT ![r] = q] /\ started' = started
        /\ UNCHANGED <<now_unix, moves, chain, cache, issued>> /\ req[r].st \in {"owner", "balance"}
    BY Zenon, <1>5 DEF Serve
  <2>2. b \in Batches /\ req[r].todo # <<>> /\ req[r].sent <= now_unix /\ now_unix - req[r].sent <= RpcMax
    BY Zenon, <1>1, <2>1 DEF Reading
  <2>3. chain[b].is \in States
    BY Zenon, <1>2, <2>2 DEF STyped, ChainType
  <2>4. /\ q \in ReqType /\ q.todo = req[r].todo /\ q.sent = req[r].sent /\ q.said = chain[b].is
        /\ q.spent = req[r].spent /\ q.budget = req[r].budget
    BY Zenon, <1>1, <2>3 DEF ReqType
  <2> HIDE DEF q
  <2>5. Reading(q) /\ q.spent + q.budget <= Lookups
    BY Zenon, <1>1, <2>2, <2>4 DEF Reading, FundedFrom, UnfundedFrom
  <2> QED
    BY Zenon, <1>2, <2>1, <2>4, <2>5, ReqOnly
<1>6. CASE Exists(r)
  <2> DEFINE q == [req[r] EXCEPT !.st = "balance", !.sent = now_unix, !.said = "none"]
  <2>1. /\ req' = [req EXCEPT ![r] = q] /\ started' = started
        /\ UNCHANGED <<now_unix, moves, chain, cache, issued>> /\ req[r].todo # <<>>
    BY Zenon, <1>1, <1>6 DEF Exists
  <2>2. now_unix \in Int /\ now_unix <= now_unix /\ now_unix - now_unix <= RpcMax
    BY <1>2
  <2>3. /\ q \in ReqType /\ q.todo = req[r].todo /\ q.sent = now_unix /\ q.said = "none"
        /\ q.spent = req[r].spent /\ q.budget = req[r].budget
    BY Zenon, <1>1, <2>2 DEF ReqType
  <2> HIDE DEF q
  <2>4. Reading(q) /\ q.spent + q.budget <= Lookups
    BY Zenon, <1>1, <2>1, <2>2, <2>3 DEF Reading
  <2> QED
    BY Zenon, <1>2, <2>1, <2>3, <2>4, ReqOnly
<1>7. CASE End(r)
  <2>1. /\ req' = [req EXCEPT ![r] = NoReq] /\ started' = started
        /\ UNCHANGED <<now_unix, moves, chain, cache, issued>>
    BY Zenon, <1>7 DEF End
  <2>2. NoReq \in ReqType /\ NoReq.st = "idle" /\ NoReq.spent + NoReq.budget <= Lookups
    BY DEF NoReq, ReqType
  <2> HIDE DEF NoReq
  <2>3. Reading(NoReq)
    BY Zenon, <2>2 DEF Reading
  <2> QED
    BY Zenon, <1>2, <2>1, <2>2, <2>3, ReqOnly
<1> QED
  BY Zenon, <1>3, <1>4, <1>5, <1>6, <1>7

\* Steps that begin a request.
LEMMA BeginRecent ==
  ASSUME StandInv, NEW r \in Reqs, NEW wants \in Batches \cup {"none", "challenge"},
         NEW todo \in Seq(Batches), NEW budget \in 0..Lookups, Begin(r, wants, todo, budget)
  PROVE  StandInv'
<1> DEFINE q == [NoReq EXCEPT !.st = "next", !.todo = todo, !.wants = wants, !.budget = budget]
<1>1. /\ req' = [req EXCEPT ![r] = q]
      /\ UNCHANGED <<now_unix, moves, chain, cache, issued>>
  BY Zenon DEF Begin
<1>2. started' \in 0..MaxReqs
  BY DEF Begin, StandInv, STyped
<1>3. NoReq \in ReqType /\ NoReq.spent = 0
  BY DEF NoReq, ReqType
<1>4. q \in ReqType /\ q.st = "next" /\ q.spent = 0 /\ q.budget = budget
  BY Zenon, <1>3 DEF ReqType
<1> HIDE DEF q
<1>5. q.spent + q.budget <= Lookups
  BY <1>4
<1>6. Reading(q)
  BY Zenon, <1>4 DEF Reading
<1> QED
  BY Zenon, <1>1, <1>2, <1>4, <1>5, <1>6, ReqOnly

\* What settling the head of a request's list leaves: the request goes on, and
\* a challenge is issued only for a batch seen funded.
LEMMA SettledRecent ==
  ASSUME StandInv, NEW r \in Reqs, NEW ok \in BOOLEAN, Settled(r, ok), req[r].todo # <<>>,
         UNCHANGED <<now_unix, chain>>,
         ok => FundedFrom(Head(req[r].todo), now_unix - OkTTL + 1 - RpcMax)
  PROVE  /\ req' \in [Reqs -> ReqType] /\ ReqsRecent'
         /\ issued' \subseteq [batch : Batches, expiry : Int] /\ IssuedRecent'
<1> DEFINE b == Head(req[r].todo)
           q == [req[r] EXCEPT !.st = "next", !.todo = Tail(req[r].todo),
                               !.memo = IF ok THEN b ELSE req[r].memo,
                               !.errs = req[r].errs \cup IF ok THEN {} ELSE {b}]
           c == [batch |-> b, expiry |-> now_unix + ChallengeTTL]
<1>1. /\ req' = [req EXCEPT ![r] = q]
      /\ issued' = IF ok /\ req[r].wants = "challenge" THEN issued \cup {c} ELSE issued
  BY Zenon DEF Settled
<1>2. /\ req[r] \in ReqType /\ req[r].spent + req[r].budget <= Lookups
      /\ b \in Batches /\ Tail(req[r].todo) \in Seq(Batches)
  BY Zenon, ReqFields
<1>3. STyped /\ ReqsRecent /\ IssuedRecent /\ now_unix \in Nat
  BY DEF StandInv, STyped
<1>4. req[r].memo \in Batches \cup {"none"} /\ req[r].errs \in SUBSET Batches
  BY Zenon, <1>2 DEF ReqType
<1>5. /\ (IF ok THEN b ELSE req[r].memo) \in Batches \cup {"none"}
      /\ (req[r].errs \cup IF ok THEN {} ELSE {b}) \in SUBSET Batches
  BY Zenon, <1>2, <1>4
<1>6. q \in ReqType /\ q.st = "next" /\ q.spent = req[r].spent /\ q.budget = req[r].budget
  BY Zenon, <1>2, <1>5 DEF ReqType
<1>7. /\ now_unix + ChallengeTTL \in Int /\ now_unix + ChallengeTTL <= now_unix + ChallengeTTL
      /\ now_unix + ChallengeTTL - Age = now_unix - OkTTL + 1 - RpcMax
  BY <1>3 DEF Age
<1>8. c \in [batch : Batches, expiry : Int] /\ c.batch = b /\ c.expiry = now_unix + ChallengeTTL
  BY Zenon, <1>2, <1>7
<1> HIDE DEF q, c
<1>9. Reading(q) /\ q.spent + q.budget <= Lookups
  BY Zenon, <1>2, <1>6 DEF Reading
<1>10. req' \in [Reqs -> ReqType] /\ ReqsRecent'
  BY Zenon, <1>1, <1>3, <1>6, <1>9, ReqMoves
<1>11. issued' \subseteq [batch : Batches, expiry : Int]
  BY Zenon, <1>1, <1>3, <1>8 DEF STyped
<1>12. IssuedRecent'
  <2>1. ASSUME NEW x \in issued'
        PROVE  x.expiry <= now_unix + ChallengeTTL /\ FundedFrom(x.batch, x.expiry - Age)
    <3>1. CASE x \in issued
      BY Zenon, <3>1, <1>3 DEF IssuedRecent
    <3>2. CASE x \notin issued
      <4>1. x = c /\ ok
        BY Zenon, <3>2, <2>1, <1>1
      <4>2. x.expiry <= now_unix + ChallengeTTL
        BY Zenon, <4>1, <1>7, <1>8
      <4>3. x.batch = b /\ x.expiry = now_unix + ChallengeTTL
        BY Zenon, <4>1, <1>8
      <4>4. FundedFrom(b, now_unix - OkTTL + 1 - RpcMax)
        BY Zenon, <4>1
      <4>5. chain[b].since \in Int
        BY Zenon, <1>2, <1>3 DEF STyped, ChainType
      <4> HIDE DEF b
      <4>6. FundedFrom(b, (now_unix + ChallengeTTL) - Age)
        BY <1>3, <4>4, <4>5 DEF FundedFrom, Age
      <4> QED
        BY Zenon, <4>2, <4>3, <4>6
    <3> QED
      BY Zenon, <3>1, <3>2
  <2> QED
    BY Zenon, <2>1 DEF IssuedRecent, FundedFrom, Age
<1> QED
  BY Zenon, <1>10, <1>11, <1>12

\* Steps that settle the head of the list without an entry of the cache.
LEMMA SettleRecent ==
  ASSUME StandInv, NEW r \in Reqs, Hit(r) \/ OverBudget(r) \/ RpcFails(r)
  PROVE  StandInv'
<1> DEFINE b == Head(req[r].todo)
<1>1. UNCHANGED <<now_unix, started, moves, chain, cache>> /\ req[r].todo # <<>>
  BY Zenon, ReqFields DEF Hit, OverBudget, RpcFails, Asks
<1>2. b \in Batches
  BY Zenon, <1>1, ReqFields
<1>3. /\ req' \in [Reqs -> ReqType] /\ ReqsRecent'
      /\ issued' \subseteq [batch : Batches, expiry : Int] /\ IssuedRecent'
  <2>1. CASE Hit(r)
    <3>1. /\ b \in DOMAIN cache.map /\ fresh_for(b) /\ Settled(r, cache.map[b].owned)
      BY Zenon, <2>1 DEF Hit, get
    <3>2. cache.map[b] \in EntryType
      BY Zenon, <3>1 DEF StandInv, CacheOK
    <3>3. cache.map[b].owned \in BOOLEAN /\ cache.map[b].when \in Int
      BY Zenon, <3>2 DEF EntryType
    <3>4. ASSUME cache.map[b].owned PROVE FundedFrom(b, now_unix - OkTTL + 1 - RpcMax)
      <4>1. now_unix - cache.map[b].when < OkTTL
        BY Zenon, <3>1, <3>4 DEF fresh_for
      <4>2. FundedFrom(b, cache.map[b].when - RpcMax)
        BY Zenon, <3>1, <3>4 DEF StandInv, CacheRecent
      <4>3. chain[b].since \in Int /\ now_unix \in Int
        BY <1>2 DEF StandInv, STyped, ChainType
      <4> HIDE DEF b
      <4> QED
        BY <3>3, <4>1, <4>2, <4>3 DEF FundedFrom
    <3> QED
      BY Zenon, <1>1, <3>1, <3>3, <3>4, SettledRecent
  <2>2. CASE OverBudget(r) \/ RpcFails(r)
    <3>1. Settled(r, FALSE)
      BY Zenon, <2>2 DEF OverBudget, RpcFails
    <3> QED
      BY Zenon, <1>1, <3>1, SettledRecent
  <2> QED
    BY Zenon, <2>1, <2>2
<1> QED
  BY Zenon, <1>1, <1>3 DEF StandInv, STyped, CacheOK, CacheRecent, FundedFrom, UnfundedFrom

\* A definitive answer enters the cache and settles the head of the list.
LEMMA DecideRecent ==
  ASSUME StandInv, NEW r \in Reqs, Decide(r)
  PROVE  StandInv'
<1> DEFINE b == Head(req[r].todo)
           owned == req[r].st = "balance" /\ req[r].said = "funded"
<1>1. /\ UNCHANGED <<now_unix, started, moves, chain>> /\ cache' = insert(b, owned)
      /\ Settled(r, owned)
      /\ \/ req[r].st = "owner" /\ req[r].said = "absent"
         \/ req[r].st = "balance" /\ req[r].said \in {"funded", "expired"}
  BY Zenon DEF Decide
<1>2. req[r].st \in {"owner", "balance"} /\ req[r].todo # <<>> /\ b \in Batches
  BY Zenon, <1>1, ReqFields
<1>3. req[r] \in ReqType /\ Reading(req[r])
  BY Zenon, ReqFields
<1>4. req[r].sent \in Int /\ req[r].sent <= now_unix /\ now_unix - req[r].sent <= RpcMax
  BY Zenon, <1>2, <1>3 DEF Reading, ReqType
<1>5. IF owned THEN FundedFrom(b, req[r].sent) ELSE UnfundedFrom(b, req[r].sent)
  BY Zenon, <1>1, <1>2, <1>3 DEF Reading
<1>6. chain[b] \in [is : States, since : Int] /\ now_unix \in Int
  BY <1>2 DEF StandInv, STyped, ChainType
<1>7. chain[b].since \in Int
  BY Zenon, <1>6
<1>8. owned \in BOOLEAN
  BY Zenon
<1> HIDE DEF b, owned
<1>9. chain[b].since >= req[r].sent => /\ chain[b].since >= now_unix - RpcMax
                                        /\ chain[b].since >= now_unix - OkTTL + 1 - RpcMax
  BY <1>4, <1>6, <1>7
<1>10. IF owned THEN FundedFrom(b, now_unix - RpcMax) ELSE UnfundedFrom(b, now_unix - RpcMax)
  BY Zenon, <1>5, <1>9 DEF FundedFrom, UnfundedFrom
<1>11. owned => FundedFrom(b, now_unix - OkTTL + 1 - RpcMax)
  BY Zenon, <1>5, <1>9 DEF FundedFrom
<1>12. /\ req' \in [Reqs -> ReqType] /\ ReqsRecent'
       /\ issued' \subseteq [batch : Batches, expiry : Int] /\ IssuedRecent'
  BY Zenon, <1>1, <1>2, <1>8, <1>11, SettledRecent DEF b
<1>13. /\ CacheOK'
       /\ \A x \in DOMAIN cache'.map :
            \/ x = b /\ cache'.map[x] = [owned |-> owned, when |-> now_unix]
            \/ x \in DOMAIN cache.map /\ cache'.map[x] = cache.map[x]
  <2>1. CacheOK
    BY Zenon DEF StandInv
  <2> QED
    BY Zenon, <1>1, <1>2, <1>6, <1>8, <2>1, Inserted
<1>14. CacheRecent'
  <2>1. ASSUME NEW x \in DOMAIN cache'.map
        PROVE  /\ cache'.map[x].when <= now_unix
               /\ IF cache'.map[x].owned THEN FundedFrom(x, cache'.map[x].when - RpcMax)
                  ELSE UnfundedFrom(x, cache'.map[x].when - RpcMax)
    <3>1. CASE x = b /\ cache'.map[x] = [owned |-> owned, when |-> now_unix]
      <4>1. cache'.map[x].owned = owned /\ cache'.map[x].when = now_unix /\ x = b
        BY <3>1
      <4>2. now_unix <= now_unix
        BY <1>6
      <4> QED
        BY Zenon, <4>1, <4>2, <1>10
    <3>2. CASE x \in DOMAIN cache.map /\ cache'.map[x] = cache.map[x]
      BY Zenon, <3>2 DEF StandInv, CacheRecent
    <3> QED
      BY Zenon, <3>1, <3>2, <1>13
  <2> QED
    BY Zenon, <1>1, <2>1 DEF CacheRecent, FundedFrom, UnfundedFrom
<1> QED
  BY Zenon, <1>1, <1>12, <1>13, <1>14 DEF StandInv, STyped

-----------------------------------------------------------------------------
\* The invariant of standing holds when the relay starts.
LEMMA StandInit == SInit => StandInv
<1> SUFFICES ASSUME SInit PROVE StandInv
  OBVIOUS
<1>1. NoReq \in ReqType /\ NoReq.st = "idle" /\ NoReq.spent + NoReq.budget <= Lookups
  BY DEF NoReq, ReqType
<1>2. \A r \in Reqs : req[r] = NoReq
  BY Zenon DEF SInit
<1>3. req \in [Reqs -> ReqType]
  BY Zenon, <1>1 DEF SInit
<1>4. ReqsRecent
  BY Zenon, <1>1, <1>2 DEF ReqsRecent, Reading
<1>5. chain \in ChainType /\ \A b \in Batches : chain[b].since <= now_unix
  <2>1. -LongAgo \in Int /\ -LongAgo <= 0
    BY DEF LongAgo
  <2> HIDE DEF LongAgo
  <2> QED
    BY <2>1 DEF SInit, ChainType, States
<1>6. cache.order = <<>> /\ cache.map = [b \in {} |-> 0]
  BY Zenon DEF SInit
<1>7. Range(cache.order) = {}
  BY <1>6 DEF Range
<1>8. CacheOK
  BY <1>6, <1>7 DEF CacheOK, IsInjective
<1>9. CacheRecent
  BY Zenon, <1>6 DEF CacheRecent
<1>10. issued = {}
  BY Zenon DEF SInit
<1>11. STyped
  BY <1>3, <1>5, <1>10 DEF STyped, SInit
<1> QED
  BY Zenon, <1>4, <1>8, <1>9, <1>10, <1>11 DEF StandInv, IssuedRecent

\* Every step keeps it.
LEMMA StandStep == StandInv /\ [SNext]_svars => StandInv'
<1> SUFFICES ASSUME StandInv, [SNext]_svars PROVE StandInv'
  OBVIOUS
<1>1. CASE STick
  BY Zenon, <1>1, TickRecent
<1>2. ASSUME NEW b \in Batches, NEW is \in {"absent", "funded", "expired"}, ChainMoves(b, is)
      PROVE  StandInv'
  BY Zenon, <1>2, ChainRecent DEF States
<1>3. ASSUME NEW r \in Reqs, NEW b \in Batches, challenge_response(r, b) PROVE StandInv'
  <2>1. Begin(r, "challenge", <<b>>, 1)
    BY Zenon, <1>3 DEF challenge_response
  <2>2. <<b>> \in Seq(Batches) /\ 1 \in 0..Lookups
    OBVIOUS
  <2> QED
    BY Zenon, <2>1, <2>2, BeginRecent
<1>4. ASSUME NEW r \in Reqs, NEW c \in issued, NEW todo \in Frames, push(r, c, todo)
      PROVE  StandInv'
  <2>1. Begin(r, c.batch, todo, Lookups) /\ todo \in Seq(Batches)
    BY Zenon, <1>4 DEF push
  <2>2. Lookups \in 0..Lookups
    OBVIOUS
  <2>3. c.batch \in Batches
    BY Zenon DEF StandInv, STyped
  <2> QED
    BY Zenon, <2>1, <2>2, <2>3, BeginRecent
<1>5. ASSUME NEW r \in Reqs,
             \/ Memo(r) \/ Hit(r) \/ OverBudget(r) \/ ReadBatch(r) \/ Serve(r) \/ RpcFails(r)
             \/ Exists(r) \/ Decide(r) \/ End(r)
      PROVE  StandInv'
  BY Zenon, <1>5, PlainRecent, SettleRecent, DecideRecent
<1>6. CASE UNCHANGED svars
  BY Zenon, <1>6 DEF svars, StandInv, STyped, CacheOK, CacheRecent, ReqsRecent, IssuedRecent,
     Reading, FundedFrom, UnfundedFrom
<1> QED
  BY Zenon, <1>1, <1>2, <1>3, <1>4, <1>5, <1>6 DEF SNext

\* What it says of the types, the cache's bound and the reads of one request.
LEMMA StandTypes == StandInv => STypeOK /\ LookupsBounded
<1> SUFFICES ASSUME StandInv PROVE STypeOK /\ LookupsBounded
  OBVIOUS
<1>1. STyped /\ CacheOK
  BY Zenon DEF StandInv
<1>2. ASSUME NEW b \in Batches
      PROVE  chain[b].is \in {"absent", "funded", "expired"} /\ chain[b].since <= now_unix
  BY Zenon, <1>1 DEF STyped, ChainType, States
<1>3. ASSUME NEW r \in Reqs
      PROVE  /\ req[r].st \in {"idle", "next", "owner", "balance"}
             /\ req[r].budget \in 0..Lookups /\ req[r].spent <= Lookups
  <2>1. /\ req[r] \in ReqType /\ req[r].budget \in 0..Lookups /\ req[r].spent \in Nat
        /\ req[r].spent + req[r].budget <= Lookups
    BY Zenon, ReqFields
  <2>2. req[r].st \in {"idle", "next", "owner", "balance"}
    BY Zenon, <2>1 DEF ReqType
  <2>3. req[r].spent <= Lookups
    BY <2>1
  <2> QED
    BY Zenon, <2>1, <2>2, <2>3
<1> QED
  BY Zenon, <1>1, <1>2, <1>3 DEF STypeOK, LookupsBounded, STyped, CacheOK

\* The step of one request, seen by the others.
LEMMA OneRequest ==
  ASSUME StandInv, [SNext]_svars, NEW r \in Reqs, req'[r] # req[r]
  PROVE  \/ \E b \in Batches : challenge_response(r, b)
         \/ \E c \in issued, todo \in Frames : push(r, c, todo)
         \/ Memo(r) \/ Hit(r) \/ OverBudget(r) \/ ReadBatch(r) \/ Serve(r) \/ RpcFails(r)
         \/ Exists(r) \/ Decide(r) \/ End(r)
<1>1. ~STick /\ ~UNCHANGED svars
  BY Zenon DEF STick, svars
<1>2. \A b \in Batches, is \in {"absent", "funded", "expired"} : ~ChainMoves(b, is)
  BY Zenon DEF ChainMoves
<1>3. PICK x \in Reqs :
         \/ \E b \in Batches : challenge_response(x, b)
         \/ \E c \in issued, todo \in Frames : push(x, c, todo)
         \/ Memo(x) \/ Hit(x) \/ OverBudget(x) \/ ReadBatch(x) \/ Serve(x) \/ RpcFails(x)
         \/ Exists(x) \/ Decide(x) \/ End(x)
  BY Zenon, <1>1, <1>2 DEF SNext
<1>4. \E q : req' = [req EXCEPT ![x] = q]
  BY Zenon, <1>3 DEF challenge_response, push, Begin, Memo, Hit, OverBudget, ReadBatch, Serve,
     RpcFails, Exists, Decide, End, Settled
<1>5. DOMAIN req = Reqs
  BY Zenon DEF StandInv, STyped
<1>6. x = r
  BY Zenon, <1>4, <1>5
<1> QED
  BY Zenon, <1>3, <1>6

\* A request begins on a challenge that verifies.
LEMMA BeginsRecent == StandInv /\ [SNext]_svars => BeginsOnRecentStanding
<1> SUFFICES ASSUME StandInv, [SNext]_svars, NEW r \in Reqs, req[r].st = "idle",
                    req'[r].st # "idle", req'[r].wants # "challenge"
             PROVE  FundedWithin(req'[r].wants, ChallengeTTL + OkTTL - 1 + RpcMax)
  BY Zenon DEF BeginsOnRecentStanding
<1>1. \/ \E b \in Batches : challenge_response(r, b)
      \/ \E c \in issued, todo \in Frames : push(r, c, todo)
      \/ Memo(r) \/ Hit(r) \/ OverBudget(r) \/ ReadBatch(r) \/ Serve(r) \/ RpcFails(r)
      \/ Exists(r) \/ Decide(r) \/ End(r)
  BY Zenon, OneRequest
<1>2. /\ ~Memo(r) /\ ~Hit(r) /\ ~OverBudget(r) /\ ~ReadBatch(r) /\ ~Serve(r) /\ ~RpcFails(r)
      /\ ~Exists(r) /\ ~Decide(r) /\ ~End(r)
  BY DEF Memo, Hit, OverBudget, ReadBatch, Serve, RpcFails, Exists, Decide, End, Asks
<1>3. req \in [Reqs -> ReqType]
  BY Zenon DEF StandInv, STyped
<1>4. ASSUME NEW w, NEW todo, NEW budget, Begin(r, w, todo, budget) PROVE req'[r].wants = w
  <2>1. req'[r] = [NoReq EXCEPT !.st = "next", !.todo = todo, !.wants = w, !.budget = budget]
    BY Zenon, <1>3, <1>4 DEF Begin
  <2> QED
    BY <2>1 DEF NoReq
<1>5. PICK c \in issued, todo \in Frames : push(r, c, todo)
  BY Zenon, <1>1, <1>2, <1>4 DEF challenge_response
<1>6. now_unix <= c.expiry /\ req'[r].wants = c.batch
  BY Zenon, <1>4, <1>5 DEF push, verify
<1>7. c.batch \in Batches /\ c.expiry \in Int
  BY Zenon DEF StandInv, STyped
<1>8. FundedFrom(c.batch, c.expiry - Age)
  BY Zenon DEF StandInv, IssuedRecent
<1>9. chain[c.batch].since \in Int
  BY Zenon, <1>7 DEF StandInv, STyped, ChainType
<1>10. now_unix \in Int
  BY DEF StandInv, STyped
<1>11. chain[c.batch].since >= c.expiry - Age =>
         now_unix - chain[c.batch].since <= ChallengeTTL + OkTTL - 1 + RpcMax
  BY <1>6, <1>7, <1>9, <1>10 DEF Age
<1> QED
  BY Zenon, <1>6, <1>8, <1>11 DEF FundedFrom, FundedWithin

\* Only a cached rejection turns an uploader away without a reason of its own.
LEMMA RejectsRecent == StandInv /\ [SNext]_svars => RejectsOnRecentAnswer
<1> SUFFICES ASSUME StandInv, [SNext]_svars, NEW r \in Reqs, NEW b \in req'[r].errs \ req[r].errs,
                    chain[b].is = "funded", now_unix - chain[b].since > BadTTL - 1 + RpcMax,
                    req[r].st \notin {"owner", "balance"}, req[r].budget # 0
             PROVE  FALSE
  BY Zenon DEF RejectsOnRecentAnswer
<1>1. \/ \E y \in Batches : challenge_response(r, y)
      \/ \E c \in issued, todo \in Frames : push(r, c, todo)
      \/ Memo(r) \/ Hit(r) \/ OverBudget(r) \/ ReadBatch(r) \/ Serve(r) \/ RpcFails(r)
      \/ Exists(r) \/ Decide(r) \/ End(r)
  BY Zenon, OneRequest
<1>2. req \in [Reqs -> ReqType]
  BY Zenon DEF StandInv, STyped
<1>3. NoReq.errs = {}
  BY DEF NoReq
<1>4. ~(\E y \in Batches : challenge_response(r, y)) /\ ~End(r)
      /\ ~\E c \in issued, todo \in Frames : push(r, c, todo)
  <2>1. ASSUME NEW w, NEW todo, NEW budget, Begin(r, w, todo, budget) PROVE FALSE
    <3>1. req'[r] = [NoReq EXCEPT !.st = "next", !.todo = todo, !.wants = w, !.budget = budget]
      BY Zenon, <1>2, <2>1 DEF Begin
    <3>2. req'[r].errs = NoReq.errs
      BY <3>1 DEF NoReq
    <3> QED
      BY Zenon, <3>2, <1>3
  <2>2. ASSUME End(r) PROVE FALSE
    <3>1. req'[r] = NoReq
      BY Zenon, <1>2, <2>2 DEF End
    <3> QED
      BY Zenon, <3>1, <1>3
  <2> QED
    BY Zenon, <2>1, <2>2 DEF challenge_response, push
<1>5. ~Memo(r) /\ ~ReadBatch(r)
  <2>1. Memo(r) \/ ReadBatch(r) => req'[r].errs = req[r].errs
    <3>1. req[r] \in ReqType
      BY Zenon, <1>2
    <3>2. CASE Memo(r)
      <4>1. req'[r] = [req[r] EXCEPT !.todo = Tail(req[r].todo)]
        BY Zenon, <1>2, <3>2 DEF Memo
      <4> QED
        BY Zenon, <3>1, <4>1 DEF ReqType
    <3>3. CASE ReadBatch(r)
      <4>1. req'[r] = [req[r] EXCEPT !.st = "owner", !.budget = Spend(r), !.spent = req[r].spent + 1,
                                     !.sent = now_unix, !.said = "none"]
        BY Zenon, <1>2, <3>3 DEF ReadBatch
      <4> QED
        BY Zenon, <3>1, <4>1 DEF ReqType
    <3> QED
      BY Zenon, <3>2, <3>3
  <2> QED
    BY Zenon, <2>1
<1>6. ~OverBudget(r) /\ ~Serve(r) /\ ~RpcFails(r) /\ ~Exists(r) /\ ~Decide(r)
  BY DEF OverBudget, Serve, RpcFails, Exists, Decide
<1>7. Hit(r)
  BY Zenon, <1>1, <1>4, <1>5, <1>6
<1> DEFINE h == Head(req[r].todo)
           own == cache.map[h].owned
<1>8. h \in DOMAIN cache.map /\ fresh_for(h) /\ Settled(r, own)
  BY Zenon, <1>7 DEF Hit, get
<1>9. req'[r] = [req[r] EXCEPT !.st = "next", !.todo = Tail(req[r].todo),
                               !.memo = IF own THEN h ELSE req[r].memo,
                               !.errs = req[r].errs \cup IF own THEN {} ELSE {h}]
  BY Zenon, <1>2, <1>8 DEF Settled
<1>10. req'[r].errs = req[r].errs \cup IF own THEN {} ELSE {h}
  <2>1. req[r] \in ReqType
    BY Zenon, <1>2
  <2> QED
    BY Zenon, <1>9, <2>1 DEF ReqType
<1>11. b = h /\ ~own
  BY Zenon, <1>10
<1>12. now_unix - cache.map[b].when < BadTTL
  BY Zenon, <1>8, <1>11 DEF fresh_for
<1>13. UnfundedFrom(b, cache.map[b].when - RpcMax)
  BY Zenon, <1>8, <1>11 DEF StandInv, CacheRecent
<1>14. h \in Batches
  BY Zenon, <1>7, ReqFields DEF Hit, Asks
<1>15. cache.map[b].when \in Int /\ chain[b].since \in Int
  BY Zenon, <1>8, <1>11, <1>14 DEF StandInv, CacheOK, EntryType, STyped, ChainType
<1>16. now_unix \in Int
  BY DEF StandInv, STyped
<1> QED
  BY <1>12, <1>13, <1>15, <1>16 DEF UnfundedFrom

\* For every number of requests, frames of a POST, batches, lifetimes, cache
\* cap and read time: a POST begins, and an uploader is turned away, on answers
\* of the chain that are recent; the owner cache stays within its cap and one
\* request reads the chain a bounded number of times (resolve_owner,
\* OwnerCache, Challenge::verify).
THEOREM StandingStaysRecent == SSpec => StandingIsRecent
<1>1. StandInv /\ [SNext]_svars => BeginsOnRecentStanding /\ RejectsOnRecentAnswer
  BY Zenon, BeginsRecent, RejectsRecent
<1> QED
  BY <1>1, StandInit, StandStep, StandTypes, PTL DEF SSpec, StandingIsRecent
=============================================================================
