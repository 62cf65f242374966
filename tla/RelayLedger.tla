---------------------------- MODULE RelayLedger ----------------------------
(***************************************************************************)
(* The payment side of a metered relay: the ledger (src/src/ledger.rs),    *)
(* its lock and its disk (metered.rs), and the requests that use it        *)
(* (pusher.rs: POST /v1/push reserves, then commits or releases; POST      *)
(* /v1/pay credits a cheque).  Requests run on a multi-threaded runtime    *)
(* and hold the ledger's lock for one action of this module at a time.     *)
(*                                                                         *)
(* A request presents a verified challenge, which carries the account and  *)
(* the credit line of one of its batches; a cheque is its cumulative       *)
(* amount, drawn on a chequebook whose issuer is fixed on chain.  Any      *)
(* write of the ledger file may fail, and the process may stop and restart *)
(* between any two actions (the file is renamed into place, so it always   *)
(* holds one whole ledger).                                                *)
(***************************************************************************)
EXTENDS Params, FiniteSets, Sums

CONSTANTS
  Accounts,    \* batch owners
  Books,       \* chequebooks
  Issuer,      \* the account each chequebook was deployed for
  NoAccount,   \* the binding of a chequebook that never paid
  Posts,       \* concurrent POST /v1/push requests
  Pays,        \* concurrent POST /v1/pay requests
  Bodies,      \* body lengths in bytes, of a POST and of its admitted frames
  Values,      \* on-chain values of the accounts' batches
  HardMode,    \* MeterConfig::hard_mode
  MaxLive,     \* MAX_LIVE_RESERVATIONS
  MaxCumulative, \* MAX_CUMULATIVE_PLUR
  MaxBilled    \* bound: what an account may be billed over a behaviour

ASSUME RelayAssumption ==
  /\ NoAccount \notin Accounts
  /\ Issuer \in [Books -> Accounts]
  /\ IsFiniteSet(Posts)
  /\ Bodies \subseteq Nat /\ Values \subseteq Nat /\ Values # {}
  /\ HardMode \in BOOLEAN
  /\ MaxLive \in Nat /\ MaxCumulative \in Nat /\ MaxBilled \in Nat

VARIABLES
  ledger,    \* the durable half of the Ledger, in memory
  reserved,  \* Account.reserved_plur
  disk,      \* ledger.json
  post,      \* the POSTs in progress
  pay,       \* the payments in progress
  billed,    \* history: what each account was ever billed
  paid,      \* history: what its cheques were ever credited for
  drawn      \* history: what was ever credited from each chequebook

vars == <<ledger, reserved, disk, post, pay, billed, paid, drawn>>

LedgerState ==
  [owed    : [Accounts -> Nat],
   last    : [Accounts -> [Books -> Nat]],     \* last_cumulative, 0 when absent
   binding : [Books -> Accounts \cup {NoAccount}]]

PostState ==
  [st : {"idle", "unshed", "refused", "admitted"},
   account : Accounts \cup {NoAccount}, cap : Nat, bytes : Nat]

PayState ==
  [st : {"idle", "owing", "checked"}, account : Accounts \cup {NoAccount},
   cap : Nat, book : Books \cup {NoAccount}, cumulative : Nat]

TypeOK ==
  /\ ledger \in LedgerState /\ disk \in LedgerState
  /\ reserved \in [Accounts -> Nat]
  /\ post \in [Posts -> PostState]
  /\ pay \in [Pays -> PayState]
  /\ billed \in [Accounts -> Nat] /\ paid \in [Accounts -> Nat]
  /\ drawn \in [Books -> Nat]

NoPost == [st |-> "idle", account |-> NoAccount, cap |-> 0, bytes |-> 0]

NoPay == [st |-> "idle", account |-> NoAccount, cap |-> 0, book |-> NoAccount,
          cumulative |-> 0]

EmptyLedger ==
  [owed |-> [a \in Accounts |-> 0],
   last |-> [a \in Accounts |-> [k \in Books |-> 0]],
   binding |-> [k \in Books |-> NoAccount]]

\* A first boot creates the ledger and writes it at once.
Init ==
  /\ ledger = EmptyLedger /\ disk = EmptyLedger
  /\ reserved = [a \in Accounts |-> 0]
  /\ post = [p \in Posts |-> NoPost]
  /\ pay = [q \in Pays |-> NoPay]
  /\ billed = [a \in Accounts |-> 0] /\ paid = [a \in Accounts |-> 0]
  /\ drawn = [k \in Books |-> 0]

-----------------------------------------------------------------------------
\* POST /v1/push.

live_reservations == Cardinality({a \in Accounts : reserved[a] > 0})

\* A request whose challenge verifies is shed when too many accounts hold a
\* reservation; the lock is dropped before the reservation is made.
ShedCheck(p, a, value) ==
  /\ post[p].st = "idle"
  /\ live_reservations < MaxLive
  /\ post' = [post EXCEPT ![p] = [st |-> "unshed", account |-> a,
                                  cap |-> credit_line(value), bytes |-> 0]]
  /\ UNCHANGED <<ledger, reserved, disk, pay, billed, paid, drawn>>

\* The request declares no usable length: answered before it reserves.
BadLength(p) ==
  /\ post[p].st = "unshed"
  /\ post' = [post EXCEPT ![p] = NoPost]
  /\ UNCHANGED <<ledger, reserved, disk, pay, billed, paid, drawn>>

\* Mutant: only billed debt counts against the credit line.
OverCapOwedOnly(a, amount, cap) == ledger.owed[a] > cap

\* Does a reservation of this amount take the account past its line?
OverCap(a, amount, cap) == ledger.owed[a] + reserved[a] + amount > cap

\* Always reserves; in hard mode an overshoot will be released and refused.
Reserve(p, bytes) ==
  LET a == post[p].account
      amount == price_bytes(bytes)
  IN  /\ post[p].st = "unshed"
      /\ reserved' = [reserved EXCEPT ![a] = @ + amount]
      /\ post' = [post EXCEPT ![p] =
                    [@ EXCEPT !.st = IF OverCap(a, amount, post[p].cap) /\ HardMode
                                     THEN "refused" ELSE "admitted",
                              !.bytes = bytes]]
      /\ UNCHANGED <<ledger, disk, pay, billed, paid, drawn>>

\* The reservation of p is given back (saturating_sub).
GiveBack(p) ==
  LET amount == price_bytes(post[p].bytes)
  IN  reserved' = [reserved EXCEPT
                     ![post[p].account] = IF @ < amount THEN 0 ELSE @ - amount]

\* The 402 of hard mode, or the guard dropped on any path that does not
\* commit: a body that is too large, late or malformed, a client gone.
Release(p) ==
  /\ post[p].st \in {"refused", "admitted"}
  /\ GiveBack(p)
  /\ post' = [post EXCEPT ![p] = NoPost]
  /\ UNCHANGED <<ledger, disk, pay, billed, paid, drawn>>

\* One atomic write of the whole ledger, which fails when ~ok.
persist(ok) == disk' = IF ok THEN ledger' ELSE disk

\* The admitted frames, at most the declared body, become debt.  A failed
\* write is only logged.
Commit(p, bytes, ok) ==
  LET a == post[p].account
      bill == price_bytes(bytes)
  IN  /\ post[p].st = "admitted"
      /\ bytes <= post[p].bytes
      /\ billed[a] + bill <= MaxBilled
      /\ ledger' = [owed |-> [ledger.owed EXCEPT ![a] = @ + bill],
                  last |-> ledger.last, binding |-> ledger.binding]
      /\ GiveBack(p)
      /\ persist(ok)
      /\ post' = [post EXCEPT ![p] = NoPost]
      /\ billed' = [billed EXCEPT ![a] = @ + bill]
      /\ UNCHANGED <<pay, paid, drawn>>

-----------------------------------------------------------------------------
\* POST /v1/pay.

\* No debt, no cheque.
PayStart(q, a, value) ==
  /\ pay[q].st = "idle"
  /\ ledger.owed[a] > 0
  /\ pay' = [pay EXCEPT ![q] = [@ EXCEPT !.st = "owing", !.account = a,
                                         !.cap = credit_line(value)]]
  /\ UNCHANGED <<ledger, reserved, disk, post, billed, paid, drawn>>

\* The free checks: the cheque adds at least the dust floor to what the
\* ledger has now.  Reading the chain takes until the next action.
PayCheck(q, k, cumulative) ==
  LET have == ledger.last[pay[q].account][k]
  IN  /\ pay[q].st = "owing"
      /\ cumulative <= MaxCumulative
      /\ cumulative > have
      /\ cumulative - have >= effective(pay[q].cap).min_cheque
      /\ pay' = [pay EXCEPT ![q] = [@ EXCEPT !.st = "checked", !.book = k,
                                             !.cumulative = cumulative]]
      /\ UNCHANGED <<ledger, reserved, disk, post, billed, paid, drawn>>

\* A check fails, or the chain cannot be read.
PayReject(q) ==
  /\ pay[q].st \in {"owing", "checked"}
  /\ pay' = [pay EXCEPT ![q] = NoPay]
  /\ UNCHANGED <<ledger, reserved, disk, post, billed, paid, drawn>>

\* Ledger::credit accepts the cheque: a chequebook of this account, worth
\* more than the last, and no more than is owed.
Acceptable(a, k, cumulative) ==
  /\ cumulative <= MaxCumulative
  /\ ledger.binding[k] \in {a, NoAccount}
  /\ cumulative > ledger.last[a][k]
  /\ cumulative - ledger.last[a][k] <= ledger.owed[a]

\* Mutants: a cheque clears the whole debt; the debt is not lowered by what is
\* credited.
CreditedAll(a, k, cumulative) ==
  [owed    |-> [ledger.owed EXCEPT ![a] = 0],
   last    |-> [ledger.last EXCEPT ![a][k] = cumulative],
   binding |-> [ledger.binding EXCEPT ![k] = a]]

CreditedStillOwed(a, k, cumulative) ==
  [owed    |-> ledger.owed,
   last    |-> [ledger.last EXCEPT ![a][k] = cumulative],
   binding |-> [ledger.binding EXCEPT ![k] = a]]

\* The ledger with the cheque credited.
Credited(a, k, cumulative) ==
  [owed    |-> [ledger.owed EXCEPT ![a] = @ - (cumulative - ledger.last[a][k])],
   last    |-> [ledger.last EXCEPT ![a][k] = cumulative],
   binding |-> [ledger.binding EXCEPT ![k] = a]]

\* The ledger l put back to what it was before the credit.
rollback_credit(l, a, k) ==
  [owed    |-> [l.owed EXCEPT ![a] = ledger.owed[a]],
   last    |-> [l.last EXCEPT ![a][k] = ledger.last[a][k]],
   binding |-> IF ledger.binding[k] = NoAccount
               THEN [l.binding EXCEPT ![k] = NoAccount] ELSE l.binding]

\* Credit, write and, when the write fails, roll back: under one lock.
PayCredit(q, ok) ==
  LET a == pay[q].account
      k == pay[q].book
      cumulative == pay[q].cumulative
      delta == cumulative - ledger.last[a][k]
      after == Credited(a, k, cumulative)
  IN  /\ pay[q].st = "checked"
      /\ Issuer[k] = a
      /\ Acceptable(a, k, cumulative)
      /\ ledger' = IF ok THEN after ELSE rollback_credit(after, a, k)
      /\ persist(ok)
      /\ paid' = IF ok THEN [paid EXCEPT ![a] = @ + delta] ELSE paid
      /\ drawn' = IF ok THEN [drawn EXCEPT ![k] = @ + delta] ELSE drawn
      /\ pay' = [pay EXCEPT ![q] = NoPay]
      /\ UNCHANGED <<reserved, post, billed>>

-----------------------------------------------------------------------------
\* The process stops; a new one loads the file, with no reservations.
Restart ==
  /\ ledger' = disk
  /\ reserved' = [a \in Accounts |-> 0]
  /\ post' = [p \in Posts |-> NoPost]
  /\ pay' = [q \in Pays |-> NoPay]
  /\ UNCHANGED <<disk, billed, paid, drawn>>

Next ==
  \/ \E p \in Posts :
       \/ \E a \in Accounts, value \in Values : ShedCheck(p, a, value)
       \/ BadLength(p)
       \/ \E bytes \in Bodies : Reserve(p, bytes)
       \/ Release(p)
       \/ \E bytes \in Bodies, ok \in BOOLEAN : Commit(p, bytes, ok)
  \/ \E q \in Pays :
       \/ \E a \in Accounts, value \in Values : PayStart(q, a, value)
       \/ \E k \in Books, cumulative \in 1..MaxCumulative : PayCheck(q, k, cumulative)
       \/ PayReject(q)
       \/ \E ok \in BOOLEAN : PayCredit(q, ok)
  \/ Restart

Spec == Init /\ [][Next]_vars

-----------------------------------------------------------------------------
\* Properties.

Held(a, states) == {p \in Posts : post[p].account = a /\ post[p].st \in states}

PriceOf(S) == SumOver([p \in Posts |-> price_bytes(post[p].bytes)], S)

\* No reservation leaks and none is released twice: an account's reserved_plur
\* is what its requests in progress hold, on every path out of a request and
\* after a restart.
ReservedIsHeld ==
  \A a \in Accounts : reserved[a] = PriceOf(Held(a, {"refused", "admitted"}))

\* Concurrent POSTs cannot overrun the credit line: in hard mode the debt and
\* the work admitted on credit together fit the largest line the account has.
WithinCreditLine ==
  HardMode => \A a \in Accounts : \E value \in Values :
                ledger.owed[a] + PriceOf(Held(a, {"admitted"})) <= credit_line(value)

\* Concurrent POSTs of an account share its credit line: each holds what it
\* reserved until it ends, and together they stay within the line.
CreditHeld == TypeOK /\ ReservedIsHeld /\ WithinCreditLine

\* No account is asked for more than it was served: what it still owes and what
\* it has paid never exceed what it was billed, whatever writes failed and
\* however often the relay restarted.
NeverOverbilled ==
  \A a \in Accounts : ledger.owed[a] + paid[a] <= billed[a]

\* A cheque is credited once: the total ever credited from a chequebook is the
\* highest cumulative accepted from its issuer, across failed writes and
\* restarts, and no other account holds a cumulative for it.
NoReplay ==
  \A k \in Books, a \in Accounts :
    ledger.last[a][k] = IF a = Issuer[k] THEN drawn[k] ELSE 0

\* Reservations, bills and cheques of one account do not touch those of another,
\* whatever the accounts do at the same time and whenever the relay restarts.
LedgersApart == TypeOK /\ ReservedIsHeld /\ NeverOverbilled /\ NoReplay

\* Memory and disk agree on every accepted cheque and binding at all times, so
\* a restart forgets none.
DurableCheques ==
  /\ disk.last = ledger.last
  /\ disk.binding = ledger.binding

\* The step in which p is refused, alone on its account.
RefusedAlone(p) ==
  /\ post[p].st = "unshed" /\ post'[p].st = "refused"
  /\ reserved[post[p].account] = 0

\* A 402 has a way out: an account refused a POST of at most half its credit
\* line, with no other POST in progress, owes enough for a cheque above its
\* dust floor.
RefusalIsPayable ==
  [][\A p \in Posts :
       RefusedAlone(p) /\ 2 * price_bytes(post'[p].bytes) <= post[p].cap + 1
         => ledger.owed[post[p].account] >= effective(post[p].cap).min_cheque]_vars

-----------------------------------------------------------------------------
\* What the relay promises: the ledger in memory as a set of credit accounts.
Account == INSTANCE CreditAccount WITH
             Bills <- {price_bytes(bytes) : bytes \in Bodies},
             owed <- ledger.owed,
             cashed <- [k \in Books |-> ledger.last[Issuer[k]][k]]

\* The ledger, with its reservations, concurrent requests, failed writes, roll-
\* backs and restarts, keeps its clients' accounts: debt grows only by a bill,
\* falls by exactly what an accepted cheque adds, and a restart may forget debt
\* but never a cheque.
KeepsAccounts == Account!Spec
=============================================================================
