-------------------------- MODULE SettlementClaims --------------------------
(***************************************************************************)
(* Proofs about Settlement, continued: the client and its relays, who      *)
(* never exchange totals while an upload runs, agree on what is owed.  A   *)
(* relay refuses a cheque as too large only after something was lost, and  *)
(* one correction repairs it.                                              *)
(***************************************************************************)
EXTENDS SettlementProofs

\* The lane's share of a POST in what is pending, and in what an answer the
\* driver has not read yet will add to the debt.
SentShare(p, l) == IF p \in Live(l) THEN Price_(post[p].frames) ELSE 0

UnreadShare(p, l) ==
  IF p \in Live(l) /\ post[p].st = "answered"
  THEN Price_(post[p].frames) - Price_(post[p].dedup) ELSE 0

Sent(l) == SumOver([p \in Posts |-> SentShare(p, l)], Posts)

Unread(l) == SumOver([p \in Posts |-> UnreadShare(p, l)], Posts)

\* The client counts what is in flight exactly, and owes no more than its relay
\* has booked, answers it has yet to read included.
Balanced(l) ==
  /\ acct[l].pending = Sent(l)
  /\ Alone(l) => Owing(l) + Unread(l) <= relay[l].owed

\* A cheque is for all that the account owes.
PaysAll ==
  drv.st \in {"asked", "accepted"} =>
    /\ drv.cum = next_cumulative(acct[drv.job.lane])
    /\ acct[drv.job.lane].owed >= 1

InStep == faults = 0 /\ ~Closed => PaysAll /\ \A l \in Lanes : Balanced(l)

\* An account continues no higher than its relay's last cheque; a correction is
\* for no more than what its relay has booked.
Corrects ==
  /\ \A l \in Lanes : Alone(l) => acct[l].cumulative <= relay[l].last
  /\ \A l \in Lanes : relay[l].disk # relay[l].owed => faults >= 1
  /\ drv.st = "asked" /\ ~drv.once /\ faults <= 1 /\ Alone(drv.job.lane)
       => drv.cum <= relay[drv.job.lane].last + relay[drv.job.lane].owed

ClaimInv == Phases /\ InStep /\ Corrects /\ NoOverclaim /\ CorrectionSuffices

USE SettlementAssumption, ParamsAssumption

-----------------------------------------------------------------------------
\* Prices.

\* A price is the number of whole KiB, rounded up, at the price of one.
LEMMA PriceIs ==
  ASSUME NEW n \in Nat
  PROVE  /\ (n * FrameLen + 1023) \div 1024 \in Nat
         /\ Price_(n) = ((n * FrameLen + 1023) \div 1024) * Price
<1> DEFINE m == n * FrameLen
<1>1. m \in Nat
  OBVIOUS
<1> HIDE DEF m
<1>2. (m + 1023) \div 1024 \in Nat
  BY <1>1
<1> QED
  BY <1>2 DEF Price_, price_bytes, m

\* Splitting a body in two never makes it cheaper, and a part costs no more than
\* the whole.
LEMMA PriceSplit ==
  ASSUME NEW n \in Nat, NEW d \in Nat, d <= n
  PROVE  /\ n - d \in Nat
         /\ Price_(n) \in Nat /\ Price_(d) \in Nat /\ Price_(n - d) \in Nat
         /\ Price_(d) <= Price_(n)
         /\ Price_(n) <= Price_(n - d) + Price_(d)
<1> DEFINE K(j) == (j * FrameLen + 1023) \div 1024
           e == n - d
<1>1. e \in Nat
  OBVIOUS
<1>2. /\ Price_(n) \in Nat /\ Price_(d) \in Nat /\ Price_(e) \in Nat
  BY Zenon, <1>1, PriceNat
<1>3. /\ K(n) \in Nat /\ K(d) \in Nat /\ K(e) \in Nat
      /\ Price_(n) = K(n) * Price /\ Price_(d) = K(d) * Price /\ Price_(e) = K(e) * Price
  BY <1>1, PriceIs
<1>4. K(d) <= K(n) /\ K(n) <= K(e) + K(d)
  <2> DEFINE x == d * FrameLen
             y == e * FrameLen
             z == n * FrameLen
  <2>1. n = e + d
    OBVIOUS
  <2>2. z = x + y
    BY <1>1, <2>1
  <2>3. x \in Nat /\ y \in Nat
    BY <1>1
  <2> HIDE DEF x, y, z
  <2>4. /\ (x + 1023) \div 1024 <= (z + 1023) \div 1024
        /\ (z + 1023) \div 1024 <= (y + 1023) \div 1024 + (x + 1023) \div 1024
    BY <2>2, <2>3
  <2> QED
    BY Zenon, <2>4 DEF x, y, z
<1> HIDE DEF K, e
<1>5. K(d) * Price <= K(n) * Price
  BY <1>3, <1>4
<1>6. K(n) * Price <= K(e) * Price + K(d) * Price
  <2>1. K(n) * Price <= (K(e) + K(d)) * Price
    BY <1>3, <1>4
  <2>2. (K(e) + K(d)) * Price = K(e) * Price + K(d) * Price
    BY <1>3
  <2> QED
    BY Zenon, <1>3, <2>1, <2>2
<1> QED
  BY Zenon, <1>1, <1>2, <1>3, <1>5, <1>6 DEF e

-----------------------------------------------------------------------------
\* What is in flight.

SentMap(l) == [p \in Posts |-> SentShare(p, l)]
UnreadMap(l) == [p \in Posts |-> UnreadShare(p, l)]

\* Shares are natural numbers, and an unread share is at most a sent one.
LEMMA Shares ==
  ASSUME Typed, \A p \in Posts : post[p].dedup <= post[p].frames, NEW l \in Lanes, NEW p \in Posts
  PROVE  /\ SentShare(p, l) \in Nat /\ UnreadShare(p, l) \in Nat
         /\ UnreadShare(p, l) <= SentShare(p, l)
<1>1. post[p].frames \in Nat /\ post[p].dedup \in Nat /\ post[p].dedup <= post[p].frames
  BY DEF Typed, PostType
<1>2. /\ Price_(post[p].frames) \in Nat /\ Price_(post[p].dedup) \in Nat
      /\ Price_(post[p].dedup) <= Price_(post[p].frames)
  BY <1>1, PriceSplit, Zenon
<1> QED
  BY <1>2 DEF SentShare, UnreadShare

\* So are their sums.
LEMMA Totals ==
  ASSUME Typed, \A p \in Posts : post[p].dedup <= post[p].frames, NEW l \in Lanes
  PROVE  Sent(l) \in Nat /\ Unread(l) \in Nat /\ Unread(l) <= Sent(l)
<1> DEFINE f == SentMap(l)
           g == UnreadMap(l)
<1>1. \A p \in Posts : f[p] \in Nat /\ g[p] \in Nat /\ g[p] <= f[p]
  BY Zenon, Shares DEF SentMap, UnreadMap
<1>2. Sent(l) = SumOver(f, Posts) /\ Unread(l) = SumOver(g, Posts)
  BY Zenon DEF Sent, Unread, SentMap, UnreadMap
<1> HIDE DEF f, g
<1>3. SumOver(f, Posts) \in Nat
  BY Zenon, <1>1, SumNat
<1>4. SumOver(g, Posts) \in Nat
  BY Zenon, <1>1, SumNat
<1>5. SumOver(g, Posts) <= SumOver(f, Posts)
  BY Zenon, <1>1, SumMonotone
<1> QED
  BY Zenon, <1>2, <1>3, <1>4, <1>5

\* Nothing is in flight when no POST is.
LEMMA NoneLive ==
  ASSUME \A p \in Posts : ~post'[p].live, NEW l \in Lanes
  PROVE  Sent(l)' = 0 /\ Unread(l)' = 0
<1>1. [p \in Posts |-> SentShare(p, l)'] = [p \in Posts |-> 0]
  BY Zenon DEF SentShare, Live
<1>2. [p \in Posts |-> UnreadShare(p, l)'] = [p \in Posts |-> 0]
  BY Zenon DEF UnreadShare, Live
<1> QED
  BY Zenon, <1>1, <1>2, SumZero DEF Sent, Unread

\* When one POST moves, the sums move by its shares.
LEMMA OneMoves ==
  ASSUME Typed, Typed', NEW l \in Lanes, NEW p \in Posts,
         \A q \in Posts : post[q].dedup <= post[q].frames,
         \A q \in Posts : post'[q].dedup <= post'[q].frames,
         \A q \in Posts \ {p} : post'[q] = post[q]
  PROVE  /\ Sent(l) \in Nat /\ Sent(l)' \in Nat /\ Unread(l) \in Nat /\ Unread(l)' \in Nat
         /\ SentShare(p, l) \in Nat /\ SentShare(p, l)' \in Nat
         /\ UnreadShare(p, l) \in Nat /\ UnreadShare(p, l)' \in Nat
         /\ Sent(l) + SentShare(p, l)' = Sent(l)' + SentShare(p, l)
         /\ Unread(l) + UnreadShare(p, l)' = Unread(l)' + UnreadShare(p, l)
<1>1. ASSUME NEW q \in Posts
      PROVE  /\ SentShare(q, l) \in Nat /\ UnreadShare(q, l) \in Nat
             /\ SentShare(q, l)' \in Nat /\ UnreadShare(q, l)' \in Nat
             /\ q # p => /\ SentShare(q, l)' = SentShare(q, l)
                         /\ UnreadShare(q, l)' = UnreadShare(q, l)
  <2>1. /\ post[q].frames \in Nat /\ post[q].dedup \in Nat /\ post[q].dedup <= post[q].frames
        /\ post'[q].frames \in Nat /\ post'[q].dedup \in Nat
        /\ post'[q].dedup <= post'[q].frames
    BY DEF Typed, PostType
  <2>2. /\ Price_(post[q].frames) \in Nat /\ Price_(post[q].dedup) \in Nat
        /\ Price_(post[q].dedup) <= Price_(post[q].frames)
    BY <2>1, PriceSplit, SMTT(60)
  <2>3. /\ Price_(post'[q].frames) \in Nat /\ Price_(post'[q].dedup) \in Nat
        /\ Price_(post'[q].dedup) <= Price_(post'[q].frames)
    BY <2>1, PriceSplit, SMTT(60)
  <2>4. SentShare(q, l) \in Nat /\ UnreadShare(q, l) \in Nat
    BY <2>2 DEF SentShare, UnreadShare
  <2>5. SentShare(q, l)' \in Nat /\ UnreadShare(q, l)' \in Nat
    BY <2>3 DEF SentShare, UnreadShare
  <2>6. ASSUME q # p
        PROVE  SentShare(q, l)' = SentShare(q, l) /\ UnreadShare(q, l)' = UnreadShare(q, l)
    BY Zenon, <2>6 DEF SentShare, UnreadShare, Live
  <2> QED
    BY Zenon, <2>4, <2>5, <2>6
<1> DEFINE f == [q \in Posts |-> SentShare(q, l)]
           g == [q \in Posts |-> SentShare(q, l)']
           u == [q \in Posts |-> UnreadShare(q, l)]
           v == [q \in Posts |-> UnreadShare(q, l)']
<1>2. /\ \A q \in Posts : f[q] \in Nat /\ g[q] \in Nat
      /\ \A q \in Posts : u[q] \in Nat /\ v[q] \in Nat
      /\ \A q \in Posts \ {p} : f[q] = g[q] /\ u[q] = v[q]
  BY Zenon, <1>1
<1>3. /\ f[p] = SentShare(p, l) /\ g[p] = SentShare(p, l)'
      /\ u[p] = UnreadShare(p, l) /\ v[p] = UnreadShare(p, l)'
  BY Zenon
<1>4. /\ Sent(l) = SumOver(f, Posts) /\ Sent(l)' = SumOver(g, Posts)
      /\ Unread(l) = SumOver(u, Posts) /\ Unread(l)' = SumOver(v, Posts)
  BY Zenon DEF Sent, Unread
<1> HIDE DEF f, g, u, v
<1>5. SumOver(f, Posts) \in Nat
  BY Zenon, <1>2, SumNat
<1>6. SumOver(g, Posts) \in Nat
  BY Zenon, <1>2, SumNat
<1>7. SumOver(u, Posts) \in Nat
  BY Zenon, <1>2, SumNat
<1>8. SumOver(v, Posts) \in Nat
  BY Zenon, <1>2, SumNat
<1>9. SumOver(f, Posts) + g[p] = SumOver(g, Posts) + f[p]
  BY <1>2, SumChange
<1>10. SumOver(u, Posts) + v[p] = SumOver(v, Posts) + u[p]
  BY <1>2, SumChange
<1> QED
  BY Zenon, <1>1, <1>3, <1>4, <1>5, <1>6, <1>7, <1>8, <1>9, <1>10

-----------------------------------------------------------------------------
\* The two sides stay in step.

\* A quiet step keeps them there.
LEMMA QuietBalanced ==
  ASSUME Typed, Typed', Phases, Quiet, UNCHANGED relay, drv'.st # "accepted",
         faults' = 0, ~Closed', \A l \in Lanes : Balanced(l)
  PROVE  \A l \in Lanes : Balanced(l)'
<1> SUFFICES ASSUME NEW l \in Lanes PROVE Balanced(l)'
  BY Zenon
<1>1. Sent(l)' = Sent(l) /\ Unread(l)' = Unread(l)
  BY Zenon DEF Quiet, Sent, Unread, SentShare, UnreadShare, Live
<1>2. Sent(l) \in Nat /\ Unread(l) \in Nat /\ Unread(l) <= Sent(l)
  BY Zenon, Totals DEF Phases
<1>3. Owing(l)' = acct'[l].owed
  BY Zenon DEF Owing
<1>4. acct'[l].owed \in Nat /\ acct[l].pending \in Nat /\ relay[l].owed \in Nat /\ Owing(l) \in Nat
  BY Zenon DEF Typed, AccountType, RelayType, Owing
<1>5. acct'[l].pending = acct[l].pending /\ acct[l].pending = Sent(l)
  BY Zenon DEF Quiet, Balanced
<1>6. ASSUME Alone(l) PROVE acct'[l].owed + Unread(l) <= relay[l].owed
  <2>1. Owing(l) + Unread(l) <= relay[l].owed
    BY Zenon, <1>6 DEF Balanced
  <2>2. acct'[l].owed <= Owing(l) \/ acct'[l].owed + acct[l].pending <= relay[l].owed
    BY Zenon, <1>6 DEF Quiet
  <2> QED
    BY <1>2, <1>4, <1>5, <2>1, <2>2
<1> QED
  BY Zenon, <1>1, <1>3, <1>5, <1>6 DEF Balanced, Alone

\* A POST is sent.
LEMMA SendStep ==
  ASSUME Typed, Typed', Phases, NEW k \in Lanes, NEW p \in Posts, NEW n \in 1..MaxFrames,
         Send(k, p, n)
  PROVE  /\ Phases' /\ ~Closed /\ UNCHANGED <<drv, faults>>
         /\ (\A l \in Lanes : Balanced(l)) => \A l \in Lanes : Balanced(l)'
<1>1. /\ drv.st = "loop" /\ UNCHANGED <<drv, relay, faults>> /\ post[p].st = "free" /\ ~Closed
  BY Zenon DEF Send, Phases, Closed
<1> DEFINE new == [st |-> "wire", lane |-> k, frames |-> n, dedup |-> 0, live |-> TRUE]
           a == record_sent([acct[k] EXCEPT !.cap = Line], n)
<1>2. post'[p] = new /\ \A q \in Posts \ {p} : post'[q] = post[q]
  BY Zenon DEF Send, Typed
<1>3. acct'[k] = a /\ \A l \in Lanes \ {k} : acct'[l] = acct[l]
  BY Zenon DEF Send, Typed
<1>4. n \in Nat /\ Price_(n) \in Nat /\ acct[k] \in AccountType
  BY PriceNat DEF Typed
<1>5. /\ a.owed = acct[k].owed /\ a.pending = acct[k].pending + Price_(n) /\ a.cap = Line
  BY Zenon, <1>4 DEF record_sent, AccountType
<1> HIDE DEF a
<1>6. \A q \in Posts : /\ post'[q].dedup <= post'[q].frames
                       /\ post'[q].st = "free" => ~post'[q].live
                       /\ faults = 0 => post'[q].st # "failed"
  BY <1>2 DEF Phases
<1>7. faults = 0 => \A l \in Lanes : acct'[l].cap = Line
  BY Zenon, <1>1, <1>3, <1>5 DEF Phases
<1>8. ~Closed'
  BY Zenon, <1>1 DEF Closed
<1>9. Phases'
  BY Zenon, <1>1, <1>6, <1>7, <1>8 DEF Phases
<1>10. ASSUME \A l \in Lanes : Balanced(l), NEW l \in Lanes PROVE Balanced(l)'
  <2>1. /\ Sent(l) \in Nat /\ Sent(l)' \in Nat /\ Unread(l) \in Nat /\ Unread(l)' \in Nat
        /\ Sent(l) + SentShare(p, l)' = Sent(l)' + SentShare(p, l)
        /\ Unread(l) + UnreadShare(p, l)' = Unread(l)' + UnreadShare(p, l)
    BY Zenon, <1>2, <1>6, OneMoves DEF Phases
  <2>2. SentShare(p, l) = 0 /\ UnreadShare(p, l) = 0 /\ UnreadShare(p, l)' = 0
    <3>1. ~post[p].live
      BY Zenon, <1>1 DEF Phases
    <3>2. post'[p].st = "wire"
      BY <1>2
    <3> QED
      BY Zenon, <3>1, <3>2 DEF SentShare, UnreadShare, Live
  <2>3. SentShare(p, l)' = IF l = k THEN Price_(n) ELSE 0
    BY <1>2 DEF SentShare, Live
  <2>4. acct[l].pending \in Nat /\ acct[l].pending = Sent(l)
    BY Zenon, <1>10 DEF Balanced, Typed, AccountType
  <2>5. acct'[l].pending = Sent(l)'
    BY <1>3, <1>4, <1>5, <2>1, <2>2, <2>3, <2>4
  <2>6. Owing(l)' = Owing(l) /\ relay'[l].owed = relay[l].owed /\ Unread(l)' = Unread(l)
    BY <1>1, <1>3, <1>5, <2>1, <2>2 DEF Owing
  <2> QED
    BY Zenon, <1>10, <2>5, <2>6 DEF Balanced, Alone
<1> QED
  BY Zenon, <1>1, <1>9, <1>10

\* What reading an answer does to the account.
LEMMA DoneEffect ==
  ASSUME Typed, Phases, NEW p \in Posts, Done(p)
  PROVE  LET k == post[p].lane
             f == Price_(post[p].frames)
         IN  /\ k \in Lanes /\ post[p].live /\ drv.st = "loop" /\ ~Closed
             /\ UNCHANGED <<relay, faults>>
             /\ post'[p] = NoPost /\ \A q \in Posts \ {p} : post'[q] = post[q]
             /\ (\E job \in JobType : Leads(job) /\ job.why # "final") \/ UNCHANGED drv
             /\ \A l \in Lanes \ {k} : acct'[l] = acct[l]
             /\ acct'[k].cap = acct[k].cap
             /\ acct'[k].pending = monus(acct[k].pending, f)
             /\ acct'[k].owed = IF post[p].st = "bounced" THEN acct[k].owed
                                ELSE monus(acct[k].owed + f, Price_(post[p].dedup))
             /\ post[p].st \in {"bounced", "failed", "answered"}
             /\ acct'[k].cumulative \in {acct[k].cumulative, store.mem[Payee[k]]}
<1> DEFINE k == post[p].lane
           refused == post[p].st = "bounced"
           n == post[p].frames
           d == post[p].dedup
           a == record_answered(acct[k], n, ~refused)
           b == refund_dedup(a, d)
           g == [funded EXCEPT ![k] = ~refused /\ (@ \/ post[p].st = "answered")]
<1>1. /\ k \in Lanes /\ post[p].live /\ drv.st = "loop" /\ ~Closed
      /\ UNCHANGED <<relay, faults>> /\ post[p].st \in {"bounced", "failed", "answered"}
  BY Zenon DEF Done, Typed, PostType, Phases, Closed
<1>2. post'[p] = NoPost /\ \A q \in Posts \ {p} : post'[q] = post[q]
  BY Zenon DEF Done, Typed
<1>3. n \in Nat /\ d \in Nat /\ Price_(n) \in Nat /\ Price_(d) \in Nat /\ acct[k] \in AccountType
      /\ refused \in BOOLEAN
  BY <1>1, PriceNat DEF Typed, PostType
<1>4. a \in AccountType
  BY <1>3, AccountOps, Zenon
<1>5. /\ a.cap = acct[k].cap /\ a.cumulative = acct[k].cumulative
      /\ a.pending = monus(acct[k].pending, Price_(n))
      /\ a.owed = IF refused THEN acct[k].owed ELSE acct[k].owed + Price_(n)
  <2> HIDE DEF n, refused, k
  <2> QED
    BY Zenon, <1>3 DEF record_answered, AccountType
<1>6. b \in AccountType
  <2> HIDE DEF a, n, refused
  <2> QED
    BY <1>3, <1>4, AccountOps, Zenon
<1>7. /\ b.cap = a.cap /\ b.cumulative = a.cumulative /\ b.pending = a.pending
      /\ b.owed = monus(a.owed, Price_(d))
  <2> HIDE DEF a, d
  <2> QED
    BY Zenon, <1>4 DEF refund_dedup, AccountType
<1>8. \/ refused /\ settle(Job(k, "402", 0), a, g)
      \/ ~refused /\ settle(Job(k, "window", 0), b, g)
      \/ ~refused /\ acct' = [acct EXCEPT ![k] = b] /\ UNCHANGED drv
  BY Zenon DEF Done
<1> HIDE DEF a, b, g, refused, n, d
<1>9. ASSUME NEW job \in JobType, job.lane = k, job.why # "final", NEW c \in AccountType,
             settle(job, c, g)
      PROVE  /\ \E j \in JobType : Leads(j) /\ j.why # "final"
             /\ \A l \in Lanes \ {k} : acct'[l] = acct[l]
             /\ acct'[k].owed = c.owed /\ acct'[k].pending = c.pending /\ acct'[k].cap = c.cap
             /\ acct'[k].cumulative \in {c.cumulative, store.mem[Payee[k]]}
  BY SMTT(60), <1>9, SettleLeads
<1>10. /\ Job(k, "402", 0) \in JobType /\ Job(k, "402", 0).lane = k
       /\ Job(k, "402", 0).why # "final"
       /\ Job(k, "window", 0) \in JobType /\ Job(k, "window", 0).lane = k
       /\ Job(k, "window", 0).why # "final"
  BY SMTT(60), <1>1, JobIs
<1>11. PICK c \in {a, b} :
         /\ c = IF refused THEN a ELSE b
         /\ (\E job \in JobType : Leads(job) /\ job.why # "final") \/ UNCHANGED drv
         /\ \A l \in Lanes \ {k} : acct'[l] = acct[l]
         /\ acct'[k].owed = c.owed /\ acct'[k].pending = c.pending /\ acct'[k].cap = c.cap
         /\ acct'[k].cumulative \in {c.cumulative, store.mem[Payee[k]]}
  <2>1. CASE refused /\ settle(Job(k, "402", 0), a, g)
    BY Zenon, <1>4, <1>9, <1>10, <2>1
  <2>2. CASE ~refused /\ settle(Job(k, "window", 0), b, g)
    BY Zenon, <1>6, <1>9, <1>10, <2>2
  <2>3. CASE ~refused /\ acct' = [acct EXCEPT ![k] = b] /\ UNCHANGED drv
    <3>1. acct'[k] = b /\ \A l \in Lanes \ {k} : acct'[l] = acct[l]
      BY Zenon, <1>1, <2>3 DEF Typed
    <3> QED
      BY Zenon, <2>3, <3>1
  <2> QED
    BY Zenon, <1>8, <2>1, <2>2, <2>3
<1>12. acct'[k].owed = IF refused THEN acct[k].owed ELSE monus(acct[k].owed + Price_(n), Price_(d))
  BY Zenon, <1>5, <1>7, <1>11
<1>13. acct'[k].pending = monus(acct[k].pending, Price_(n)) /\ acct'[k].cap = acct[k].cap
       /\ acct'[k].cumulative \in {acct[k].cumulative, store.mem[Payee[k]]}
  BY Zenon, <1>5, <1>7, <1>11
<1> QED
  BY Zenon, <1>1, <1>2, <1>11, <1>12, <1>13 DEF n, d, refused

\* An answer is read.
LEMMA DoneStep ==
  ASSUME Typed, Typed', Phases, NEW p \in Posts, Done(p)
  PROVE  /\ Phases' /\ ~Closed
         /\ faults = 0 /\ drv'.st # "accepted" /\ (\A l \in Lanes : Balanced(l))
              => \A l \in Lanes : Balanced(l)'
<1> DEFINE k == post[p].lane
           n == post[p].frames
           d == post[p].dedup
<1>1. /\ k \in Lanes /\ post[p].live /\ drv.st = "loop" /\ ~Closed
      /\ UNCHANGED <<relay, faults>>
      /\ post'[p] = NoPost /\ \A q \in Posts \ {p} : post'[q] = post[q]
      /\ (\E job \in JobType : Leads(job) /\ job.why # "final") \/ UNCHANGED drv
      /\ \A l \in Lanes \ {k} : acct'[l] = acct[l]
      /\ acct'[k].cap = acct[k].cap
      /\ acct'[k].pending = monus(acct[k].pending, Price_(n))
      /\ acct'[k].owed = IF post[p].st = "bounced" THEN acct[k].owed
                         ELSE monus(acct[k].owed + Price_(n), Price_(d))
      /\ post[p].st \in {"bounced", "failed", "answered"}
  BY Zenon, DoneEffect
<1>2. n \in Nat /\ d \in Nat /\ d <= n
  BY DEF Typed, PostType, Phases
<1>3. Price_(n) \in Nat /\ Price_(d) \in Nat /\ Price_(d) <= Price_(n)
  BY <1>2, PriceSplit, Zenon
<1>4. \A l \in Lanes : acct'[l].cap = acct[l].cap
  BY Zenon, <1>1
<1>5. \A q \in Posts : post'[q] \in {post[q], NoPost}
  BY Zenon, <1>1
<1>6. Phases'
  <2>1. CASE UNCHANGED drv
    <3>1. ~Closed'
      BY Zenon, <1>1, <2>1 DEF Closed
    <3>2. \A q \in Posts : /\ post'[q].dedup <= post'[q].frames
                           /\ post'[q].st = "free" => ~post'[q].live
                           /\ faults = 0 => post'[q].st # "failed"
      BY <1>5, FreePost DEF Phases
    <3> QED
      BY Zenon, <1>1, <1>4, <2>1, <3>1, <3>2 DEF Phases
  <2>2. ASSUME NEW job \in JobType, Leads(job), job.why # "final" PROVE Phases'
    BY Zenon, <1>1, <1>4, <1>5, <2>2, JobPhases
  <2> QED
    BY Zenon, <1>1, <2>1, <2>2
<1>7. ASSUME faults = 0, drv'.st # "accepted", \A l \in Lanes : Balanced(l), NEW l \in Lanes
      PROVE  Balanced(l)'
  <2>1. /\ Sent(l) \in Nat /\ Sent(l)' \in Nat /\ Unread(l) \in Nat /\ Unread(l)' \in Nat
        /\ Sent(l) + SentShare(p, l)' = Sent(l)' + SentShare(p, l)
        /\ Unread(l) + UnreadShare(p, l)' = Unread(l)' + UnreadShare(p, l)
    BY Zenon, <1>1, <1>6, OneMoves DEF Phases
  <2>2. SentShare(p, l)' = 0 /\ UnreadShare(p, l)' = 0
    BY Zenon, <1>1, FreePost DEF SentShare, UnreadShare, Live
  <2>3. SentShare(p, l) = IF l = k THEN Price_(n) ELSE 0
    BY Zenon, <1>1 DEF SentShare, Live
  <2>4. UnreadShare(p, l) = IF l = k /\ post[p].st = "answered" THEN Price_(n) - Price_(d) ELSE 0
    BY Zenon, <1>1 DEF UnreadShare, Live
  <2>5. post[p].st # "failed"
    BY Zenon, <1>7 DEF Phases
  <2>6. /\ acct[l].pending \in Nat /\ acct[l].pending = Sent(l)
        /\ acct[l].owed \in Nat /\ relay[l].owed \in Nat
    BY Zenon, <1>7 DEF Balanced, Typed, AccountType, RelayType
  <2>7. Owing(l) = acct[l].owed /\ Owing(l)' = acct'[l].owed /\ relay'[l].owed = relay[l].owed
    BY Zenon, <1>1, <1>7 DEF Owing
  <2>8. acct'[l].pending = Sent(l)'
    <3>1. CASE l = k
      <4>1. acct'[l].pending = monus(acct[l].pending, Price_(n))
        BY Zenon, <1>1, <3>1
      <4> HIDE DEF k, n, d
      <4> QED
        BY <1>3, <2>1, <2>2, <2>3, <2>6, <3>1, <4>1 DEF monus
    <3>2. CASE l # k
      BY SMTT(60), <1>1, <2>1, <2>2, <2>3, <2>6, <3>2
    <3> QED
      BY Zenon, <3>1, <3>2
  <2>9. acct'[l].owed + Unread(l)' = acct[l].owed + Unread(l)
    <3>1. CASE l = k /\ post[p].st = "answered"
      <4>1. acct'[l].owed = monus(acct[l].owed + Price_(n), Price_(d))
        BY Zenon, <1>1, <3>1
      <4> HIDE DEF k, n, d
      <4>2. acct'[l].owed = acct[l].owed + (Price_(n) - Price_(d))
        BY <1>3, <2>6, <4>1 DEF monus
      <4>3. Unread(l) = Unread(l)' + (Price_(n) - Price_(d))
        BY <1>3, <2>1, <2>2, <2>4, <3>1
      <4> QED
        BY <1>3, <2>1, <2>6, <4>2, <4>3
    <3>2. CASE ~(l = k /\ post[p].st = "answered")
      <4>1. acct'[l].owed = acct[l].owed
        BY Zenon, <1>1, <2>5, <3>2
      <4> QED
        BY <2>1, <2>2, <2>4, <2>6, <3>2, <4>1
    <3> QED
      BY Zenon, <3>1, <3>2
  <2> QED
    BY Zenon, <1>7, <2>7, <2>8, <2>9 DEF Balanced, Alone
<1> QED
  BY Zenon, <1>1, <1>6, <1>7

\* Every step of the driver between payments.
LEMMA DriverClaims ==
  ASSUME IInv, Phases, InStep, NoOverclaim, DriverLocal
  PROVE  Phases' /\ InStep'
<1>0. Typed
  BY Zenon, TypedIsTypeOK DEF IInv
<1>1. Typed' /\ drv'.st # "accepted" /\ UNCHANGED <<relay, billed, store>>
  BY Zenon, DriverLocalType
<1>2. Presented
  BY Zenon, DriverMoves
<1>3. faults' \in {faults, faults + 1} /\ (faults' = 0 => faults = 0)
  <2>1. faults' \in {faults, faults + 1}
    BY ZenonT(60), FaultGrows
    DEF DriverLocal, SetupLane, LoopSettle, DispatchSettle, Send, FinalSettle, Done, Finish,
        Stall, PayNothing, PayCorrect, PayRefused, PayFails, Reconcile
  <2> QED
    BY <1>0, <2>1 DEF Typed
<1>4. /\ Phases' /\ (Closed => Closed')
      /\ \/ Quiet
         \/ Closed'
         \/ faults = 0 /\ (\A l \in Lanes : Balanced(l)) => \A l \in Lanes : Balanced(l)'
  <2>1. ASSUME NEW l \in Lanes, NEW c \in BOOLEAN, NEW d \in BOOLEAN, SetupLane(l, c, d)
        PROVE  Phases' /\ (Closed => Closed') /\ Quiet
    BY Zenon, <1>0, <2>1, SetupPhases
  <2>2. ASSUME NEW l \in Lanes, \/ LoopSettle(l) \/ FinalSettle(l)
                                \/ \E n \in 1..MaxFrames : DispatchSettle(l, n)
        PROVE  Phases' /\ (Closed => Closed') /\ Quiet
    BY Zenon, <1>0, <2>2, CallPhases
  <2>3. ASSUME NEW l \in Lanes, NEW p \in Posts, NEW n \in 1..MaxFrames, Send(l, p, n)
        PROVE  /\ Phases' /\ ~Closed
               /\ (\A m \in Lanes : Balanced(m)) => \A m \in Lanes : Balanced(m)'
    BY Zenon, <1>0, <1>1, <2>3, SendStep
  <2>4. ASSUME NEW p \in Posts, Done(p)
        PROVE  /\ Phases' /\ ~Closed
               /\ faults = 0 /\ (\A m \in Lanes : Balanced(m)) => \A m \in Lanes : Balanced(m)'
    BY Zenon, <1>0, <1>1, <2>4, DoneStep
  <2>5. ASSUME Finish \/ Stall PROVE Phases' /\ Closed'
    BY Zenon, <1>0, <2>5, EndPhases
  <2>6. ASSUME PayNothing \/ PayCorrect \/ PayRefused \/ PayFails
        PROVE  Phases' /\ (Closed => Closed') /\ Quiet
    BY Zenon, <1>0, <2>6, PayPhases
  <2>7. ASSUME NEW got \in BOOLEAN, Reconcile(got)
        PROVE  Phases' /\ (Closed => Closed') /\ Quiet
    BY Zenon, <1>0, <2>7, ReconcilePhases
  <2> QED
    BY Zenon, <2>1, <2>2, <2>3, <2>4, <2>5, <2>6, <2>7 DEF DriverLocal
<1>5. ASSUME faults' = 0, ~Closed' PROVE PaysAll' /\ \A l \in Lanes : Balanced(l)'
  <2>1. faults = 0 /\ ~Closed
    BY Zenon, <1>3, <1>4, <1>5
  <2>2. \A l \in Lanes : Balanced(l)
    BY Zenon, <2>1 DEF InStep
  <2>3. \A l \in Lanes : Balanced(l)'
    <3>1. CASE Quiet
      BY Zenon, <1>0, <1>1, <1>5, <2>2, <3>1, QuietBalanced
    <3> QED
      BY Zenon, <1>4, <1>5, <2>1, <2>2, <3>1
  <2>4. PaysAll'
    <3>1. SUFFICES ASSUME drv'.st = "asked"
                   PROVE  /\ drv'.cum = next_cumulative(acct'[drv'.job.lane])
                          /\ acct'[drv'.job.lane].owed >= 1
      BY Zenon, <1>1 DEF PaysAll, next_cumulative
    <3> DEFINE l == drv'.job.lane
    <3>2. l \in Lanes /\ acct'[l] \in AccountType
      BY Zenon, <1>1 DEF Typed, DriverType, JobType
    <3>3. \E once \in BOOLEAN : Asked(drv'.job, acct'[l], once)
      BY Zenon, <1>2, <3>1 DEF Presented, Presenting
    <3>4. acct'[l].cap = Line
      BY Zenon, <1>4, <1>5, <3>1, <3>2 DEF Phases
    <3> HIDE DEF l
    <3>5. thresholds(acct'[l]).min_cheque \in Nat /\ thresholds(acct'[l]).min_cheque >= 1
      BY Zenon, <3>2, <3>4, FloorPositive
    <3>6. /\ drv'.cum = next_cumulative(acct'[l])
          /\ acct'[l].owed >= thresholds(acct'[l]).min_cheque
      BY Zenon, <3>3 DEF Asked
    <3>7. acct'[l].owed >= 1
      BY <3>2, <3>5, <3>6 DEF AccountType
    <3> QED
      BY Zenon, <3>6, <3>7 DEF l
  <2> QED
    BY Zenon, <2>3, <2>4
<1> QED
  BY Zenon, <1>4, <1>5 DEF InStep

\* Recording an accepted cheque.
LEMMA AcceptedClaims ==
  ASSUME IInv, IInv', Phases, InStep, NEW saved \in BOOLEAN, PayAccepted(saved)
  PROVE  Phases' /\ InStep' /\ NoOverclaim' /\ drv'.st \in {"loop", "final"}
<1> DEFINE k == drv.job.lane
           a == settled(acct[k], drv.cum)
<1>0. Typed /\ Typed'
  BY Zenon, TypedIsTypeOK DEF IInv
<1>1. /\ drv \in DriverType /\ drv.job \in JobType /\ k \in Lanes /\ drv.cum \in Nat
      /\ acct[k] \in AccountType /\ drv.st = "accepted" /\ UNCHANGED <<post, relay>>
      /\ (Closed <=> drv.job.why = "final")
  BY Zenon, <1>0 DEF Typed, DriverType, JobType, PayAccepted, Closed
<1>2. faults' \in {faults, faults + 1} /\ (faults' = 0 => faults = 0)
  <2>1. faults' \in {faults, faults + 1}
    BY Zenon, FaultGrows DEF PayAccepted
  <2> QED
    BY <1>0, <2>1 DEF Typed
<1>3. Leads(drv.job) /\ drv'.st \in {"loop", "final"}
  <2>1. \E f : Return(drv.job, a, f)
    BY Zenon DEF PayAccepted, Cleared
  <2> HIDE DEF a
  <2> QED
    BY Zenon, <1>1, <2>1, ReturnEnds DEF Leads
<1>4. acct'[k] = a /\ \A l \in Lanes \ {k} : acct'[l] = acct[l]
  BY Zenon, <1>0, <1>1 DEF PayAccepted, Typed
<1>5. /\ a.pending = acct[k].pending /\ a.cap = acct[k].cap
      /\ a.owed = monus(acct[k].owed, monus(drv.cum, acct[k].cumulative))
  BY Zenon, <1>1 DEF settled, AccountType
<1> HIDE DEF a
<1>6. \A l \in Lanes : acct'[l].cap = acct[l].cap
  BY Zenon, <1>4, <1>5
<1>7. Phases' /\ (Closed => Closed')
  BY Zenon, <1>0, <1>1, <1>2, <1>3, <1>6, JobPhases
<1>8. ASSUME faults' = 0, ~Closed' PROVE \A l \in Lanes : Balanced(l)'
  <2>1. PaysAll /\ \A l \in Lanes : Balanced(l)
    BY Zenon, <1>2, <1>7, <1>8 DEF InStep
  <2>2. drv.cum = acct[k].cumulative + acct[k].owed
    BY Zenon, <1>1, <2>1 DEF PaysAll, next_cumulative
  <2>3. a.owed = 0
    BY SMTT(60), <1>1, <1>5, <2>2 DEF monus, AccountType
  <2>4. ASSUME NEW l \in Lanes
        PROVE  acct'[l].pending = acct[l].pending /\ acct'[l].owed <= Owing(l)
    BY SMTT(60), <1>0, <1>1, <1>4, <1>5, <2>3 DEF Owing, Typed, AccountType
  <2>5. Quiet
    BY Zenon, <1>1, <2>4 DEF Quiet
  <2> QED
    BY Zenon, <1>0, <1>1, <1>3, <1>8, <2>1, <2>5, QuietBalanced
<1>9. PaysAll' /\ NoOverclaim'
  BY Zenon, <1>3 DEF PaysAll, NoOverclaim
<1> QED
  BY Zenon, <1>3, <1>7, <1>8, <1>9 DEF InStep

\* A new run.
LEMMA RestartClaims ==
  ASSUME IInv, IInv', Phases, NewRun \/ Crash
  PROVE  Phases' /\ InStep' /\ NoOverclaim' /\ drv'.st = "setup" /\ (faults' = 0 => faults = 0)
<1>0. Typed /\ Typed'
  BY Zenon, TypedIsTypeOK DEF IInv
<1>1. /\ drv' = Setup /\ acct' = [l \in Lanes |-> NewAccount(l)] /\ UNCHANGED relay
  BY Zenon DEF NewRun, Crash, Restarted
<1>2. /\ drv'.st = "setup" /\ drv'.job.why = "none" /\ drv'.left = Lanes /\ ~Closed'
  BY Zenon, <1>1, Resting DEF Closed
<1>3. faults' = 0 => faults = 0 /\ NewRun
  BY SMTT(60), <1>0 DEF NewRun, Crash, Fault, Typed
<1>4. \A p \in Posts : /\ ~post'[p].live /\ post'[p].dedup <= post'[p].frames
                       /\ faults' = 0 => post'[p].st # "failed"
  <2>1. CASE NewRun
    BY Zenon, <1>3, <2>1 DEF NewRun, Phases, Closed
  <2>2. CASE Crash
    BY Zenon, <1>0, <2>2, OrphansIdle DEF Crash, Phases
  <2> QED
    BY Zenon, <2>1, <2>2
<1>5. Phases'
  BY Zenon, <1>2, <1>4 DEF Phases
<1>6. ASSUME NEW l \in Lanes PROVE Balanced(l)'
  <2>1. Sent(l)' = 0 /\ Unread(l)' = 0
    BY Zenon, <1>4, NoneLive
  <2>2. acct'[l].pending = 0 /\ acct'[l].owed = 0
    BY Zenon, <1>1 DEF NewAccount
  <2>3. Owing(l)' = 0 /\ relay'[l].owed \in Nat
    BY Zenon, <1>0, <1>2, <2>2 DEF Owing, Typed, RelayType
  <2> QED
    BY <2>1, <2>2, <2>3 DEF Balanced
<1>7. PaysAll' /\ NoOverclaim'
  BY Zenon, <1>2 DEF PaysAll, NoOverclaim
<1> QED
  BY Zenon, <1>2, <1>3, <1>5, <1>6, <1>7 DEF InStep

\* What a relay's answer leaves of a POST.
LEMMA AnswerIs ==
  ASSUME Typed, NEW p \in Posts, NEW st, NEW d, Answer(p, st, d)
  PROVE  /\ \A q \in Posts \ {p} : post'[q] = post[q]
         /\ IF post[p].live
            THEN /\ post'[p].st = st /\ post'[p].dedup = d /\ post'[p].live = post[p].live
                 /\ post'[p].lane = post[p].lane /\ post'[p].frames = post[p].frames
            ELSE post'[p] = NoPost
<1>1. post' = [post EXCEPT ![p] = IF post[p].live
                                  THEN [post[p] EXCEPT !.st = st, !.dedup = d] ELSE NoPost]
  BY Zenon DEF Answer
<1>2. post[p] \in PostType /\ post \in [Posts -> PostType]
  BY Zenon DEF Typed
<1> QED
  BY Zenon, <1>1, <1>2 DEF PostType

\* What a relay's own step may do to a POST while nothing is lost, and what it
\* adds to the debt for it.
Served(p) ==
  /\ \A q \in Posts \ {p} : post'[q] = post[q]
  /\ post[p].st \in {"wire", "admitted"} /\ post'[p].dedup <= post'[p].frames
  /\ \/ post'[p] = NoPost /\ ~post[p].live
     \/ /\ post'[p].st \in {"bounced", "admitted", "answered"}
        /\ post'[p].live = post[p].live /\ post'[p].lane = post[p].lane
        /\ post'[p].frames = post[p].frames
  /\ \A l \in Lanes :
       /\ relay'[l].owed >= relay[l].owed
       /\ post'[p].st = "answered" /\ l = post[p].lane =>
            relay'[l].owed = relay[l].owed + Price_(post[p].frames - post'[p].dedup)

\* Every such step serves a POST, or is a fault.
LEMMA RelayServes ==
  ASSUME Typed, Phases, RelayLocal
  PROVE  /\ faults' \in {faults, faults + 1}
         /\ faults' = faults => \E p \in Posts : Served(p)
         /\ \A p \in Posts : /\ post'[p].live => post[p].live
                             /\ post'[p].dedup <= post'[p].frames
                             /\ post'[p].st = "free" => ~post'[p].live
<1>0. \A l \in Lanes : relay[l].owed \in Nat
  BY Zenon DEF Typed, RelayType
<1>1. \A p \in Posts : post[p] \in PostType /\ post[p].frames \in Nat /\ post[p].lane \in Lanes
                       /\ post[p].live \in BOOLEAN
  BY DEF Typed, PostType
<1>2. ASSUME NEW p \in Posts, RelayAdmit(p)
      PROVE  UNCHANGED faults /\ Served(p)
  <2>1. UNCHANGED faults /\ post[p].st = "wire"
    BY Zenon, <1>2 DEF RelayAdmit
  <2>2. CASE Answer(p, "bounced", 0) /\ UNCHANGED relay
    <3>1. /\ \A q \in Posts \ {p} : post'[q] = post[q]
          /\ IF post[p].live
             THEN /\ post'[p].st = "bounced" /\ post'[p].dedup = 0 /\ post'[p].live = post[p].live
                  /\ post'[p].lane = post[p].lane /\ post'[p].frames = post[p].frames
             ELSE post'[p] = NoPost
      BY Zenon, <2>2, AnswerIs
    <3>2. /\ post'[p].dedup <= post'[p].frames /\ post'[p].st # "answered"
          /\ \/ post'[p] = NoPost /\ ~post[p].live
             \/ /\ post'[p].st \in {"bounced", "admitted", "answered"}
                /\ post'[p].live = post[p].live /\ post'[p].lane = post[p].lane
                /\ post'[p].frames = post[p].frames
      BY <1>1, <3>1, FreePost
    <3>3. \A l \in Lanes : relay'[l].owed >= relay[l].owed
      BY <1>0, <2>2
    <3> QED
      BY Zenon, <2>1, <3>1, <3>2, <3>3 DEF Served
  <2>3. CASE /\ post' = [post EXCEPT ![p].st = "admitted"]
             /\ \E n : relay' = [relay EXCEPT ![post[p].lane].reserved = n]
    <3>1. /\ \A q \in Posts \ {p} : post'[q] = post[q]
          /\ post'[p] = [post[p] EXCEPT !.st = "admitted"]
      BY Zenon, <2>3 DEF Typed
    <3>2. /\ post'[p].st = "admitted" /\ post'[p].live = post[p].live
          /\ post'[p].lane = post[p].lane /\ post'[p].frames = post[p].frames
          /\ post'[p].dedup = post[p].dedup
      BY Zenon, <1>1, <3>1 DEF PostType
    <3>3. \A l \in Lanes : relay'[l].owed = relay[l].owed
      BY <1>1, <2>3 DEF Typed, RelayType
    <3> QED
      BY <1>0, <1>1, <2>1, <3>1, <3>2, <3>3 DEF Served, Phases
  <2> QED
    BY <1>2, <2>1, <2>2, <2>3, Zenon DEF RelayAdmit
<1>3. ASSUME NEW p \in Posts, RelayDrops(p)
      PROVE  /\ faults' = faults + 1
             /\ \A q \in Posts : /\ post'[q].live => post[q].live
                                 /\ post'[q].dedup <= post'[q].frames
                                 /\ post'[q].st = "free" => ~post'[q].live
  <2>1. Answer(p, "failed", 0) /\ faults' = faults + 1
    BY Zenon, <1>3 DEF RelayDrops, Fault
  <2>2. /\ \A q \in Posts \ {p} : post'[q] = post[q]
        /\ IF post[p].live
           THEN /\ post'[p].st = "failed" /\ post'[p].dedup = 0 /\ post'[p].live = post[p].live
                /\ post'[p].lane = post[p].lane /\ post'[p].frames = post[p].frames
           ELSE post'[p] = NoPost
    BY Zenon, <2>1, AnswerIs
  <2> QED
    BY SMTT(60), <1>1, <2>1, <2>2, FreePost DEF Phases
<1>4. ASSUME NEW p \in Posts, NEW d \in 0..MaxFrames, NEW whole \in BOOLEAN,
             NEW saved \in BOOLEAN, RelayCommit(p, d, whole, saved)
      PROVE  /\ faults' \in {faults, faults + 1}
             /\ faults' = faults => Served(p)
             /\ \A q \in Posts : /\ post'[q].live => post[q].live
                                 /\ post'[q].dedup <= post'[q].frames
                                 /\ post'[q].st = "free" => ~post'[q].live
  <2> DEFINE k == post[p].lane
             e == IF whole THEN d ELSE 0
             st == IF whole THEN "answered" ELSE "failed"
             bill == Price_(post[p].frames - d)
  <2>1. /\ Answer(p, st, e) /\ post[p].st = "admitted" /\ d <= post[p].frames /\ d \in Nat
        /\ faults' \in {faults, faults + 1}
    BY <1>4, FaultGrows DEF RelayCommit
  <2>2. /\ \A q \in Posts \ {p} : post'[q] = post[q]
        /\ IF post[p].live
           THEN /\ post'[p].st = st /\ post'[p].dedup = e /\ post'[p].live = post[p].live
                /\ post'[p].lane = post[p].lane /\ post'[p].frames = post[p].frames
           ELSE post'[p] = NoPost
    BY Zenon, <2>1, AnswerIs
  <2>3. \A q \in Posts : /\ post'[q].live => post[q].live
                         /\ post'[q].dedup <= post'[q].frames
                         /\ post'[q].st = "free" => ~post'[q].live
    BY SMTT(60), <1>1, <2>1, <2>2, FreePost DEF Phases
  <2>4. bill \in Nat
    BY Zenon, <1>1, <2>1, PriceSplit
  <2>5. relay'[k].owed = relay[k].owed + bill /\ \A l \in Lanes \ {k} : relay'[l] = relay[l]
    <3>1. PICK r, disk : relay' = [relay EXCEPT ![k] =
                           [relay[k] EXCEPT !.owed = relay[k].owed + bill, !.reserved = r, !.disk = disk]]
      BY Zenon, <1>4 DEF RelayCommit
    <3> HIDE DEF bill
    <3> QED
      BY Zenon, <1>1, <3>1 DEF Typed, RelayType
  <2> HIDE DEF bill
  <2>6. \A l \in Lanes : relay'[l].owed >= relay[l].owed
    BY SMTT(60), <1>0, <1>1, <2>4, <2>5
  <2>7. ASSUME faults' = faults PROVE Served(p)
    <3>1. whole
      BY <1>4, <2>7 DEF RelayCommit, Fault, Typed
    <3>2. post'[p].st = "answered" => post'[p].dedup = d
      BY Zenon, <2>2, <3>1, FreePost
    <3>3. \A l \in Lanes : post'[p].st = "answered" /\ l = k =>
                             relay'[l].owed = relay[l].owed + Price_(post[p].frames - post'[p].dedup)
      BY Zenon, <2>5, <3>2 DEF bill
    <3>4. \/ post'[p] = NoPost /\ ~post[p].live
          \/ /\ post'[p].st \in {"bounced", "admitted", "answered"}
             /\ post'[p].live = post[p].live /\ post'[p].lane = post[p].lane
             /\ post'[p].frames = post[p].frames
      BY Zenon, <1>1, <2>2, <3>1
    <3> QED
      BY Zenon, <2>1, <2>2, <2>3, <2>6, <3>3, <3>4 DEF Served
  <2> QED
    BY Zenon, <2>1, <2>3, <2>7
<1>5. ASSUME NEW k \in Lanes, RelayRestart(k)
      PROVE  /\ faults' = faults + 1
             /\ \A q \in Posts : /\ post'[q].live => post[q].live
                                 /\ post'[q].dedup <= post'[q].frames
                                 /\ post'[q].st = "free" => ~post'[q].live
  <2>1. faults' = faults + 1
    BY Zenon, <1>5 DEF RelayRestart, Fault
  <2>2. ASSUME NEW q \in Posts
        PROVE  /\ post'[q].live => post[q].live
               /\ post'[q].dedup <= post'[q].frames
               /\ post'[q].st = "free" => ~post'[q].live
    <3>1. post'[q] \in {post[q], NoPost, [post[q] EXCEPT !.st = "failed"]}
      BY Zenon, <1>5 DEF RelayRestart
    <3>2. CASE post'[q] = [post[q] EXCEPT !.st = "failed"]
      <4>1. /\ post'[q].st = "failed" /\ post'[q].live = post[q].live
            /\ post'[q].dedup = post[q].dedup /\ post'[q].frames = post[q].frames
        BY Zenon, <1>1, <3>2 DEF PostType
      <4> QED
        BY Zenon, <4>1 DEF Phases
    <3> QED
      BY <3>1, <3>2, FreePost DEF Phases
  <2> QED
    BY Zenon, <2>1, <2>2
<1>6. ASSUME NEW p \in Posts, Served(p)
      PROVE  \A q \in Posts : /\ post'[q].live => post[q].live
                              /\ post'[q].dedup <= post'[q].frames
                              /\ post'[q].st = "free" => ~post'[q].live
  BY SMTT(60), <1>6, FreePost DEF Served, Phases
<1>7. faults + 1 # faults
  BY DEF Typed
<1> QED
  BY Zenon, <1>2, <1>3, <1>4, <1>5, <1>6, <1>7 DEF RelayLocal

\* The relays' steps between payments.
LEMMA RelayLocalClaims ==
  ASSUME IInv, IInv', Phases, InStep, NoOverclaim, RelayLocal
  PROVE  Phases' /\ InStep' /\ NoOverclaim'
<1>0. Typed /\ Typed'
  BY Zenon, TypedIsTypeOK DEF IInv
<1>1. UNCHANGED <<acct, funded, store, drv, split>>
  BY Zenon, RelayLocalStep
<1>2. /\ faults' \in {faults, faults + 1}
      /\ faults' = faults => \E p \in Posts : Served(p)
      /\ \A p \in Posts : /\ post'[p].live => post[p].live
                          /\ post'[p].dedup <= post'[p].frames
                          /\ post'[p].st = "free" => ~post'[p].live
  BY Zenon, <1>0, RelayServes
<1>3. faults' = 0 => faults = 0
  BY <1>0, <1>2 DEF Typed
<1>4. Closed' <=> Closed
  BY Zenon, <1>1 DEF Closed
<1>5. ASSUME NEW p \in Posts, Served(p), faults = 0
      PROVE  \A q \in Posts : post'[q].st # "failed"
  BY Zenon, <1>5, FreePost DEF Served, Phases
<1>6. Phases'
  <2>1. faults' = 0 => \A q \in Posts : post'[q].st # "failed"
    BY Zenon, <1>2, <1>3, <1>5
  <2>2. drv'.st = "setup" \/ Closed' => \A p \in Posts : ~post'[p].live
    BY Zenon, <1>1, <1>2, <1>4 DEF Phases
  <2>3. faults' = 0 => \A l \in Lanes : acct'[l].cap = Line \/ (drv'.st = "setup" /\ l \in drv'.left)
    BY Zenon, <1>1, <1>3 DEF Phases
  <2>4. drv'.st \in {"setup", "loop", "reconcile"} => drv'.job.why # "final"
    BY Zenon, <1>1 DEF Phases
  <2> QED
    BY Zenon, <1>2, <2>1, <2>2, <2>3, <2>4 DEF Phases
<1>7. NoOverclaim'
  BY Zenon, <1>1, <1>3 DEF NoOverclaim, Alone
<1>8. ASSUME faults' = 0, ~Closed' PROVE PaysAll' /\ \A l \in Lanes : Balanced(l)'
  <2>1. PaysAll /\ \A l \in Lanes : Balanced(l)
    BY Zenon, <1>3, <1>4, <1>8 DEF InStep
  <2>2. PaysAll'
    BY Zenon, <1>1, <2>1 DEF PaysAll, next_cumulative
  <2>3. PICK p \in Posts : Served(p)
    BY Zenon, <1>2, <1>3, <1>8
  <2> DEFINE n == post[p].frames
             e == post'[p].dedup
  <2>4. ASSUME NEW l \in Lanes PROVE Balanced(l)'
    <3>1. /\ Sent(l) \in Nat /\ Sent(l)' \in Nat /\ Unread(l) \in Nat /\ Unread(l)' \in Nat
          /\ SentShare(p, l) \in Nat
          /\ Sent(l) + SentShare(p, l)' = Sent(l)' + SentShare(p, l)
          /\ Unread(l) + UnreadShare(p, l)' = Unread(l)' + UnreadShare(p, l)
      BY SMTT(60), <1>0, <1>2, <2>3, OneMoves DEF Phases, Served
    <3>2. SentShare(p, l)' = SentShare(p, l)
      BY Zenon, <2>3, FreePost DEF Served, SentShare, Live
    <3>3. UnreadShare(p, l) = 0
      BY Zenon, <2>3 DEF Served, UnreadShare
    <3>4. Owing(l)' = Owing(l) /\ Owing(l) \in Nat /\ acct'[l].pending = acct[l].pending
      BY Zenon, <1>0, <1>1 DEF Owing, Typed, AccountType
    <3>5. relay[l].owed \in Nat /\ relay'[l].owed \in Nat /\ relay'[l].owed >= relay[l].owed
      BY Zenon, <1>0, <2>3 DEF Typed, RelayType, Served
    <3>6. relay[l].owed + UnreadShare(p, l)' <= relay'[l].owed
      <4>1. CASE UnreadShare(p, l)' = 0
        BY <3>5, <4>1
      <4>2. CASE UnreadShare(p, l)' # 0
        <5>1. /\ l = post'[p].lane /\ post'[p].live /\ post'[p].st = "answered"
              /\ UnreadShare(p, l)' = Price_(post'[p].frames) - Price_(e)
          BY Zenon, <4>2 DEF UnreadShare, Live
        <5>2. l = post[p].lane /\ post'[p].frames = n
          BY <2>3, <5>1, FreePost, Zenon DEF Served
        <5>3. relay'[l].owed = relay[l].owed + Price_(n - e)
          BY Zenon, <2>3, <5>1, <5>2 DEF Served
        <5>4. n \in Nat /\ e \in Nat /\ e <= n
          BY SMTT(60), <1>0, <1>2, <5>2 DEF Typed, PostType
        <5> HIDE DEF n, e
        <5>5. /\ Price_(n) \in Nat /\ Price_(e) \in Nat /\ Price_(n - e) \in Nat
              /\ Price_(n) <= Price_(n - e) + Price_(e)
          BY Zenon, <5>4, PriceSplit
        <5>6. UnreadShare(p, l)' = Price_(n) - Price_(e)
          BY Zenon, <5>1, <5>2
        <5> QED
          BY <3>5, <5>3, <5>5, <5>6
      <4> QED
        BY Zenon, <4>1, <4>2
    <3>7. acct'[l].pending = Sent(l)'
      BY <2>1, <3>1, <3>2, <3>4 DEF Balanced
    <3>8. UnreadShare(p, l)' = Unread(l)' - Unread(l)
      <4>1. UnreadShare(p, l)' \in Nat
        BY Zenon, <1>0, <1>2, <2>3, OneMoves DEF Phases, Served
      <4> QED
        BY <3>1, <3>3, <4>1
    <3>9. ASSUME Alone(l) PROVE Owing(l)' + Unread(l)' <= relay'[l].owed
      <4>1. Owing(l) + Unread(l) <= relay[l].owed
        BY Zenon, <2>1, <3>9 DEF Balanced
      <4> QED
        BY SMTT(60), <3>1, <3>4, <3>5, <3>6, <3>8, <4>1
    <3> QED
      BY Zenon, <3>7, <3>9 DEF Balanced, Alone
  <2> QED
    BY Zenon, <2>2, <2>4
<1> QED
  BY Zenon, <1>6, <1>7, <1>8 DEF InStep

\* A payment reaches the relay.
LEMMA RelayPayClaims ==
  ASSUME IInv, IInv', Phases, InStep, Corrects, RelayPay
  PROVE  Phases' /\ InStep' /\ NoOverclaim'
<1> DEFINE k == drv.job.lane
           verdict == Verdict(k, drv.cum)
           delta == drv.cum - relay[k].last
           owed == monus(relay[k].owed, delta)
<1>0. Typed /\ Typed'
  BY Zenon, TypedIsTypeOK DEF IInv
<1>1. /\ k \in Lanes /\ drv.cum \in Nat /\ relay[k] \in RelayType /\ acct[k] \in AccountType
  BY Zenon, <1>0 DEF Typed, DriverType, JobType
<1>2. verdict \in {"nothing", "refused", "exceeds", "accepted"}
  BY Zenon DEF Verdict
<1>3. /\ drv.st = "asked" /\ drv' = [drv EXCEPT !.st = verdict]
      /\ UNCHANGED <<acct, funded, store, post, billed, faults, split>>
  BY Zenon DEF RelayPay
<1>4. /\ verdict = "accepted" =>
           /\ relay' = [relay EXCEPT ![k] = [@ EXCEPT !.owed = owed, !.disk = owed, !.last = drv.cum]]
           /\ delta <= relay[k].owed
      /\ verdict # "accepted" => UNCHANGED relay
      /\ verdict = "nothing" => relay[k].owed = 0
      /\ verdict = "exceeds" => delta > relay[k].owed
  <2>1. /\ verdict = "accepted" => ~(delta > relay[k].owed)
        /\ verdict = "nothing" => relay[k].owed = 0
        /\ verdict = "exceeds" => delta > relay[k].owed
    BY Zenon DEF Verdict
  <2>2. delta \in Int /\ relay[k].owed \in Int
    BY <1>1 DEF RelayType
  <2>3. delta > relay[k].owed \/ delta <= relay[k].owed
    <3> HIDE DEF delta
    <3> QED
      BY <2>2
  <2> QED
    BY Zenon, <2>1, <2>3 DEF RelayPay
<1> HIDE DEF verdict
<1>5. drv'.st = verdict /\ drv'.job = drv.job /\ drv'.cum = drv.cum /\ drv'.left = drv.left
  BY Zenon, <1>0, <1>2, <1>3 DEF Typed, DriverType
<1>6. Closed' <=> Closed
  BY Zenon, <1>2, <1>3, <1>5 DEF Closed
<1>7. Phases'
  BY Zenon, <1>2, <1>3, <1>5, <1>6 DEF Phases
<1>8. ASSUME faults = 0, ~Closed, Alone(k)
      PROVE  /\ acct[k].owed + Unread(k) <= relay[k].owed /\ Unread(k) \in Nat
             /\ acct[k].owed \in Nat /\ acct[k].owed >= 1
             /\ delta <= acct[k].owed
  <2>1. PaysAll /\ Balanced(k)
    BY Zenon, <1>1, <1>8 DEF InStep
  <2>2. acct[k].owed + Unread(k) <= relay[k].owed /\ acct[k].owed >= 1
        /\ drv.cum = acct[k].cumulative + acct[k].owed
    BY Zenon, <1>3, <1>8, <2>1 DEF PaysAll, Balanced, Owing, next_cumulative
  <2>3. Unread(k) \in Nat
    BY Zenon, <1>0, <1>1, Totals DEF Phases
  <2>4. acct[k].cumulative <= relay[k].last
    BY Zenon, <1>1, <1>8 DEF Corrects
  <2>5. delta <= acct[k].owed
    BY SMTT(60), <1>1, <2>2, <2>4 DEF AccountType, RelayType
  <2> QED
    BY Zenon, <1>1, <2>2, <2>3, <2>5 DEF AccountType
<1>9. NoOverclaim'
  <2>1. SUFFICES ASSUME faults = 0, Alone(k), verdict \in {"exceeds", "nothing"}, ~Closed
                 PROVE  FALSE
    BY Zenon, <1>3, <1>5 DEF NoOverclaim, Closed, Alone
  <2>2. relay[k].owed \in Nat /\ delta \in Int
    BY <1>1 DEF RelayType
  <2> HIDE DEF delta
  <2> QED
    BY SMTT(60), <1>4, <1>8, <2>1, <2>2
<1>10. ASSUME faults' = 0, ~Closed' PROVE PaysAll' /\ \A l \in Lanes : Balanced(l)'
  <2>1. PaysAll /\ \A l \in Lanes : Balanced(l)
    BY Zenon, <1>3, <1>6, <1>10 DEF InStep
  <2>2. PaysAll'
    BY Zenon, <1>3, <1>5, <2>1 DEF PaysAll, next_cumulative
  <2>3. ASSUME NEW l \in Lanes PROVE Balanced(l)'
    <3>1. Sent(l)' = Sent(l) /\ Unread(l)' = Unread(l)
      BY Zenon, <1>3 DEF Sent, Unread, SentShare, UnreadShare, Live
    <3>2. CASE l = k /\ verdict = "accepted"
      <4>1. Owing(l)' = 0
        BY Zenon, <1>5, <3>2 DEF Owing
      <4>2. relay'[k].owed = owed
        <5> HIDE DEF owed, delta, k
        <5>1. relay'[k] = [relay[k] EXCEPT !.owed = owed, !.disk = owed, !.last = drv.cum]
          BY Zenon, <1>0, <1>1, <1>4, <3>2 DEF Typed
        <5> QED
          BY Zenon, <1>1, <5>1 DEF RelayType
      <4>3. ASSUME Alone(k) PROVE 0 + Unread(k) <= owed
        <5>1. relay[k].owed \in Nat /\ delta \in Int
          BY <1>1 DEF RelayType
        <5> HIDE DEF delta
        <5> QED
          BY SMTT(60), <1>3, <1>6, <1>8, <1>10, <4>3, <5>1 DEF monus
      <4> HIDE DEF owed
      <4> QED
        BY Zenon, <1>3, <2>1, <3>1, <3>2, <4>1, <4>2, <4>3 DEF Balanced, Alone
    <3>3. CASE ~(l = k /\ verdict = "accepted")
      <4>1. relay'[l] = relay[l]
        BY Zenon, <1>0, <1>4, <3>3 DEF Typed
      <4>2. Owing(l)' = Owing(l)
        BY Zenon, <1>3, <1>5, <3>3 DEF Owing
      <4> QED
        BY Zenon, <1>3, <2>1, <3>1, <4>1, <4>2 DEF Balanced, Alone
    <3> QED
      BY Zenon, <3>2, <3>3
  <2> QED
    BY Zenon, <2>2, <2>3
<1> QED
  BY Zenon, <1>7, <1>9, <1>10 DEF InStep

-----------------------------------------------------------------------------
\* Corrections.

\* A payee's only relay holds whatever the store has recorded for it.
LEMMA RecordedIsHeld ==
  ASSUME IInv, NEW l \in Lanes, Alone(l)
  PROVE  store.mem[Payee[l]] <= relay[l].last /\ store.disk[Payee[l]] <= relay[l].last
<1> DEFINE b == Payee[l]
<1>1. b \in Payees /\ store.mem[b] \in Nat /\ store.disk[b] \in Nat /\ relay[l].last \in Nat
  BY Zenon, TypedIsTypeOK DEF IInv, Typed, StoreType, RelayType
<1>2. ASSUME NEW n \in {store.mem[b], store.disk[b]} PROVE n <= relay[l].last
  <2>1. CASE n = 0
    BY <1>1, <2>1
  <2>2. CASE n > 0
    <3>1. PICK m \in Lanes : Payee[m] = b /\ relay[m].last >= n
      BY Zenon, <1>1, <1>2, <2>2 DEF IInv, RecordedWasAccepted
    <3>2. m = l
      BY Zenon, <3>1 DEF Alone
    <3> QED
      BY Zenon, <1>1, <1>2, <3>1, <3>2
  <2> QED
    BY <1>1, <1>2, <2>1, <2>2
<1> QED
  BY Zenon, <1>2

\* Between payments the driver takes a cumulative from the store only, and only
\* a correction presents a cheque for the second time.
LEMMA DriverCumulative ==
  ASSUME Typed, Phases, DriverLocal
  PROVE  /\ \A l \in Lanes : acct'[l].cumulative \in {acct[l].cumulative, store.mem[Payee[l]]}
         /\ drv'.st = "asked" /\ ~drv'.once => PayCorrect
<1> DEFINE From == \A l \in Lanes : acct'[l].cumulative \in {acct[l].cumulative, store.mem[Payee[l]]}
           Second == drv'.st = "asked" /\ ~drv'.once
<1>0. TypeOK
  BY Zenon, TypedIsTypeOK
<1>1. ASSUME NEW job \in JobType, NEW a \in AccountType, NEW f, settle(job, a, f),
             a.cumulative = acct[job.lane].cumulative
      PROVE  From /\ ~Second
  <2>1. /\ acct'[job.lane].cumulative \in {a.cumulative, store.mem[Payee[job.lane]]}
        /\ \A l \in Lanes \ {job.lane} : acct'[l] = acct[l]
    BY Zenon, <1>1, SettleLeads
  <2>2. drv'.st \in {"loop", "final", "reconcile"} \/ \E b : Asked(job, b, TRUE)
    BY <1>0, <1>1, SettleEnds, Zenon
  <2> QED
    BY Zenon, <1>1, <2>1, <2>2 DEF Asked
<1>2. ASSUME NEW l \in Lanes, NEW c \in BOOLEAN, NEW d \in BOOLEAN, SetupLane(l, c, d)
      PROVE  From /\ ~Second
  <2> DEFINE a == [acct[l] EXCEPT !.cap = IF c THEN Line ELSE 0]
             b == adopt_relay_debt(a, relay[l].owed)
  <2>1. a \in AccountType /\ a.cumulative = acct[l].cumulative /\ relay[l].owed \in Nat
    BY SMTT(60) DEF Typed, AccountType, RelayType
  <2>2. acct' = [acct EXCEPT ![l] = a] \/ acct' = [acct EXCEPT ![l] = b]
    BY <1>2, Zenon DEF SetupLane
  <2> HIDE DEF a
  <2>3. b.cumulative = a.cumulative
    BY <2>1, AdoptQuiet, SMTT(60)
  <2> HIDE DEF b
  <2>4. acct'[l] \in {a, b} /\ \A m \in Lanes \ {l} : acct'[m] = acct[m]
    BY Zenon, <2>2 DEF Typed
  <2>5. drv'.st \in {"setup", "loop"}
    BY Zenon, <1>2, DriverStates DEF SetupLane, Typed, DriverType
  <2> QED
    BY Zenon, <2>1, <2>3, <2>4, <2>5
<1>3. ASSUME NEW l \in Lanes, LoopSettle(l) \/ FinalSettle(l) PROVE From /\ ~Second
  <2>1. PICK job \in JobType : job.lane = l /\ settle(job, acct[l], funded)
    <3>1. /\ Job(l, "headroom", 0) \in JobType /\ Job(l, "headroom", 0).lane = l
          /\ Job(l, "final", 0) \in JobType /\ Job(l, "final", 0).lane = l
      BY JobIs
    <3> QED
      BY Zenon, <1>3, <3>1 DEF LoopSettle, FinalSettle
  <2>2. acct[l] \in AccountType
    BY Zenon DEF Typed
  <2> QED
    BY Zenon, <1>1, <2>1, <2>2
<1>4. ASSUME NEW l \in Lanes, NEW n \in 1..MaxFrames, DispatchSettle(l, n)
      PROVE  From /\ ~Second
  <2> DEFINE job == Job(l, "dispatch", n)
  <2>1. job \in JobType /\ job.lane = l /\ acct[l] \in AccountType
    BY JobIs DEF Typed
  <2>2. settle(job, acct[l], funded) \/ (UNCHANGED <<acct, drv>> /\ drv.st = "loop")
    BY Zenon, <1>4 DEF DispatchSettle
  <2> HIDE DEF job
  <2>3. CASE UNCHANGED <<acct, drv>> /\ drv.st = "loop"
    BY Zenon, <2>3
  <2> QED
    BY Zenon, <1>1, <2>1, <2>2, <2>3
<1>5. ASSUME NEW l \in Lanes, NEW p \in Posts, NEW n \in 1..MaxFrames, Send(l, p, n)
      PROVE  From /\ ~Second
  <2> DEFINE a == record_sent([acct[l] EXCEPT !.cap = Line], n)
  <2>1. acct'[l] = a /\ \A m \in Lanes \ {l} : acct'[m] = acct[m]
    BY Zenon, <1>5 DEF Send, Typed
  <2>2. a.cumulative = acct[l].cumulative
    <3>1. acct[l] \in AccountType
      BY Zenon DEF Typed
    <3> QED
      BY Zenon, <3>1 DEF record_sent, AccountType
  <2>3. drv'.st = "loop"
    BY Zenon, <1>5 DEF Send
  <2> HIDE DEF a
  <2> QED
    BY Zenon, <2>1, <2>2, <2>3
<1>6. ASSUME NEW p \in Posts, Done(p) PROVE From /\ ~Second
  <2> DEFINE k == post[p].lane
  <2>1. /\ k \in Lanes /\ \A l \in Lanes \ {k} : acct'[l] = acct[l]
        /\ acct'[k].cumulative \in {acct[k].cumulative, store.mem[Payee[k]]}
    BY Zenon, <1>6, DoneEffect
  <2>2. From
    BY Zenon, <2>1
  <2>3. ~Second
    <3> DEFINE refused == post[p].st = "bounced"
               a == record_answered(acct[k], post[p].frames, ~refused)
               b == refund_dedup(a, post[p].dedup)
               g == [funded EXCEPT ![k] = ~refused /\ (@ \/ post[p].st = "answered")]
    <3>1. post[p].frames \in Nat /\ post[p].dedup \in Nat /\ refused \in BOOLEAN
      BY DEF Typed, PostType
    <3>2. a \in AccountType
      BY <2>1, <3>1, AccountOps, Zenon DEF Typed
    <3>3. b \in AccountType
      BY <3>1, <3>2, AccountOps, Zenon
    <3>4. \/ settle(Job(k, "402", 0), a, g)
          \/ settle(Job(k, "window", 0), b, g)
          \/ UNCHANGED drv /\ drv.st = "loop"
      BY Zenon, <1>6 DEF Done
    <3>5. Job(k, "402", 0) \in JobType /\ Job(k, "window", 0) \in JobType
      BY SMTT(60), <2>1, Jobs
    <3> HIDE DEF a, b, g, k
    <3>6. ASSUME NEW job \in JobType, NEW c \in AccountType, settle(job, c, g) PROVE ~Second
      <4>1. drv'.st \in {"loop", "final", "reconcile"} \/ \E x : Asked(job, x, TRUE)
        BY <1>0, <3>6, SettleEnds, Zenon
      <4> QED
        BY Zenon, <4>1 DEF Asked
    <3> QED
      BY Zenon, <3>2, <3>3, <3>4, <3>5, <3>6
  <2> QED
    BY Zenon, <2>2, <2>3
<1>7. ASSUME Finish \/ Stall PROVE From /\ ~Second
  <2>1. drv'.st \in {"final", "over"}
    BY Zenon, <1>7, DriverStates DEF Finish, Stall, DriverType
  <2>2. ASSUME NEW l \in Lanes PROVE acct'[l].cumulative = acct[l].cumulative
    <3>1. acct'[l] = acct[l]
          \/ acct'[l] = [acct[l] EXCEPT !.pending = 0, !.owed = @ + acct[l].pending]
      BY Zenon, <1>7 DEF Finish, Stall
    <3>2. acct[l] \in AccountType
      BY Zenon DEF Typed
    <3> QED
      BY <3>1, <3>2, Zenon DEF AccountType
  <2> QED
    BY Zenon, <2>1, <2>2
<1>8. drv \in DriverType /\ drv.job \in JobType /\ drv.job.lane \in Lanes
      /\ acct[drv.job.lane] \in AccountType /\ relay[drv.job.lane].owed \in Nat
  BY Zenon DEF Typed, DriverType, JobType, RelayType
<1>9. ASSUME PayNothing PROVE From /\ ~Second
  <2>1. \E a : Unpayable(drv.job, a, funded)
    BY Zenon, <1>9 DEF PayNothing
  <2>2. drv'.st \in {"loop", "final", "reconcile"}
    BY Zenon, <1>8, <2>1, UnpayableEnds
  <2>3. acct' = [acct EXCEPT ![drv.job.lane] = [acct[drv.job.lane] EXCEPT !.owed = 0]]
    BY Zenon, <1>9 DEF PayNothing
  <2>4. From
    BY Zenon, <1>8, <2>3 DEF Typed, AccountType
  <2> QED
    BY Zenon, <2>2, <2>4
<1>10. ASSUME PayCorrect PROVE From
  <2>1. acct' = [acct EXCEPT ![drv.job.lane] =
                   [acct[drv.job.lane] EXCEPT !.owed = relay[drv.job.lane].owed]]
    BY Zenon, <1>10 DEF PayCorrect
  <2> QED
    BY Zenon, <1>8, <2>1 DEF Typed, AccountType
<1>11. ASSUME PayRefused \/ PayFails PROVE From /\ ~Second
  <2>1. Return(drv.job, acct[drv.job.lane], funded) /\ UNCHANGED acct
    BY Zenon, <1>11 DEF PayRefused, PayFails
  <2>2. drv'.st \in {"loop", "final"}
    BY Zenon, <1>8, <2>1, ReturnEnds
  <2> QED
    BY Zenon, <2>1, <2>2
<1>12. ASSUME NEW got \in BOOLEAN, Reconcile(got) PROVE From /\ ~Second
  <2> DEFINE k == drv.job.lane
             a == adopt_relay_debt(acct[k], relay[k].owed)
             again == Job(k, "again", 0)
  <2>1. again \in JobType /\ again.lane = k
    BY <1>8, JobIs
  <2>2. a \in AccountType /\ a.cumulative = acct[k].cumulative
    BY <1>8, AdoptQuiet, Zenon
  <2>3. \/ Return(drv.job, acct[k], funded) /\ UNCHANGED acct
        \/ settle(again, a, funded)
        \/ Unpayable(again, a, funded) /\ UNCHANGED acct
    BY Zenon, <1>12 DEF Reconcile
  <2> HIDE DEF a, again
  <2>4. CASE settle(again, a, funded)
    BY Zenon, <1>1, <2>1, <2>2, <2>4
  <2>5. CASE (Return(drv.job, acct[k], funded) \/ Unpayable(again, a, funded)) /\ UNCHANGED acct
    <3>1. drv'.st \in {"loop", "final", "reconcile"}
      BY Zenon, <1>8, <2>1, <2>5, ReturnEnds, UnpayableEnds
    <3> QED
      BY Zenon, <2>5, <3>1
  <2> QED
    BY Zenon, <2>3, <2>4, <2>5
<1> QED
  BY Zenon, <1>2, <1>3, <1>4, <1>5, <1>6, <1>7, <1>9, <1>10, <1>11, <1>12 DEF DriverLocal

\* The driver's own steps.
LEMMA DriverCorrects ==
  ASSUME IInv, Phases, Corrects, DriverLocal
  PROVE  Corrects' /\ CorrectionSuffices' /\ NoOverclaim'
<1>0. Typed
  BY Zenon, TypedIsTypeOK DEF IInv
<1>1. Typed' /\ drv'.st # "accepted" /\ UNCHANGED <<relay, billed, store>>
  BY Zenon, DriverLocalType
<1>2. Presented
  BY Zenon, DriverMoves
<1>3. /\ \A l \in Lanes : acct'[l].cumulative \in {acct[l].cumulative, store.mem[Payee[l]]}
      /\ drv'.st = "asked" /\ ~drv'.once => PayCorrect
  BY Zenon, <1>0, DriverCumulative
<1>4. faults' \in {faults, faults + 1}
  BY ZenonT(60), FaultGrows
  DEF DriverLocal, SetupLane, LoopSettle, DispatchSettle, Send, FinalSettle, Done, Finish,
      Stall, PayNothing, PayCorrect, PayRefused, PayFails, Reconcile
<1>5. drv'.st \notin {"exceeds", "nothing"}
  BY Zenon, <1>2 DEF Presented, Presenting, Asked
<1>6. ASSUME NEW l \in Lanes, Alone(l) PROVE acct'[l].cumulative <= relay'[l].last
  <2>1. acct[l].cumulative <= relay[l].last /\ store.mem[Payee[l]] <= relay[l].last
    BY Zenon, <1>6, RecordedIsHeld DEF Corrects
  <2> QED
    BY Zenon, <1>1, <1>3, <2>1
<1>7. ASSUME NEW l \in Lanes, relay'[l].disk # relay'[l].owed PROVE faults' >= 1
  <2>1. faults >= 1
    BY Zenon, <1>1, <1>7 DEF Corrects
  <2> QED
    BY <1>0, <1>4, <2>1 DEF Typed
<1>8. ASSUME drv'.st = "asked", ~drv'.once, Alone(drv'.job.lane)
      PROVE  drv'.cum <= relay'[drv'.job.lane].last + relay'[drv'.job.lane].owed
  <2> DEFINE k == drv.job.lane
             l == drv'.job.lane
             a == [acct[k] EXCEPT !.owed = relay[k].owed]
  <2>0. l \in Lanes /\ k \in Lanes
    BY Zenon, <1>0, <1>1 DEF Typed, DriverType, JobType
  <2>1. acct'[k].owed = relay[k].owed
    <3>1. acct' = [acct EXCEPT ![k] = a]
      BY <1>3, <1>8, Zenon DEF PayCorrect
    <3>2. acct'[k] = a /\ acct[k] \in AccountType
      BY Zenon, <1>0, <2>0, <3>1 DEF Typed
    <3> QED
      BY Zenon, <3>2 DEF AccountType
  <2>2. l = k
    <3>1. Leads(drv.job) \/ drv'.job = drv.job
      <4>1. PayCorrect
        BY Zenon, <1>3, <1>8
      <4>2. drv.job \in JobType /\ drv \in DriverType
        BY Zenon, <1>0 DEF Typed, DriverType
      <4>3. \E b : Unpayable(drv.job, b, funded) \/ Present(drv.job, b, funded, FALSE)
        BY <4>1, Zenon DEF PayCorrect
      <4>4. ASSUME NEW b, Unpayable(drv.job, b, funded) PROVE Leads(drv.job)
        BY Zenon, <4>2, <4>4, UnpayableEnds DEF Leads
      <4>5. ASSUME NEW b, Present(drv.job, b, funded, FALSE), ~Return(drv.job, b, funded)
            PROVE  drv'.job = drv.job
        BY <4>2, <4>5, Zenon DEF Present, DriverType
      <4>6. ASSUME NEW b, Return(drv.job, b, funded) PROVE Leads(drv.job)
        BY Zenon, <4>2, <4>6, ReturnEnds DEF Leads
      <4> QED
        BY <4>3, <4>4, <4>5, <4>6, Zenon
    <3>2. ASSUME Leads(drv.job) PROVE drv'.job = drv.job
      BY Zenon, <1>8, <3>2, Resting DEF Leads, Ended, Asked
    <3> QED
      BY Zenon, <3>1, <3>2
  <2>3. drv'.cum = acct'[l].cumulative + acct'[l].owed
    BY Zenon, <1>2, <1>8 DEF Presented, Presenting, Asked, next_cumulative
  <2>4. acct'[l].cumulative <= relay'[l].last
    BY Zenon, <1>6, <1>8, <2>0
  <2>5. acct'[l].cumulative \in Nat /\ relay[l].owed \in Nat /\ relay[l].last \in Nat
    BY Zenon, <1>0, <1>1, <2>0 DEF Typed, AccountType, RelayType
  <2> HIDE DEF k, l
  <2>6. drv'.cum <= relay'[l].last + relay'[l].owed
    BY <1>1, <2>1, <2>2, <2>3, <2>4, <2>5
  <2> QED
    BY Zenon, <2>6 DEF l
<1>9. Corrects'
  BY Zenon, <1>6, <1>7, <1>8 DEF Corrects, Alone
<1> QED
  BY Zenon, <1>5, <1>9 DEF CorrectionSuffices, NoOverclaim

\* Recording an accepted cheque, and a new run.
LEMMA RecordCorrects ==
  ASSUME IInv, IInv', Corrects, drv'.st \in {"loop", "final", "setup"},
         (\E saved \in BOOLEAN : PayAccepted(saved)) \/ NewRun \/ Crash
  PROVE  Corrects' /\ CorrectionSuffices'
<1>0. Typed /\ Typed'
  BY Zenon, TypedIsTypeOK DEF IInv
<1>1. UNCHANGED relay /\ faults' \in {faults, faults + 1}
  BY Zenon, FaultGrows DEF PayAccepted, NewRun, Crash, Restarted
<1>2. ASSUME NEW l \in Lanes, Alone(l) PROVE acct'[l].cumulative <= relay'[l].last
  <2>1. CASE NewRun \/ Crash
    <3>1. acct'[l].cumulative = store.disk[Payee[l]]
      BY <2>1 DEF NewRun, Crash, Restarted, NewAccount
    <3> QED
      BY Zenon, <1>1, <1>2, <3>1, RecordedIsHeld
  <2>2. ASSUME NEW saved \in BOOLEAN, PayAccepted(saved)
        PROVE  acct'[l].cumulative <= relay'[l].last
    <3> DEFINE k == drv.job.lane
               a == settled(acct[k], drv.cum)
    <3>1. /\ k \in Lanes /\ acct[k] \in AccountType /\ drv.st = "accepted" /\ drv.cum \in Nat
          /\ relay[k].last \in Nat
      BY Zenon, <1>0, <2>2 DEF PayAccepted, Typed, DriverType, JobType, RelayType
    <3>2. acct'[k] = a /\ \A m \in Lanes \ {k} : acct'[m] = acct[m]
      BY Zenon, <1>0, <2>2, <3>1 DEF PayAccepted, Typed
    <3>3. a.cumulative = drv.cum
      BY Zenon, <3>1 DEF settled, AccountType
    <3> HIDE DEF a
    <3>4. CASE l = k
      <4>1. relay[k].last >= drv.cum
        BY Zenon, <3>1 DEF IInv, Books_
      <4> QED
        BY Zenon, <1>1, <3>1, <3>2, <3>3, <3>4, <4>1
    <3>5. CASE l # k
      BY Zenon, <1>1, <1>2, <3>2, <3>5 DEF Corrects
    <3> QED
      BY Zenon, <3>4, <3>5
  <2> QED
    BY Zenon, <2>1, <2>2
<1>3. ASSUME NEW l \in Lanes, relay'[l].disk # relay'[l].owed PROVE faults' >= 1
  <2>1. faults >= 1
    BY Zenon, <1>1, <1>3 DEF Corrects
  <2> QED
    BY <1>0, <1>1, <2>1 DEF Typed
<1>4. Corrects'
  BY Zenon, <1>2, <1>3 DEF Corrects, Alone
<1> QED
  BY Zenon, <1>4 DEF CorrectionSuffices

\* What a relay's own step does to its debt: the file falls behind, or debt is
\* forgotten, only by a fault.
LEMMA RelayDebt ==
  ASSUME IInv, Corrects, RelayLocal, NEW l \in Lanes
  PROVE  /\ faults' \in {faults, faults + 1}
         /\ relay'[l].disk # relay'[l].owed => faults' >= 1
         /\ relay'[l].owed >= relay[l].owed \/ faults' > 1
<1>0. Typed
  BY Zenon, TypedIsTypeOK DEF IInv
<1>1. /\ relay[l].owed \in Nat /\ relay[l].disk \in Nat /\ relay[l] \in RelayType
      /\ faults \in Nat /\ (relay[l].disk # relay[l].owed => faults >= 1)
  BY <1>0 DEF Typed, RelayType, Corrects
<1>2. ASSUME NEW p \in Posts, RelayAdmit(p) \/ RelayDrops(p)
      PROVE  /\ faults' \in {faults, faults + 1}
             /\ relay'[l].owed = relay[l].owed /\ relay'[l].disk = relay[l].disk
  <2>1. \E n : relay' \in {relay, [relay EXCEPT ![post[p].lane].reserved = n]}
    BY <1>2, Zenon DEF RelayAdmit, RelayDrops
  <2>2. relay'[l].owed = relay[l].owed /\ relay'[l].disk = relay[l].disk
    BY <1>0, <2>1 DEF Typed, RelayType
  <2> QED
    BY Zenon, <1>2, <2>2, FaultGrows DEF RelayAdmit, RelayDrops
<1>3. ASSUME NEW p \in Posts, NEW d \in 0..MaxFrames, NEW whole \in BOOLEAN,
             NEW saved \in BOOLEAN, RelayCommit(p, d, whole, saved)
      PROVE  /\ faults' \in {faults, faults + 1}
             /\ relay'[l].disk # relay'[l].owed => faults' >= 1
             /\ relay'[l].owed >= relay[l].owed
  <2> DEFINE k == post[p].lane
             bill == Price_(post[p].frames - d)
             owed == relay[k].owed + bill
             disk == IF saved THEN owed ELSE relay[k].disk
  <2>1. k \in Lanes /\ post[p].frames \in Nat /\ d \in Nat /\ d <= post[p].frames
        /\ relay[k].owed \in Nat /\ relay[k] \in RelayType
    BY SMTT(60), <1>0, <1>3 DEF Typed, PostType, RelayCommit, RelayType
  <2>2. bill \in Nat
    BY <2>1, PriceSplit, SMTT(60)
  <2>3. PICK r : relay' = [relay EXCEPT ![k] = [relay[k] EXCEPT !.owed = owed, !.reserved = r,
                                                                !.disk = disk]]
    BY Zenon, <1>3 DEF RelayCommit
  <2>4. owed \in Nat /\ owed >= relay[k].owed
    BY SMTT(60), <2>1, <2>2
  <2>5. faults' \in {faults, faults + 1} /\ (~saved => faults' = faults + 1)
    BY Zenon, <1>3, FaultGrows DEF RelayCommit, Fault
  <2>6. disk # owed => ~saved
    BY Zenon
  <2> HIDE DEF bill, owed, disk
  <2>7. CASE l = k
    <3>1. relay'[l].owed = owed /\ relay'[l].disk = disk
      BY Zenon, <1>0, <2>1, <2>3, <2>7 DEF Typed, RelayType
    <3> QED
      BY SMTT(60), <1>1, <2>4, <2>5, <2>6, <2>7, <3>1
  <2>8. CASE l # k
    <3>1. relay'[l] = relay[l]
      BY Zenon, <1>0, <2>3, <2>8 DEF Typed
    <3> QED
      BY <1>1, <2>5, <3>1
  <2> QED
    BY Zenon, <2>7, <2>8
<1>4. ASSUME NEW k \in Lanes, RelayRestart(k)
      PROVE  /\ faults' = faults + 1
             /\ relay'[l].owed >= relay[l].owed \/ faults' > 1
  <2>1. faults' = faults + 1
        /\ relay' = [relay EXCEPT ![k] = [@ EXCEPT !.owed = relay[k].disk, !.reserved = 0]]
    BY Zenon, <1>4 DEF RelayRestart, Fault
  <2>2. relay'[l].owed \in {relay[l].owed, relay[l].disk}
    BY Zenon, <1>0, <1>1, <2>1 DEF Typed, RelayType
  <2> QED
    BY <1>1, <2>1, <2>2
<1>5. ASSUME NEW p \in Posts, RelayAdmit(p) \/ RelayDrops(p)
      PROVE  /\ faults' \in {faults, faults + 1}
             /\ relay'[l].disk # relay'[l].owed => faults' >= 1
             /\ relay'[l].owed >= relay[l].owed
  BY SMTT(60), <1>1, <1>2, <1>5
<1> QED
  BY SMTT(60), <1>1, <1>3, <1>4, <1>5 DEF RelayLocal

\* The relays' steps between payments.
LEMMA RelayLocalCorrects ==
  ASSUME IInv, IInv', Corrects, CorrectionSuffices, RelayLocal
  PROVE  Corrects' /\ CorrectionSuffices'
<1>0. Typed /\ Typed'
  BY Zenon, TypedIsTypeOK DEF IInv
<1>1. /\ \A l \in Lanes : LedgerStep(l)
      /\ UNCHANGED <<acct, funded, store, drv, split>>
  BY Zenon, RelayLocalStep
<1>2. \A l \in Lanes : relay'[l].last = relay[l].last
  BY Zenon, <1>1 DEF LedgerStep
<1>3. \A l \in Lanes : /\ faults' \in {faults, faults + 1}
                       /\ relay'[l].disk # relay'[l].owed => faults' >= 1
                       /\ relay'[l].owed >= relay[l].owed \/ faults' > 1
  BY Zenon, RelayDebt
<1>4. drv.job.lane \in Lanes
  BY Zenon, <1>0 DEF Typed, DriverType, JobType
<1>5. faults' \in {faults, faults + 1} /\ faults \in Nat
  BY <1>0, <1>3, <1>4 DEF Typed
<1>6. ASSUME drv'.st = "asked", ~drv'.once, faults' <= 1, Alone(drv'.job.lane)
      PROVE  drv'.cum <= relay'[drv'.job.lane].last + relay'[drv'.job.lane].owed
  <2> DEFINE k == drv.job.lane
  <2>1. drv.cum <= relay[k].last + relay[k].owed
    BY SMTT(60), <1>1, <1>5, <1>6 DEF Corrects
  <2>2. relay'[k].owed >= relay[k].owed /\ relay'[k].last = relay[k].last
    BY SMTT(60), <1>2, <1>3, <1>4, <1>5, <1>6
  <2>3. /\ relay[k].owed \in Nat /\ relay'[k].owed \in Nat /\ relay[k].last \in Nat
        /\ drv.cum \in Nat
    BY Zenon, <1>0, <1>4 DEF Typed, RelayType, DriverType
  <2> HIDE DEF k
  <2>4. drv.cum <= relay'[k].last + relay'[k].owed
    BY <2>1, <2>2, <2>3
  <2> QED
    BY Zenon, <1>1, <2>4 DEF k
<1>7. Corrects'
  <2>1. \A l \in Lanes : Alone(l) => acct'[l].cumulative <= relay'[l].last
    BY Zenon, <1>1, <1>2 DEF Corrects
  <2>2. \A l \in Lanes : relay'[l].disk # relay'[l].owed => faults' >= 1
    BY Zenon, <1>3
  <2> QED
    BY Zenon, <1>6, <2>1, <2>2 DEF Corrects, Alone
<1>8. CorrectionSuffices'
  BY <1>1, <1>5 DEF CorrectionSuffices, Alone
<1> QED
  BY Zenon, <1>7, <1>8

\* A payment reaches the relay.
LEMMA RelayPayCorrects ==
  ASSUME IInv, IInv', Corrects, RelayPay
  PROVE  Corrects' /\ CorrectionSuffices'
<1> DEFINE k == drv.job.lane
           verdict == Verdict(k, drv.cum)
           delta == drv.cum - relay[k].last
           owed == monus(relay[k].owed, delta)
<1>0. Typed /\ Typed'
  BY Zenon, TypedIsTypeOK DEF IInv
<1>1. k \in Lanes /\ drv.cum \in Nat /\ relay[k] \in RelayType /\ delta \in Int
  BY SMTT(60), <1>0 DEF Typed, DriverType, JobType, RelayType
<1>2. verdict \in {"nothing", "refused", "exceeds", "accepted"}
  BY Zenon DEF Verdict
<1>3. /\ drv.st = "asked" /\ drv' = [drv EXCEPT !.st = verdict]
      /\ UNCHANGED <<acct, funded, store, post, billed, faults, split>>
  BY Zenon DEF RelayPay
<1>4. /\ verdict = "exceeds" => delta > relay[k].owed
      /\ verdict = "accepted" => ~(delta < AtLeast(effective(Line).min_cheque, 1))
  BY Zenon DEF Verdict
<1>5. /\ verdict = "accepted" =>
           relay' = [relay EXCEPT ![k] = [@ EXCEPT !.owed = owed, !.disk = owed, !.last = drv.cum]]
      /\ verdict # "accepted" => UNCHANGED relay
  BY Zenon DEF RelayPay
<1> HIDE DEF verdict, owed
<1>6. drv'.st = verdict /\ drv'.job = drv.job /\ drv'.cum = drv.cum /\ drv'.once = drv.once
  BY Zenon, <1>0, <1>2, <1>3 DEF Typed, DriverType
<1>7. ASSUME NEW l \in Lanes
      PROVE  /\ relay'[l].last >= relay[l].last
             /\ relay'[l].disk # relay'[l].owed => relay[l].disk # relay[l].owed
  <2>1. CASE l = k /\ verdict = "accepted"
    <3>1. relay'[l] = [relay[l] EXCEPT !.owed = owed, !.disk = owed, !.last = drv.cum]
      BY Zenon, <1>0, <1>5, <2>1 DEF Typed
    <3>2. relay'[l].last = drv.cum /\ relay'[l].owed = owed /\ relay'[l].disk = owed
      BY Zenon, <1>1, <2>1, <3>1 DEF RelayType
    <3>3. delta >= 1
      BY SMTT(60), <1>1, <1>4, <2>1, FloorNat DEF AtLeast
    <3>4. drv.cum >= relay[k].last
      BY SMTT(60), <1>1, <3>3 DEF RelayType
    <3> QED
      BY Zenon, <2>1, <3>2, <3>4
  <2>2. CASE ~(l = k /\ verdict = "accepted")
    <3>1. relay'[l] = relay[l] /\ relay[l].last \in Nat
      BY Zenon, <1>0, <1>5, <2>2 DEF Typed, RelayType
    <3> QED
      BY <3>1
  <2> QED
    BY Zenon, <2>1, <2>2
<1>8. Corrects'
  <2>1. ASSUME NEW l \in Lanes, Alone(l) PROVE acct'[l].cumulative <= relay'[l].last
    <3>1. /\ acct[l].cumulative <= relay[l].last /\ acct'[l].cumulative = acct[l].cumulative
      BY Zenon, <1>3, <2>1 DEF Corrects
    <3>2. acct[l].cumulative \in Nat /\ relay[l].last \in Nat /\ relay'[l].last \in Nat
      BY Zenon, <1>0 DEF Typed, AccountType, RelayType
    <3> QED
      BY SMTT(60), <1>7, <3>1, <3>2
  <2>2. \A l \in Lanes : relay'[l].disk # relay'[l].owed => faults' >= 1
    BY Zenon, <1>3, <1>7 DEF Corrects
  <2>3. drv'.st # "asked"
    BY Zenon, <1>2, <1>6
  <2> QED
    BY Zenon, <2>1, <2>2, <2>3 DEF Corrects, Alone
<1>9. CorrectionSuffices'
  <2>1. SUFFICES ASSUME verdict = "exceeds", faults <= 1, Alone(k), ~drv.once PROVE FALSE
    BY Zenon, <1>0, <1>3, <1>6 DEF CorrectionSuffices, Alone, Typed, DriverType
  <2>2. drv.cum <= relay[k].last + relay[k].owed
    BY Zenon, <1>3, <2>1 DEF Corrects
  <2>3. drv.cum - relay[k].last > relay[k].owed
    BY Zenon, <1>4, <2>1
  <2> QED
    BY SMTT(60), <1>1, <2>2, <2>3 DEF RelayType
<1> QED
  BY Zenon, <1>8, <1>9

-----------------------------------------------------------------------------
\* Initially nothing is owed.
LEMMA InitClaims == Init => ClaimInv
<1> SUFFICES ASSUME Init PROVE ClaimInv
  BY Zenon
<1>1. drv = Setup /\ drv.st = "setup" /\ drv.job.why = "none" /\ drv.left = Lanes
  BY Zenon, Resting DEF Init
<1>2. \A p \in Posts : post[p] = NoPost
  BY Zenon DEF Init
<1>3. Phases
  BY <1>1, <1>2, FreePost DEF Phases, Closed
<1>4. \A l \in Lanes : /\ acct[l].owed = 0 /\ acct[l].pending = 0 /\ acct[l].cumulative = 0
                       /\ relay[l].owed = 0 /\ relay[l].disk = 0 /\ relay[l].last = 0
  BY Zenon DEF Init, NewAccount
<1>5. ASSUME NEW l \in Lanes PROVE Balanced(l)
  <2>1. Sent(l) = 0 /\ Unread(l) = 0
    <3>1. [p \in Posts |-> SentShare(p, l)] = [p \in Posts |-> 0]
      BY Zenon, <1>2, FreePost DEF SentShare, Live
    <3>2. [p \in Posts |-> UnreadShare(p, l)] = [p \in Posts |-> 0]
      BY Zenon, <1>2, FreePost DEF UnreadShare, Live
    <3> QED
      BY Zenon, <3>1, <3>2, SumZero DEF Sent, Unread
  <2> QED
    BY SMTT(60), <1>1, <1>4, <2>1 DEF Balanced, Owing
<1>6. InStep
  BY Zenon, <1>1, <1>5 DEF InStep, PaysAll
<1>7. Corrects
  BY SMTT(60), <1>1, <1>4 DEF Corrects
<1> QED
  BY Zenon, <1>1, <1>3, <1>6, <1>7 DEF ClaimInv, NoOverclaim, CorrectionSuffices

\* Every step keeps the two sides in step.
LEMMA StepClaims == IInv /\ ClaimInv /\ [Next]_vars => ClaimInv'
<1> SUFFICES ASSUME IInv, ClaimInv, [Next]_vars PROVE ClaimInv'
  BY Zenon
<1> USE DEF ClaimInv
<1>0. IInv'
  BY Zenon, StepInv
<1>1. CASE DriverLocal
  BY Zenon, <1>1, DriverClaims, DriverCorrects
<1>2. CASE NewRun \/ Crash
  BY Zenon, <1>0, <1>2, RestartClaims, RecordCorrects
<1>3. ASSUME NEW saved \in BOOLEAN, PayAccepted(saved) PROVE ClaimInv'
  BY Zenon, <1>0, <1>3, AcceptedClaims, RecordCorrects
<1>4. CASE RelayLocal
  BY Zenon, <1>0, <1>4, RelayLocalClaims, RelayLocalCorrects
<1>5. CASE RelayPay
  BY Zenon, <1>0, <1>5, RelayPayClaims, RelayPayCorrects
<1>6. CASE UNCHANGED vars
  <2>1. Phases'
    BY Zenon, <1>6 DEF vars, Phases, Closed
  <2>2. InStep'
    BY <1>6, SMTT(60) DEF vars, InStep, Closed, PaysAll, Balanced, Owing, Alone, Sent, Unread, SentShare,
                UnreadShare, Live, next_cumulative
  <2>3. Corrects' /\ NoOverclaim' /\ CorrectionSuffices'
    BY Zenon, <1>6 DEF vars, Corrects, NoOverclaim, CorrectionSuffices, Alone
  <2> QED
    BY Zenon, <2>1, <2>2, <2>3
<1> QED
  BY Zenon, <1>1, <1>2, <1>3, <1>4, <1>5, <1>6
  DEF Next, DriverStep, RelayStep, DriverLocal, RelayLocal

\* The client counts what is in flight exactly and never owes more than its relay
\* has booked: the agreement that makes cheques acceptable (LaneAccount's
\* record_sent, record_answered, refund_dedup and adopt_relay_debt).
THEOREM ClaimsHold == Spec => [](IInv /\ ClaimInv)
<1>1. Init => IInv /\ ClaimInv
  BY Zenon, InitInv, InitClaims
<1>2. (IInv /\ ClaimInv) /\ [Next]_vars => (IInv /\ ClaimInv)'
  BY Zenon, StepInv, StepClaims
<1> QED
  BY <1>1, <1>2, PTL DEF Spec

\* A relay refuses a cheque only for cause: as too large only after a fault, and
\* never twice in a row after at most one; as not increasing only when the answer
\* to an accepted cheque was lost.  For any number of lanes, POSTs and frames, any
\* prices and lines (RefusedForCause; LanePayer::settle).
THEOREM RefusalsHaveCause == Spec => []RefusedForCause
<1>1. (IInv /\ ClaimInv) /\ NonIncreasingForCause => RefusedForCause
  BY Zenon DEF ClaimInv, RefusedForCause
<1> QED
  BY <1>1, ClaimsHold, IncreasingUnlessSplit, PTL
=============================================================================
