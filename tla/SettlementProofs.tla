-------------------------- MODULE SettlementProofs --------------------------
(***************************************************************************)
(* Proofs about Settlement: whatever is lost, retried or restarted, a      *)
(* relay holds no cheque it has not earned, and the store records no       *)
(* cheque that a relay has not accepted; until an answer is lost, the      *)
(* chequebook covers all cheques, and each is above the one before.  The   *)
(* last part, on the phases of an upload, is for SettlementClaims.         *)
(***************************************************************************)
EXTENDS Settlement, SumsProofs

AccountType == [owed : Nat, pending : Nat, cumulative : Nat, cap : {0, Line}]

JobType == [lane : Lanes, frames : 0..MaxFrames,
            why : {"none", "headroom", "dispatch", "402", "window", "again", "final"}]

DriverType == [st : {"setup", "loop", "asked", "nothing", "exceeds", "refused",
                     "accepted", "reconcile", "final", "over"},
               job : JobType, cum : Nat, once : BOOLEAN, left : SUBSET Lanes]

RelayType == [owed : Nat, reserved : Nat, last : Nat, disk : Nat]

PostType == [st : {"free", "wire", "admitted", "bounced", "failed", "answered"},
             lane : Lanes, frames : 0..MaxFrames, dedup : 0..MaxFrames, live : BOOLEAN]

\* The debt of a relay, in memory and on disk, and the cheques it holds are
\* together no more than it billed; an accepted cheque is the relay's last.
Books_ ==
  /\ \A l \in Lanes : /\ relay[l].owed + relay[l].last <= billed[l]
                      /\ relay[l].disk + relay[l].last <= billed[l]
  /\ drv.st = "accepted" => relay[drv.job.lane].last >= drv.cum

IInv == TypeOK /\ Books_ /\ RecordedWasAccepted

USE SettlementAssumption, ParamsAssumption

-----------------------------------------------------------------------------
\* The client's arithmetic stays within the naturals.

\* A price is a natural number.
LEMMA PriceNat == ASSUME NEW n \in Nat PROVE Price_(n) \in Nat
<1> DEFINE m == n * FrameLen
<1>1. m \in Nat
  OBVIOUS
<1> HIDE DEF m
<1>2. (m + 1023) \div 1024 \in Nat
  BY <1>1
<1>3. price_bytes(m) \in Nat
  BY <1>2 DEF price_bytes
<1> QED BY Zenon, <1>3 DEF Price_, m

\* Every dust floor is a natural number.
LEMMA FloorNat == effective(Line).min_cheque \in Nat
<1>1. Line \div 2 \in Nat
  OBVIOUS
<1> QED BY Zenon, <1>1 DEF effective, AtLeast, AtMost

\* Saturating subtraction stays natural.
LEMMA MonusNat == ASSUME NEW a \in Nat, NEW b \in Nat PROVE monus(a, b) \in Nat
BY DEF monus

\* The account operations keep an account an account.
LEMMA AccountOps ==
  ASSUME NEW a \in AccountType, NEW n \in Nat, NEW r \in BOOLEAN, NEW m \in Nat
  PROVE  /\ record_sent(a, n) \in AccountType
         /\ record_answered(a, n, r) \in AccountType
         /\ refund_dedup(a, n) \in AccountType
         /\ adopt_relay_debt(a, m) \in AccountType
         /\ settled(a, m) \in AccountType
         /\ next_cumulative(a) \in Nat
<1>1. Price_(n) \in Nat
  BY Zenon, PriceNat
<1>2. /\ monus(a.pending, Price_(n)) \in Nat
      /\ monus(a.owed, Price_(n)) \in Nat
      /\ monus(m, a.pending) \in Nat
      /\ monus(m, a.cumulative) \in Nat
  BY <1>1, MonusNat, Zenon DEF AccountType
<1>3. monus(a.owed, monus(m, a.cumulative)) \in Nat
  BY Zenon, <1>2, MonusNat DEF AccountType
<1>4. record_sent(a, n) \in AccountType
  BY <1>1 DEF AccountType, record_sent
<1>5. record_answered(a, n, r) \in AccountType
  <2> DEFINE P == monus(a.pending, Price_(n))
             X == IF r THEN a.owed + Price_(n) ELSE a.owed
  <2>1. P \in Nat /\ X \in Nat
    BY <1>1, <1>2 DEF AccountType
  <2>2. record_answered(a, n, r) = [a EXCEPT !.pending = P, !.owed = X]
    BY Zenon DEF record_answered, AccountType
  <2> HIDE DEF P, X
  <2> QED BY <2>1, <2>2, Zenon DEF AccountType
<1>6. refund_dedup(a, n) \in AccountType
  BY Zenon, <1>2 DEF AccountType, refund_dedup
<1>7. adopt_relay_debt(a, m) \in AccountType
  BY Zenon, <1>2 DEF AccountType, adopt_relay_debt, AtLeast
<1>8. settled(a, m) \in AccountType
  BY <1>3, Zenon DEF AccountType, settled
<1>9. next_cumulative(a) \in Nat
  BY DEF AccountType, next_cumulative
<1> QED BY Zenon, <1>4, <1>5, <1>6, <1>7, <1>8, <1>9

\* So do the two that take an amount.
LEMMA AmountOps ==
  ASSUME NEW a \in AccountType, NEW m \in Nat
  PROVE  adopt_relay_debt(a, m) \in AccountType /\ settled(a, m) \in AccountType
<1>1. 0 \in Nat /\ TRUE \in BOOLEAN
  BY Zenon
<1> QED
  BY <1>1, AccountOps, Zenon

\* Idle and Setup are driver states.
LEMMA DriverStates ==
  /\ Idle \in DriverType /\ Setup \in DriverType
  /\ Idle.st = "loop" /\ Setup.st = "setup"
<1> DEFINE l == CHOOSE l \in Lanes : TRUE
<1>1. l \in Lanes
  BY Zenon
<1>2. Job(l, "none", 0) \in JobType
  BY <1>1 DEF Job, JobType
<1>3. Idle \in DriverType /\ Idle.st = "loop"
  BY Zenon, <1>2 DEF Idle, DriverType
<1>4. Setup \in DriverType /\ Setup.st = "setup"
  BY <1>3, Zenon DEF Setup, DriverType
<1> QED BY Zenon, <1>3, <1>4

\* Returning from a settlement leaves the driver well typed and not waiting
\* with an accepted cheque.
LEMMA ReturnType ==
  ASSUME NEW job \in JobType, NEW a \in AccountType, NEW f \in [Lanes -> BOOLEAN],
         drv \in DriverType, Return(job, a, f)
  PROVE  drv' \in DriverType /\ drv'.st # "accepted" /\ funded' \in [Lanes -> BOOLEAN]
<1>1. drv' \in DriverType /\ drv'.st # "accepted"
  BY DriverStates, Zenon DEF Return, DriverType
<1>2. funded' \in [Lanes -> BOOLEAN]
  BY Zenon DEF Return, JobType
<1> QED BY Zenon, <1>1, <1>2

\* So does a settlement that can pay nothing,
LEMMA UnpayableType ==
  ASSUME NEW job \in JobType, NEW a \in AccountType, NEW f \in [Lanes -> BOOLEAN],
         drv \in DriverType, Unpayable(job, a, f)
  PROVE  drv' \in DriverType /\ drv'.st # "accepted" /\ funded' \in [Lanes -> BOOLEAN]
<1>1. CASE job.why = "402"
  BY <1>1, Zenon DEF Unpayable, DriverType
<1>2. CASE job.why # "402"
  <2> DEFINE g == [f EXCEPT ![job.lane] = @ \/ (job.why = "again" /\ a.pending > 0)]
  <2>1. g \in [Lanes -> BOOLEAN]
    BY Zenon DEF JobType
  <2>2. Return(job, a, g)
    BY Zenon, <1>2 DEF Unpayable
  <2> QED BY <2>1, <2>2, ReturnType, Zenon
<1> QED BY Zenon, <1>1, <1>2

\* a settlement that presents a cheque,
LEMMA PresentType ==
  ASSUME NEW job \in JobType, NEW a \in AccountType, NEW f \in [Lanes -> BOOLEAN],
         NEW once \in BOOLEAN, drv \in DriverType, Present(job, a, f, once)
  PROVE  drv' \in DriverType /\ drv'.st # "accepted" /\ funded' \in [Lanes -> BOOLEAN]
<1>1. CASE Return(job, a, f)
  BY Zenon, <1>1, ReturnType
<1>2. CASE ~Return(job, a, f)
  <2>1. next_cumulative(a) \in Nat
    BY Zenon, AccountOps
  <2> QED BY <1>2, <2>1, ZenonT(60) DEF Present, DriverType
<1> QED BY Zenon, <1>1, <1>2

\* and settle() as a whole, which keeps the accounts accounts.
LEMMA SettleType ==
  ASSUME NEW job \in JobType, NEW a \in AccountType, NEW f \in [Lanes -> BOOLEAN],
         TypeOK, settle(job, a, f)
  PROVE  /\ drv' \in DriverType /\ drv'.st # "accepted"
         /\ funded' \in [Lanes -> BOOLEAN] /\ acct' \in [Lanes -> AccountType]
<1> DEFINE b == sync_cumulative(a, job.lane)
<1>1. b \in AccountType
  BY Zenon DEF sync_cumulative, AccountType, AtLeast, TypeOK, JobType
<1>2. drv \in DriverType
  BY Zenon DEF TypeOK, DriverType, JobType
<1>3. acct' \in [Lanes -> AccountType]
  BY Zenon, <1>1 DEF settle, TypeOK, JobType, AccountType
<1>4. Unpayable(job, b, f) \/ Present(job, b, f, TRUE)
  BY Zenon DEF settle
<1> QED BY <1>1, <1>2, <1>3, <1>4, UnpayableType, PresentType, Zenon

-----------------------------------------------------------------------------
\* The inductive invariant.

StoreType == [mem : [Payees -> Nat], disk : [Payees -> Nat]]

Typed ==
  /\ acct \in [Lanes -> AccountType] /\ funded \in [Lanes -> BOOLEAN]
  /\ store \in StoreType /\ drv \in DriverType /\ post \in [Posts -> PostType]
  /\ relay \in [Lanes -> RelayType] /\ billed \in [Lanes -> Nat]
  /\ faults \in 0..MaxFaults /\ split \in BOOLEAN

\* Typed is TypeOK with its types named.
LEMMA TypedIsTypeOK == (TypeOK <=> Typed) /\ (TypeOK' <=> Typed')
BY Zenon DEF TypeOK, Typed, AccountType, StoreType, DriverType, JobType, PostType, RelayType

\* A step that leaves the relays, the bills and the store alone, and after
\* which no accepted cheque waits, keeps the books.
LEMMA BooksFrame ==
  ASSUME IInv, UNCHANGED <<relay, billed, store>>, drv'.st # "accepted"
  PROVE  Books_' /\ RecordedWasAccepted'
BY DEF IInv, Books_, RecordedWasAccepted

\* The fault counter stays within its bound.
LEMMA FaultType ==
  ASSUME faults \in 0..MaxFaults, Fault \/ NoFault
  PROVE  faults' \in 0..MaxFaults
BY DEF Fault, NoFault

\* Forgetting a gone client keeps POSTs POSTs.
LEMMA OrphanedType ==
  ASSUME post \in [Posts -> PostType] PROVE Orphaned \in [Posts -> PostType]
<1>1. NoPost \in PostType
  BY DEF NoPost, PostType
<1>2. ASSUME NEW p \in Posts PROVE [post[p] EXCEPT !.live = FALSE] \in PostType
  BY Zenon DEF PostType
<1> QED BY Zenon, <1>1, <1>2 DEF Orphaned

\* The initial state.
LEMMA InitInv == Init => IInv
<1> SUFFICES ASSUME Init PROVE IInv
  BY Zenon
<1>1. acct \in [Lanes -> AccountType]
  BY Zenon DEF Init, NewAccount, AccountType
<1>2. post \in [Posts -> PostType]
  BY DEF Init, NoPost, PostType
<1>3. store \in StoreType /\ relay \in [Lanes -> RelayType] /\ billed \in [Lanes -> Nat]
  BY Zenon DEF Init, StoreType, RelayType
<1>4. drv \in DriverType /\ drv.st = "setup"
  BY Zenon, DriverStates DEF Init
<1>5. Typed
  <2>1. faults \in 0..MaxFaults
    BY DEF Init
  <2>2. split \in BOOLEAN /\ funded \in [Lanes -> BOOLEAN]
    BY Zenon DEF Init
  <2> QED BY Zenon, <1>1, <1>2, <1>3, <1>4, <2>1, <2>2 DEF Typed
<1>6. Books_
  BY <1>4 DEF Init, Books_
<1>7. RecordedWasAccepted
  BY DEF Init, RecordedWasAccepted
<1> QED BY Zenon, <1>5, <1>6, <1>7, TypedIsTypeOK DEF IInv

\* Steps of the driver that touch neither store nor relay.
DriverLocal ==
  \/ \E l \in Lanes :
       \/ \E challenge, account \in BOOLEAN : SetupLane(l, challenge, account)
       \/ LoopSettle(l)
       \/ \E frames \in 1..MaxFrames :
            DispatchSettle(l, frames) \/ \E p \in Posts : Send(l, p, frames)
       \/ FinalSettle(l)
  \/ \E p \in Posts : Done(p)
  \/ Finish \/ Stall
  \/ PayNothing \/ PayCorrect \/ PayRefused \/ PayFails
  \/ \E got \in BOOLEAN : Reconcile(got)

\* The jobs the driver makes.
LEMMA Jobs ==
  ASSUME NEW l \in Lanes, NEW n \in 0..MaxFrames,
         NEW why \in {"headroom", "dispatch", "402", "window", "again", "final"}
  PROVE  Job(l, why, n) \in JobType
BY Zenon DEF Job, JobType

\* They keep the types, and no accepted cheque waits after them.
LEMMA DriverLocalType ==
  ASSUME IInv, DriverLocal
  PROVE  Typed' /\ drv'.st # "accepted" /\ UNCHANGED <<relay, billed, store>>
<1> USE TypedIsTypeOK
<1>0. Typed
  BY Zenon DEF IInv
<1>1. ASSUME NEW l \in Lanes, NEW c \in BOOLEAN, NEW d \in BOOLEAN, SetupLane(l, c, d)
      PROVE  Typed' /\ drv'.st # "accepted" /\ UNCHANGED <<relay, billed, store>>
  <2> DEFINE a == [acct[l] EXCEPT !.cap = IF c THEN Line ELSE 0]
  <2>1. a \in AccountType /\ relay[l].owed \in Nat
    BY <1>0, SMTT(60) DEF Typed, AccountType, RelayType
  <2>2. adopt_relay_debt(a, relay[l].owed) \in AccountType
    BY <2>1, AccountOps, Zenon
  <2>3. acct' \in [Lanes -> AccountType]
    BY Zenon, <1>0, <1>1, <2>1, <2>2 DEF SetupLane, Typed
  <2>4. drv' \in DriverType /\ drv'.st # "accepted"
    BY Zenon, <1>0, <1>1, DriverStates DEF SetupLane, Typed, DriverType
  <2>5. faults' \in 0..MaxFaults
    BY Zenon, <1>0, <1>1, FaultType DEF SetupLane, Typed
  <2> QED BY Zenon, <1>0, <1>1, <2>3, <2>4, <2>5 DEF SetupLane, Typed
<1>2. ASSUME NEW l \in Lanes, LoopSettle(l) \/ FinalSettle(l)
      PROVE  Typed' /\ drv'.st # "accepted" /\ UNCHANGED <<relay, billed, store>>
  <2>1. Job(l, "headroom", 0) \in JobType /\ Job(l, "final", 0) \in JobType
    BY Jobs
  <2>2. acct[l] \in AccountType /\ funded \in [Lanes -> BOOLEAN]
    BY Zenon, <1>0 DEF Typed
  <2>3. \E job \in JobType : settle(job, acct[l], funded)
    BY Zenon, <1>2, <2>1 DEF LoopSettle, FinalSettle
  <2>4. /\ drv' \in DriverType /\ drv'.st # "accepted"
        /\ funded' \in [Lanes -> BOOLEAN] /\ acct' \in [Lanes -> AccountType]
    BY Zenon, <1>0, <2>2, <2>3, SettleType
  <2> QED BY Zenon, <1>0, <1>2, <2>4 DEF LoopSettle, FinalSettle, Typed
<1>3. ASSUME NEW l \in Lanes, NEW n \in 1..MaxFrames, DispatchSettle(l, n)
      PROVE  Typed' /\ drv'.st # "accepted" /\ UNCHANGED <<relay, billed, store>>
  <2>1. Job(l, "dispatch", n) \in JobType
    BY Jobs
  <2>2. acct[l] \in AccountType /\ funded \in [Lanes -> BOOLEAN]
    BY Zenon, <1>0 DEF Typed
  <2>3. CASE settle(Job(l, "dispatch", n), acct[l], funded)
    <3>1. /\ drv' \in DriverType /\ drv'.st # "accepted"
          /\ funded' \in [Lanes -> BOOLEAN] /\ acct' \in [Lanes -> AccountType]
      BY Zenon, <1>0, <2>1, <2>2, <2>3, SettleType
    <3> QED BY Zenon, <1>0, <1>3, <3>1 DEF DispatchSettle, Typed
  <2>4. CASE funded' = [funded EXCEPT ![l] = FALSE] /\ UNCHANGED <<acct, drv>>
    BY Zenon, <1>0, <1>3, <2>4 DEF DispatchSettle, Typed
  <2> QED BY Zenon, <1>3, <2>3, <2>4 DEF DispatchSettle
<1>4. ASSUME NEW l \in Lanes, NEW p \in Posts, NEW n \in 1..MaxFrames, Send(l, p, n)
      PROVE  Typed' /\ drv'.st # "accepted" /\ UNCHANGED <<relay, billed, store>>
  <2>1. [acct[l] EXCEPT !.cap = Line] \in AccountType
    BY <1>0 DEF Typed, AccountType
  <2>2. record_sent([acct[l] EXCEPT !.cap = Line], n) \in AccountType
    <3> DEFINE a == [acct[l] EXCEPT !.cap = Line]
    <3>1. a \in AccountType /\ n \in Nat /\ TRUE \in BOOLEAN /\ 0 \in Nat
      BY <2>1
    <3> HIDE DEF a
    <3>2. record_sent(a, n) \in AccountType
      BY <3>1, AccountOps, Zenon
    <3> QED BY Zenon, <3>2 DEF a
  <2>3. acct' \in [Lanes -> AccountType]
    BY Zenon, <1>0, <1>4, <2>2 DEF Send, Typed
  <2>4. post' \in [Posts -> PostType]
    BY <1>0, <1>4 DEF Send, Typed, PostType
  <2> QED BY Zenon, <1>0, <1>4, <2>3, <2>4 DEF Send, Typed
<1>5. ASSUME NEW p \in Posts, Done(p)
      PROVE  Typed' /\ drv'.st # "accepted" /\ UNCHANGED <<relay, billed, store>>
  <2> DEFINE l == post[p].lane
             refused == post[p].st = "bounced"
             a == record_answered(acct[l], post[p].frames, ~refused)
             b == refund_dedup(a, post[p].dedup)
             f == [funded EXCEPT ![l] = ~refused /\ (@ \/ post[p].st = "answered")]
  <2>1. l \in Lanes /\ post[p].frames \in Nat /\ post[p].dedup \in Nat /\ refused \in BOOLEAN
    BY <1>0 DEF Typed, PostType
  <2>2. a \in AccountType
    BY <1>0, <2>1, AccountOps, Zenon DEF Typed
  <2>3. b \in AccountType
    BY <2>1, <2>2, AccountOps, Zenon
  <2>4. f \in [Lanes -> BOOLEAN]
    BY Zenon, <1>0, <2>1 DEF Typed
  <2>5. Job(l, "402", 0) \in JobType /\ Job(l, "window", 0) \in JobType
    BY <2>1, Jobs
  <2>6. post' \in [Posts -> PostType]
    <3>1. NoPost \in PostType
      BY DEF NoPost, PostType
    <3> QED BY Zenon, <1>0, <1>5, <3>1 DEF Done, Typed
  <2>7. \/ settle(Job(l, "402", 0), a, f)
        \/ settle(Job(l, "window", 0), b, f)
        \/ acct' = [acct EXCEPT ![l] = b] /\ funded' = f /\ UNCHANGED drv
    BY Zenon, <1>5 DEF Done
  <2>8. drv.st = "loop" /\ UNCHANGED <<store, relay, billed, faults, split>>
    BY Zenon, <1>5 DEF Done
  <2> HIDE DEF a, b, f, refused
  <2>9. /\ drv' \in DriverType /\ drv'.st # "accepted"
        /\ funded' \in [Lanes -> BOOLEAN] /\ acct' \in [Lanes -> AccountType]
    <3>1. CASE settle(Job(l, "402", 0), a, f)
      BY Zenon, <1>0, <2>2, <2>4, <2>5, <3>1, SettleType
    <3>2. CASE settle(Job(l, "window", 0), b, f)
      BY Zenon, <1>0, <2>3, <2>4, <2>5, <3>2, SettleType
    <3>3. CASE acct' = [acct EXCEPT ![l] = b] /\ funded' = f /\ UNCHANGED drv
      BY <1>0, <2>3, <2>4, <2>8, <3>3, Zenon DEF Typed
    <3> QED BY Zenon, <2>7, <3>1, <3>2, <3>3
  <2> QED BY Zenon, <1>0, <2>6, <2>8, <2>9 DEF Typed
<1>6. ASSUME Finish
      PROVE  Typed' /\ drv'.st # "accepted" /\ UNCHANGED <<relay, billed, store>>
  <2>1. ASSUME NEW l \in Lanes
        PROVE  [acct[l] EXCEPT !.pending = 0, !.owed = @ + acct[l].pending] \in AccountType
    <3> DEFINE X == acct[l].owed + acct[l].pending
    <3>1. X \in Nat /\ acct[l] \in AccountType
      BY <1>0 DEF Typed, AccountType
    <3> HIDE DEF X
    <3>2. [acct[l] EXCEPT !.pending = 0, !.owed = X] \in AccountType
      BY <3>1, Zenon DEF AccountType
    <3> QED BY Zenon, <3>1, <3>2 DEF X, AccountType
  <2>2. acct' \in [Lanes -> AccountType]
    BY Zenon, <1>6, <2>1 DEF Finish
  <2>3. drv' \in DriverType /\ drv'.st # "accepted"
    BY Zenon, <1>6, DriverStates DEF Finish, DriverType
  <2>4. post' \in [Posts -> PostType]
    BY Zenon, <1>0, <1>6, OrphanedType DEF Finish, Typed
  <2> QED BY Zenon, <1>0, <1>6, <2>2, <2>3, <2>4 DEF Finish, Typed
<1>7. ASSUME Stall
      PROVE  Typed' /\ drv'.st # "accepted" /\ UNCHANGED <<relay, billed, store>>
  <2>1. drv' \in DriverType /\ drv'.st # "accepted"
    BY Zenon, <1>7, DriverStates DEF Stall, DriverType
  <2> QED BY Zenon, <1>0, <1>7, <2>1 DEF Stall, Typed
<1>8. drv.job \in JobType /\ drv.job.lane \in Lanes /\ acct[drv.job.lane] \in AccountType
      /\ relay[drv.job.lane].owed \in Nat
  BY Zenon, <1>0 DEF Typed, DriverType, JobType, RelayType
<1>9. ASSUME PayNothing
      PROVE  Typed' /\ drv'.st # "accepted" /\ UNCHANGED <<relay, billed, store>>
  <2> DEFINE a == [acct[drv.job.lane] EXCEPT !.owed = 0]
  <2>1. a \in AccountType
    BY Zenon, <1>8 DEF AccountType
  <2>2. Unpayable(drv.job, a, funded) /\ acct' = [acct EXCEPT ![drv.job.lane] = a]
    BY Zenon, <1>9 DEF PayNothing
  <2>3. acct' \in [Lanes -> AccountType]
    BY Zenon, <1>0, <2>1, <2>2 DEF Typed
  <2>4. drv' \in DriverType /\ drv'.st # "accepted" /\ funded' \in [Lanes -> BOOLEAN]
    BY Zenon, <1>0, <1>8, <2>1, <2>2, UnpayableType DEF Typed
  <2> QED BY Zenon, <1>0, <1>9, <2>3, <2>4 DEF PayNothing, Typed
<1>10. ASSUME PayCorrect
       PROVE  Typed' /\ drv'.st # "accepted" /\ UNCHANGED <<relay, billed, store>>
  <2> DEFINE a == [acct[drv.job.lane] EXCEPT !.owed = relay[drv.job.lane].owed]
  <2>1. a \in AccountType
    BY Zenon, <1>8 DEF AccountType
  <2>2. /\ Unpayable(drv.job, a, funded) \/ Present(drv.job, a, funded, FALSE)
        /\ acct' = [acct EXCEPT ![drv.job.lane] = a]
    BY Zenon, <1>10 DEF PayCorrect
  <2>3. acct' \in [Lanes -> AccountType]
    BY Zenon, <1>0, <2>1, <2>2 DEF Typed
  <2>4. drv' \in DriverType /\ drv'.st # "accepted" /\ funded' \in [Lanes -> BOOLEAN]
    BY Zenon, <1>0, <1>8, <2>1, <2>2, UnpayableType, PresentType DEF Typed
  <2> QED BY Zenon, <1>0, <1>10, <2>3, <2>4 DEF PayCorrect, Typed
<1>11. ASSUME PayRefused \/ PayFails
       PROVE  Typed' /\ drv'.st # "accepted" /\ UNCHANGED <<relay, billed, store>>
  <2>1. Return(drv.job, acct[drv.job.lane], funded)
    BY Zenon, <1>11 DEF PayRefused, PayFails
  <2>2. drv' \in DriverType /\ drv'.st # "accepted" /\ funded' \in [Lanes -> BOOLEAN]
    BY Zenon, <1>0, <1>8, <2>1, ReturnType DEF Typed
  <2>3. faults' \in 0..MaxFaults
    BY Zenon, <1>0, <1>11, FaultType DEF PayRefused, PayFails, Typed
  <2> QED BY Zenon, <1>0, <1>11, <2>2, <2>3 DEF PayRefused, PayFails, Typed
<1>12. ASSUME NEW got \in BOOLEAN, Reconcile(got)
       PROVE  Typed' /\ drv'.st # "accepted" /\ UNCHANGED <<relay, billed, store>>
  <2> DEFINE l == drv.job.lane
             a == adopt_relay_debt(acct[l], relay[l].owed)
             again == Job(l, "again", 0)
  <2>1. a \in AccountType /\ again \in JobType
    <3>1. a \in AccountType
      BY <1>8, AmountOps, Zenon
    <3>2. again \in JobType
      BY <1>8, Jobs
    <3> QED
      BY Zenon, <3>1, <3>2
  <2>2. \/ Return(drv.job, acct[l], funded) /\ UNCHANGED acct
        \/ settle(again, a, funded)
        \/ Unpayable(again, a, funded) /\ UNCHANGED acct
    BY Zenon, <1>12 DEF Reconcile
  <2>3. faults' \in 0..MaxFaults /\ UNCHANGED <<store, post, relay, billed, split>>
    BY Zenon, <1>0, <1>12, FaultType DEF Reconcile, Typed
  <2> HIDE DEF a, again
  <2>4. /\ drv' \in DriverType /\ drv'.st # "accepted"
        /\ funded' \in [Lanes -> BOOLEAN] /\ acct' \in [Lanes -> AccountType]
    <3>0. drv \in DriverType /\ funded \in [Lanes -> BOOLEAN]
          /\ acct \in [Lanes -> AccountType]
      BY Zenon, <1>0 DEF Typed
    <3>1. CASE Return(drv.job, acct[l], funded) /\ UNCHANGED acct
      BY Zenon, <1>8, <3>0, <3>1, ReturnType
    <3>2. CASE settle(again, a, funded)
      BY Zenon, <1>0, <2>1, <3>0, <3>2, SettleType
    <3>3. CASE Unpayable(again, a, funded) /\ UNCHANGED acct
      BY Zenon, <2>1, <3>0, <3>3, UnpayableType
    <3> QED BY Zenon, <2>2, <3>1, <3>2, <3>3
  <2> QED BY Zenon, <1>0, <2>3, <2>4 DEF Typed
<1> QED
  BY Zenon, <1>1, <1>2, <1>3, <1>4, <1>5, <1>6, <1>7, <1>9, <1>10, <1>11, <1>12 DEF DriverLocal

\* A new run, after the last one or after a crash.
LEMMA RestartInv ==
  ASSUME IInv, NewRun \/ Crash PROVE IInv'
<1> USE TypedIsTypeOK
<1>0. Typed
  BY Zenon DEF IInv
<1>1. /\ drv' = Setup /\ acct' = [l \in Lanes |-> NewAccount(l)]
      /\ funded' = [l \in Lanes |-> TRUE]
      /\ store' = [store EXCEPT !.mem = store.disk]
      /\ UNCHANGED <<relay, billed>> /\ post' \in {post, Orphaned}
      /\ split' \in BOOLEAN
  BY <1>0, Zenon DEF NewRun, Crash, Restarted, Typed
<1>2. acct' \in [Lanes -> AccountType]
  BY Zenon, <1>0, <1>1 DEF Typed, NewAccount, AccountType, StoreType
<1>3. store' \in StoreType /\ store'.mem = store.disk /\ store'.disk = store.disk
  BY Zenon, <1>0, <1>1 DEF Typed, StoreType
<1>4. faults' \in 0..MaxFaults
  BY Zenon, <1>0, FaultType DEF NewRun, Crash, Typed, NoFault
<1>5. Typed'
  BY Zenon, <1>0, <1>1, <1>2, <1>3, <1>4, DriverStates, OrphanedType DEF Typed
<1>6. Books_'
  BY Zenon, <1>1, DriverStates DEF IInv, Books_
<1>7. RecordedWasAccepted'
  BY <1>1, <1>3 DEF IInv, RecordedWasAccepted
<1> QED BY Zenon, <1>5, <1>6, <1>7 DEF IInv

\* Recording an accepted cheque.
LEMMA AcceptedInv ==
  ASSUME IInv, NEW saved \in BOOLEAN, PayAccepted(saved) PROVE IInv'
<1> USE TypedIsTypeOK
<1> DEFINE l == drv.job.lane
           a == settled(acct[l], drv.cum)
           f == [funded EXCEPT ![l] = @ \/ drv.job.why \in {"402", "window", "again"}]
<1>0. Typed
  BY Zenon DEF IInv
<1>1. /\ drv \in DriverType /\ drv.job \in JobType /\ l \in Lanes /\ drv.cum \in Nat
      /\ drv.st = "accepted" /\ Payee[l] \in Payees
  BY Zenon, <1>0 DEF Typed, DriverType, JobType, PayAccepted
<1>2. a \in AccountType
  <2>1. acct[l] \in AccountType
    BY Zenon, <1>0, <1>1 DEF Typed
  <2> QED
    BY <1>1, <2>1, AmountOps, Zenon
<1>3. f \in [Lanes -> BOOLEAN]
  BY Zenon, <1>0, <1>1 DEF Typed
<1>4. Return(drv.job, a, f)
  BY Zenon DEF PayAccepted, Cleared
<1>5. drv' \in DriverType /\ drv'.st # "accepted" /\ funded' \in [Lanes -> BOOLEAN]
  BY <1>1, <1>2, <1>3, <1>4, ReturnType, Zenon
<1>6. acct' \in [Lanes -> AccountType]
  BY Zenon, <1>0, <1>1, <1>2 DEF PayAccepted, Typed
<1> DEFINE mem == [store.mem EXCEPT ![Payee[l]] = drv.cum]
<1>7. mem \in [Payees -> Nat]
      /\ store' = [mem |-> mem, disk |-> IF saved THEN mem ELSE store.disk]
  BY Zenon, <1>0, <1>1 DEF PayAccepted, set_cumulative, Typed, StoreType
<1>8. store' \in StoreType
  BY Zenon, <1>0, <1>7 DEF Typed, StoreType
<1>9. faults' \in 0..MaxFaults /\ UNCHANGED <<post, relay, billed, split>>
  BY Zenon, <1>0, FaultType DEF PayAccepted, Typed
<1>10. Typed'
  BY Zenon, <1>0, <1>5, <1>6, <1>8, <1>9 DEF Typed
<1>11. Books_'
  BY Zenon, <1>5, <1>9 DEF IInv, Books_
<1>12. RecordedWasAccepted'
  <2>1. relay[l].last >= drv.cum
    BY Zenon, <1>1 DEF IInv, Books_
  <2>2. \A b \in Payees : mem[b] > 0 =>
          \E k \in Lanes : Payee[k] = b /\ relay[k].last >= mem[b]
    BY <1>0, <1>1, <2>1 DEF IInv, RecordedWasAccepted, Typed, StoreType
  <2>3. \A b \in Payees : store.disk[b] > 0 =>
          \E k \in Lanes : Payee[k] = b /\ relay[k].last >= store.disk[b]
    BY Zenon DEF IInv, RecordedWasAccepted
  <2> HIDE DEF mem
  <2> QED BY <1>7, <1>9, <2>2, <2>3 DEF RecordedWasAccepted
<1> QED BY Zenon, <1>10, <1>11, <1>12 DEF IInv

\* Steps of the relays that leave the driver alone.
RelayLocal ==
  \/ \E p \in Posts :
       \/ RelayAdmit(p)
       \/ RelayDrops(p)
       \/ \E dedup \in 0..MaxFrames, whole, saved \in BOOLEAN :
            RelayCommit(p, dedup, whole, saved)
  \/ \E l \in Lanes : RelayRestart(l)

\* What a relay step may do to a ledger entry: cheques stay, and debt grows by
\* at most what is billed.
LedgerStep(l) ==
  /\ relay'[l] \in RelayType /\ billed'[l] \in Nat
  /\ relay'[l].last = relay[l].last
  /\ relay'[l].owed + relay[l].last <= billed'[l]
  /\ relay'[l].disk + relay[l].last <= billed'[l]

\* Answers are POSTs.
LEMMA AnswerType ==
  ASSUME NEW p \in Posts, NEW st \in {"bounced", "failed", "answered"},
         NEW d \in 0..MaxFrames, post \in [Posts -> PostType], Answer(p, st, d)
  PROVE  post' \in [Posts -> PostType]
<1>1. NoPost \in PostType
  BY DEF NoPost, PostType
<1>2. [post[p] EXCEPT !.st = st, !.dedup = d] \in PostType
  BY Zenon DEF PostType
<1> QED BY Zenon, <1>1, <1>2 DEF Answer

\* A relay step that is not a payment is a LedgerStep for every lane.
LEMMA RelayLocalStep ==
  ASSUME IInv, RelayLocal
  PROVE  /\ \A l \in Lanes : LedgerStep(l)
         /\ relay' \in [Lanes -> RelayType] /\ billed' \in [Lanes -> Nat]
         /\ post' \in [Posts -> PostType] /\ faults' \in 0..MaxFaults
         /\ UNCHANGED <<acct, funded, store, drv, split>>
<1> USE TypedIsTypeOK
<1>0. Typed
  BY Zenon DEF IInv
<1>1. ASSUME NEW l \in Lanes
      PROVE  /\ relay[l] \in RelayType /\ billed[l] \in Nat
             /\ relay[l].owed + relay[l].last <= billed[l]
             /\ relay[l].disk + relay[l].last <= billed[l]
  BY Zenon, <1>0 DEF IInv, Books_, Typed
<1>2. ASSUME NEW p \in Posts
      PROVE  /\ post[p].lane \in Lanes /\ post[p].frames \in Nat
             /\ Price_(post[p].frames) \in Nat
  BY <1>0, PriceNat DEF Typed, PostType
<1>3. ASSUME NEW p \in Posts, RelayAdmit(p) \/ RelayDrops(p)
      PROVE  /\ \A l \in Lanes : LedgerStep(l)
             /\ relay' \in [Lanes -> RelayType] /\ billed' \in [Lanes -> Nat]
             /\ post' \in [Posts -> PostType] /\ faults' \in 0..MaxFaults
             /\ UNCHANGED <<acct, funded, store, drv, split>>
  <2> DEFINE k == post[p].lane
  <2>1. PICK n \in Nat : relay' \in {relay, [relay EXCEPT ![k].reserved = n]}
    <3>1. relay[k].reserved + Price_(post[p].frames) \in Nat
      BY <1>1, <1>2 DEF RelayType
    <3>2. Released(k, Price_(post[p].frames)) \in Nat
      BY <1>1, <1>2, MonusNat, Zenon DEF RelayType, Released
    <3> QED BY Zenon, <1>3, <3>1, <3>2 DEF RelayAdmit, RelayDrops
  <2>2. UNCHANGED <<acct, funded, store, drv, billed, split>>
    BY Zenon, <1>3 DEF RelayAdmit, RelayDrops
  <2>3. faults' \in 0..MaxFaults
    BY Zenon, <1>0, <1>3, FaultType DEF RelayAdmit, RelayDrops, Typed
  <2>4. post' \in [Posts -> PostType]
    <3>1. CASE Answer(p, "bounced", 0) \/ Answer(p, "failed", 0)
      BY <1>0, <3>1, AnswerType DEF Typed
    <3>2. CASE post' = [post EXCEPT ![p].st = "admitted"]
      BY <1>0, <3>2 DEF Typed, PostType
    <3> QED BY Zenon, <1>3, <3>1, <3>2 DEF RelayAdmit, RelayDrops
  <2>5. relay' \in [Lanes -> RelayType]
    BY <1>0, <1>2, <2>1, SMTT(60) DEF Typed, RelayType
  <2>6. ASSUME NEW l \in Lanes PROVE LedgerStep(l)
    BY <1>0, <1>1, <2>1, <2>2, <2>5, SMTT(60) DEF LedgerStep, Typed, RelayType
  <2> QED BY Zenon, <1>0, <2>2, <2>3, <2>4, <2>5, <2>6 DEF Typed
<1>4. ASSUME NEW p \in Posts, NEW d \in 0..MaxFrames, NEW whole \in BOOLEAN,
             NEW saved \in BOOLEAN, RelayCommit(p, d, whole, saved)
      PROVE  /\ \A l \in Lanes : LedgerStep(l)
             /\ relay' \in [Lanes -> RelayType] /\ billed' \in [Lanes -> Nat]
             /\ post' \in [Posts -> PostType] /\ faults' \in 0..MaxFaults
             /\ UNCHANGED <<acct, funded, store, drv, split>>
  <2> DEFINE k == post[p].lane
             bill == Price_(post[p].frames - d)
             owed == relay[k].owed + bill
             res == Released(k, Price_(post[p].frames))
             entry == [relay[k] EXCEPT !.owed = owed, !.reserved = res,
                                       !.disk = IF saved THEN owed ELSE relay[k].disk]
  <2>1. bill \in Nat
    <3>1. post[p].frames - d \in Nat
      BY <1>2, <1>4 DEF RelayCommit
    <3> QED BY Zenon, <3>1, PriceNat
  <2>2. owed \in Nat /\ res \in Nat /\ k \in Lanes
    <3>1. k \in Lanes /\ Price_(post[p].frames) \in Nat
      BY Zenon, <1>2
    <3>2. relay[k].owed \in Nat /\ relay[k].reserved \in Nat
      BY Zenon, <1>1, <3>1 DEF RelayType
    <3>3. res \in Nat
      BY <3>1, <3>2, MonusNat, Zenon DEF Released
    <3> HIDE DEF bill
    <3> QED BY <2>1, <3>1, <3>2, <3>3
  <2>3. relay' = [relay EXCEPT ![k] = entry] /\ billed' = [billed EXCEPT ![k] = @ + bill]
    <3>1. relay' = [relay EXCEPT ![k] = entry]
      BY Zenon, <1>4 DEF RelayCommit
    <3>2. billed' = [billed EXCEPT ![k] = @ + bill]
      BY <1>4, Zenon DEF RelayCommit
    <3> QED BY Zenon, <3>1, <3>2
  <2>4. UNCHANGED <<acct, funded, store, drv, split>>
    BY Zenon, <1>4 DEF RelayCommit
  <2>5. faults' \in 0..MaxFaults
    BY Zenon, <1>0, <1>4, FaultType DEF RelayCommit, Typed
  <2>6. post' \in [Posts -> PostType]
    <3>1. \E st \in {"answered", "failed"}, e \in 0..MaxFrames : Answer(p, st, e)
      BY <1>4 DEF RelayCommit
    <3> QED BY <1>0, <3>1, AnswerType DEF Typed
  <2>7. owed + relay[k].last <= billed[k] + bill
    BY <1>1, <2>1, <2>2 DEF RelayType
  <2>8. relay[k] \in RelayType /\ relay[k].disk + relay[k].last <= billed[k] + bill
    BY <1>1, <2>1, <2>2 DEF RelayType
  <2> HIDE DEF bill, owed, res
  <2>9. /\ entry \in RelayType /\ entry.last = relay[k].last
        /\ entry.owed = owed /\ entry.disk = IF saved THEN owed ELSE relay[k].disk
    BY Zenon, <2>2, <2>8 DEF RelayType
  <2> HIDE DEF entry
  <2>10. relay' \in [Lanes -> RelayType] /\ billed' \in [Lanes -> Nat]
    BY <1>0, <2>1, <2>2, <2>3, <2>9 DEF Typed
  <2>11. ASSUME NEW l \in Lanes PROVE LedgerStep(l)
    <3>1. CASE l = k
      BY Zenon, <1>0, <2>2, <2>3, <2>7, <2>8, <2>9, <2>10, <3>1 DEF LedgerStep, Typed
    <3>2. CASE l # k
      BY Zenon, <1>0, <1>1, <2>2, <2>3, <2>10, <3>2 DEF LedgerStep, Typed
    <3> QED BY Zenon, <3>1, <3>2
  <2> QED BY Zenon, <2>4, <2>5, <2>6, <2>10, <2>11
<1>5. ASSUME NEW k \in Lanes, RelayRestart(k)
      PROVE  /\ \A l \in Lanes : LedgerStep(l)
             /\ relay' \in [Lanes -> RelayType] /\ billed' \in [Lanes -> Nat]
             /\ post' \in [Posts -> PostType] /\ faults' \in 0..MaxFaults
             /\ UNCHANGED <<acct, funded, store, drv, split>>
  <2> DEFINE entry == [relay[k] EXCEPT !.owed = relay[k].disk, !.reserved = 0]
  <2>1. /\ entry \in RelayType /\ entry.last = relay[k].last
        /\ entry.owed = relay[k].disk /\ entry.disk = relay[k].disk
    BY <1>1, Zenon DEF RelayType
  <2>2. relay' = [relay EXCEPT ![k] = entry] /\ UNCHANGED <<acct, funded, store, drv, billed, split>>
    BY Zenon, <1>5 DEF RelayRestart
  <2>3. faults' \in 0..MaxFaults
    BY Zenon, <1>0, <1>5, FaultType DEF RelayRestart, Typed
  <2>4. post' \in [Posts -> PostType]
    <3>1. NoPost \in PostType
      BY DEF NoPost, PostType
    <3>2. ASSUME NEW p \in Posts PROVE [post[p] EXCEPT !.st = "failed"] \in PostType
      BY <1>0 DEF Typed, PostType
    <3> QED BY Zenon, <1>0, <1>5, <3>1, <3>2 DEF RelayRestart, Typed
  <2> HIDE DEF entry
  <2>5. relay' \in [Lanes -> RelayType] /\ billed' \in [Lanes -> Nat]
    BY Zenon, <1>0, <2>1, <2>2 DEF Typed
  <2>6. ASSUME NEW l \in Lanes PROVE LedgerStep(l)
    BY Zenon, <1>0, <1>1, <2>1, <2>2, <2>5 DEF LedgerStep, Typed
  <2> QED BY Zenon, <2>2, <2>3, <2>4, <2>5, <2>6
<1> QED BY Zenon, <1>3, <1>4, <1>5 DEF RelayLocal

\* Such a step keeps the invariant.
LEMMA RelayLocalInv ==
  ASSUME IInv, RelayLocal PROVE IInv'
<1> USE TypedIsTypeOK
<1>0. Typed
  BY Zenon DEF IInv
<1>1. /\ \A l \in Lanes : LedgerStep(l)
      /\ relay' \in [Lanes -> RelayType] /\ billed' \in [Lanes -> Nat]
      /\ post' \in [Posts -> PostType] /\ faults' \in 0..MaxFaults
      /\ UNCHANGED <<acct, funded, store, drv, split>>
  BY Zenon, RelayLocalStep
<1>2. Typed'
  BY Zenon, <1>0, <1>1 DEF Typed
<1>3. drv.job.lane \in Lanes
  BY Zenon, <1>0 DEF Typed, DriverType, JobType
<1>4. Books_'
  BY Zenon, <1>1, <1>3 DEF IInv, Books_, LedgerStep
<1>5. RecordedWasAccepted'
  BY Zenon, <1>1 DEF IInv, RecordedWasAccepted, LedgerStep
<1> QED BY Zenon, <1>2, <1>4, <1>5 DEF IInv

\* A relay's answer to a cheque: an accepted one moves debt to cheques.
LEMMA RelayPayInv ==
  ASSUME IInv, RelayPay PROVE IInv'
<1> USE TypedIsTypeOK
<1> DEFINE k == drv.job.lane
           verdict == Verdict(k, drv.cum)
           delta == drv.cum - relay[k].last
<1>0. Typed
  BY Zenon DEF IInv
<1>1. /\ k \in Lanes /\ drv.cum \in Nat /\ relay[k] \in RelayType /\ billed[k] \in Nat
      /\ relay[k].owed + relay[k].last <= billed[k]
  BY Zenon, <1>0 DEF IInv, Books_, Typed, DriverType, JobType
<1>2. verdict \in {"nothing", "refused", "exceeds", "accepted"}
  BY Zenon DEF Verdict
<1>3. drv' = [drv EXCEPT !.st = verdict]
      /\ UNCHANGED <<acct, funded, store, post, billed, faults, split>>
  BY Zenon DEF RelayPay
<1> HIDE DEF verdict
<1>4. drv' \in DriverType /\ drv'.st = verdict /\ drv'.job = drv.job /\ drv'.cum = drv.cum
  BY Zenon, <1>0, <1>2, <1>3 DEF Typed, DriverType
<1>5. CASE verdict # "accepted"
  <2>1. UNCHANGED relay
    BY Zenon, <1>5 DEF RelayPay, verdict
  <2>2. Typed'
    BY Zenon, <1>0, <1>3, <1>4, <2>1 DEF Typed
  <2>3. Books_' /\ RecordedWasAccepted'
    BY Zenon, <1>3, <1>4, <1>5, <2>1, BooksFrame
  <2> QED BY Zenon, <2>2, <2>3 DEF IInv
<1>6. CASE verdict = "accepted"
  <2> DEFINE owed == monus(relay[k].owed, delta)
             entry == [relay[k] EXCEPT !.owed = owed, !.disk = owed, !.last = drv.cum]
  <2>1. delta \in Int /\ delta >= 1 /\ delta <= relay[k].owed
    <3>1. /\ ~(delta < AtLeast(effective(Line).min_cheque, 1))
          /\ ~(delta > relay[k].owed)
      BY Zenon, <1>6 DEF Verdict, verdict
    <3>2. delta \in Int /\ relay[k].owed \in Nat
      BY <1>1 DEF RelayType
    <3> QED BY <3>1, <3>2, FloorNat DEF AtLeast
  <2>2. owed = relay[k].owed - delta /\ owed \in Nat
    BY SMTT(60), <1>1, <2>1 DEF monus, RelayType
  <2>3. owed + drv.cum <= billed[k] /\ drv.cum >= relay[k].last
    BY SMTT(60), <1>1, <2>1, <2>2 DEF RelayType
  <2>4. relay' = [relay EXCEPT ![k] = entry]
    BY Zenon, <1>6 DEF RelayPay, verdict
  <2> HIDE DEF owed
  <2>5. entry \in RelayType /\ entry.last = drv.cum /\ entry.owed = owed /\ entry.disk = owed
    BY Zenon, <1>1, <2>2 DEF RelayType
  <2> HIDE DEF entry, delta
  <2>6. relay' \in [Lanes -> RelayType] /\ relay'[k] = entry
        /\ \A l \in Lanes : l # k => relay'[l] = relay[l]
    BY Zenon, <1>0, <1>1, <2>4, <2>5 DEF Typed
  <2>7. Typed'
    BY Zenon, <1>0, <1>3, <1>4, <2>6 DEF Typed
  <2>8. Books_'
    <3>1. ASSUME NEW l \in Lanes
          PROVE  relay'[l].owed + relay'[l].last <= billed'[l]
                 /\ relay'[l].disk + relay'[l].last <= billed'[l]
      <4>1. CASE l = k
        BY Zenon, <1>3, <2>3, <2>5, <2>6, <4>1
      <4>2. CASE l # k
        BY Zenon, <1>3, <2>6, <4>2 DEF IInv, Books_
      <4> QED BY Zenon, <4>1, <4>2
    <3>2. relay'[drv'.job.lane].last >= drv'.cum
      BY <1>1, <1>4, <2>5, <2>6
    <3> QED BY Zenon, <3>1, <3>2 DEF Books_
  <2>9. RecordedWasAccepted'
    <3>1. ASSUME NEW l \in Lanes, NEW n \in Nat, relay[l].last >= n
          PROVE  relay'[l].last >= n
      BY <1>1, <2>3, <2>5, <2>6, <3>1 DEF RelayType
    <3>2. store' = store /\ store \in StoreType
      BY Zenon, <1>0, <1>3 DEF Typed
    <3> QED BY <3>1, <3>2 DEF IInv, RecordedWasAccepted, StoreType
  <2> QED BY Zenon, <2>7, <2>8, <2>9 DEF IInv
<1> QED BY Zenon, <1>5, <1>6

\* Every step keeps the invariant.
LEMMA StepInv == IInv /\ [Next]_vars => IInv'
<1> SUFFICES ASSUME IInv, [Next]_vars PROVE IInv'
  BY Zenon
<1>1. CASE DriverLocal
  BY Zenon, <1>1, DriverLocalType, BooksFrame, TypedIsTypeOK DEF IInv
<1>2. CASE NewRun \/ Crash
  BY Zenon, <1>2, RestartInv
<1>3. ASSUME NEW saved \in BOOLEAN, PayAccepted(saved) PROVE IInv'
  BY Zenon, <1>3, AcceptedInv
<1>4. CASE RelayLocal
  BY Zenon, <1>4, RelayLocalInv
<1>5. CASE RelayPay
  BY Zenon, <1>5, RelayPayInv
<1>6. CASE UNCHANGED vars
  BY <1>6 DEF vars, IInv, TypeOK, Books_, RecordedWasAccepted
<1> QED
  BY Zenon, <1>1, <1>2, <1>3, <1>4, <1>5, <1>6
  DEF Next, DriverStep, RelayStep, DriverLocal, RelayLocal

\* The invariant holds of every behaviour of the client and its relays.
THEOREM InvHolds == Spec => []IInv
BY InitInv, StepInv, PTL DEF Spec

\* No relay holds cheques for more than it billed, for any number of lanes,
\* POSTs and faults (PaidForService; RelayPay and Ledger::credit).
THEOREM PaidForServiceHolds == Spec => []PaidForService
<1>1. IInv => PaidForService
  <2> SUFFICES ASSUME IInv, NEW l \in Lanes PROVE relay[l].last <= billed[l]
    BY Zenon DEF PaidForService
  <2>1. relay[l] \in RelayType /\ billed[l] \in Nat
    BY Zenon, TypedIsTypeOK DEF IInv, Typed
  <2> QED BY <2>1 DEF IInv, Books_, RelayType
<1> QED BY <1>1, InvHolds, PTL

\* The store, in memory and on disk, records only cumulatives that a relay of
\* the payee has accepted (RecordedWasAccepted; LanePayer::pay).
THEOREM RecordedWasAcceptedHolds == Spec => []RecordedWasAccepted
<1>1. IInv => RecordedWasAccepted
  BY Zenon DEF IInv
<1> QED BY <1>1, InvHolds, PTL

-----------------------------------------------------------------------------
\* The chequebook.  A cheque the driver presents continues from the store and
\* fits the balance next to what other payees hold; until a relay's answer is
\* lost, the store is never behind what the relays hold.

Presenting == {"asked", "nothing", "exceeds", "accepted", "refused"}

Continues ==
  drv.st \in Presenting =>
    LET b == Payee[drv.job.lane]
    IN  /\ drv.cum >= store.mem[b] /\ (MinCheque > 0 => drv.cum > store.mem[b])
        /\ acct[drv.job.lane].cumulative >= store.mem[b]

Fits == drv.st \in {"asked", "accepted"} => ~would_exceed_balance(Payee[drv.job.lane], drv.cum)

Known ==
  ~split => \A l \in Lanes :
    \/ relay[l].last <= store.mem[Payee[l]]
    \/ drv.st = "accepted" /\ l = drv.job.lane /\ relay[l].last = drv.cum

Covered == ~split => total_issued <= Balance

BookInv == Continues /\ Fits /\ Known /\ Covered

\* The driver has presented a cheque for all that account a owes.
Asked(job, a, once) ==
  /\ drv'.st = "asked" /\ drv'.job = job /\ drv'.once = once
  /\ drv'.cum = next_cumulative(a)
  /\ a.owed >= thresholds(a).min_cheque
  /\ ~would_exceed_balance(Payee[job.lane], next_cumulative(a))

\* What a settlement leaves behind when it presents no cheque.
Ended(job) ==
  \/ drv'.st = "final" /\ job.why = "final"
  \/ drv' = Idle /\ job.why # "final"
  \/ drv'.st = "reconcile" /\ drv'.job = job /\ job.why = "402"

\* Every end of a settlement is one of the two.
LEMMA ReturnEnds ==
  ASSUME drv \in DriverType, NEW job \in JobType, NEW a, NEW f, Return(job, a, f)
  PROVE  Ended(job) /\ drv'.st \in {"loop", "final"}
BY Zenon, DriverStates DEF Return, Ended, DriverType

\* Nothing can be paid.
LEMMA UnpayableEnds ==
  ASSUME drv \in DriverType, NEW job \in JobType, NEW a, NEW f, Unpayable(job, a, f)
  PROVE  Ended(job) /\ drv'.st \in {"loop", "final", "reconcile"}
<1>1. CASE job.why = "402"
  BY <1>1, Zenon DEF Unpayable, Ended, DriverType
<1>2. CASE job.why # "402"
  BY Zenon, <1>2, ReturnEnds DEF Unpayable
<1> QED
  BY Zenon, <1>1, <1>2

\* A cheque that fits is presented.
LEMMA PresentEnds ==
  ASSUME drv \in DriverType, NEW job \in JobType, NEW a \in AccountType, NEW f, NEW once,
         Present(job, a, f, once), a.owed >= thresholds(a).min_cheque
  PROVE  \/ Ended(job) /\ drv'.st \in {"loop", "final"}
         \/ Asked(job, a, once)
<1>1. CASE Return(job, a, f)
  BY Zenon, <1>1, ReturnEnds
<1>2. CASE ~Return(job, a, f)
  BY <1>2, ZenonT(60) DEF Present, Asked, DriverType
<1> QED
  BY Zenon, <1>1, <1>2

\* settle() brings the account up to the store first.
LEMMA SettleEnds ==
  ASSUME TypeOK, NEW job \in JobType, NEW a \in AccountType, NEW f, settle(job, a, f)
  PROVE  LET b == sync_cumulative(a, job.lane)
         IN  /\ acct' = [acct EXCEPT ![job.lane] = b] /\ b \in AccountType
             /\ b.cumulative >= store.mem[Payee[job.lane]]
             /\ b.owed = a.owed /\ b.pending = a.pending /\ b.cap = a.cap
             /\ b.cumulative \in {a.cumulative, store.mem[Payee[job.lane]]}
             /\ \/ Ended(job) /\ drv'.st \in {"loop", "final", "reconcile"}
                \/ Asked(job, b, TRUE)
<1> DEFINE b == sync_cumulative(a, job.lane)
<1>1. drv \in DriverType
  BY Zenon DEF TypeOK, DriverType, JobType
<1>2. /\ b \in AccountType /\ b.cumulative >= store.mem[Payee[job.lane]]
      /\ b.owed = a.owed /\ b.pending = a.pending /\ b.cap = a.cap
      /\ b.cumulative \in {a.cumulative, store.mem[Payee[job.lane]]}
  <2> DEFINE m == store.mem[Payee[job.lane]]
  <2>1. m \in Nat /\ a.cumulative \in Nat
    BY Zenon DEF TypeOK, JobType, AccountType
  <2>2. AtLeast(a.cumulative, m) \in {a.cumulative, m} /\ AtLeast(a.cumulative, m) >= m
    BY <2>1 DEF AtLeast
  <2>3. b = [a EXCEPT !.cumulative = AtLeast(a.cumulative, m)]
    BY Zenon DEF sync_cumulative, AccountType
  <2> HIDE DEF m, b
  <2> QED
    BY Zenon, <2>1, <2>2, <2>3 DEF AccountType, m
<1>3. acct' = [acct EXCEPT ![job.lane] = b]
  BY Zenon DEF settle
<1>4. thresholds(b).min_cheque \in Nat
  <2>1. b.cap \in {0, Line}
    BY Zenon, <1>2 DEF AccountType
  <2> QED
    BY Zenon, <2>1, FloorNat DEF thresholds
<1>5. CASE b.owed < thresholds(b).min_cheque
  <2>1. Unpayable(job, b, f)
    BY Zenon, <1>5 DEF settle
  <2> HIDE DEF b
  <2>2. Ended(job) /\ drv'.st \in {"loop", "final", "reconcile"}
    BY Zenon, <1>1, <2>1, UnpayableEnds
  <2> QED
    BY Zenon, <1>2, <1>3, <2>2 DEF b
<1>6. CASE ~(b.owed < thresholds(b).min_cheque)
  <2>1. Present(job, b, f, TRUE)
    BY Zenon, <1>6 DEF settle
  <2>2. b.owed >= thresholds(b).min_cheque
    BY SMTT(60), <1>2, <1>4, <1>6 DEF AccountType
  <2> HIDE DEF b
  <2>3. \/ Ended(job) /\ drv'.st \in {"loop", "final"}
        \/ Asked(job, b, TRUE)
    BY Zenon, <1>1, <1>2, <2>1, <2>2, PresentEnds
  <2> QED
    BY Zenon, <1>2, <1>3, <2>3 DEF b
<1> QED
  BY Zenon, <1>5, <1>6

\* Where a step of the driver that touches neither store nor relay leads: it is
\* not presenting a cheque, or has just presented one that continues from the
\* store or repeats one the relay refused as too large.
Presented ==
  \/ drv'.st \notin Presenting
  \/ LET l == drv'.job.lane
     IN  /\ \E once \in BOOLEAN : Asked(drv'.job, acct'[l], once)
         /\ \/ acct'[l].cumulative >= store.mem[Payee[l]]
            \/ /\ drv.st = "exceeds" /\ l = drv.job.lane
               /\ acct'[l].cumulative = acct[l].cumulative

\* A settlement leads there.
LEMMA SettlePresented ==
  ASSUME TypeOK, NEW job \in JobType, NEW a \in AccountType, NEW f, settle(job, a, f)
  PROVE  Presented
<1> DEFINE b == sync_cumulative(a, job.lane)
<1>1. /\ acct' = [acct EXCEPT ![job.lane] = b]
      /\ b.cumulative >= store.mem[Payee[job.lane]]
      /\ \/ Ended(job) /\ drv'.st \in {"loop", "final", "reconcile"}
         \/ Asked(job, b, TRUE)
  BY SettleEnds, Zenon
<1> HIDE DEF b
<1>2. acct'[job.lane] = b
  BY Zenon, <1>1 DEF TypeOK, JobType
<1>3. CASE Asked(job, b, TRUE)
  BY <1>1, <1>2, <1>3, Zenon DEF Presented, Asked
<1> QED
  BY <1>1, <1>3, Zenon DEF Presented, Presenting

\* Every such step leads there, and hides no accepted cheque unless it splits.
LEMMA DriverMoves ==
  ASSUME IInv, DriverLocal
  PROVE  Presented /\ (~split' => ~split /\ drv.st # "accepted")
<1> USE TypedIsTypeOK
<1>0. Typed /\ TypeOK
  BY Zenon DEF IInv
<1>1. ASSUME drv'.st \notin Presenting PROVE Presented
  BY Zenon, <1>1 DEF Presented
<1>2. ASSUME NEW l \in Lanes, NEW c \in BOOLEAN, NEW d \in BOOLEAN, SetupLane(l, c, d)
      PROVE  Presented /\ (~split' => ~split /\ drv.st # "accepted")
  <2>1. drv'.st \in {"setup", "loop"}
    BY Zenon, <1>0, <1>2, DriverStates DEF SetupLane, Typed, DriverType
  <2> QED
    BY Zenon, <1>1, <1>2, <2>1 DEF SetupLane, Presenting
<1>3. ASSUME NEW l \in Lanes, LoopSettle(l) \/ FinalSettle(l)
      PROVE  Presented /\ (~split' => ~split /\ drv.st # "accepted")
  <2>1. Job(l, "headroom", 0) \in JobType /\ Job(l, "final", 0) \in JobType
    BY Jobs
  <2>2. \E job \in JobType : settle(job, acct[l], funded)
    BY Zenon, <1>3, <2>1 DEF LoopSettle, FinalSettle
  <2>3. acct[l] \in AccountType
    BY Zenon, <1>0 DEF Typed
  <2>4. Presented
    BY Zenon, <1>0, <2>2, <2>3, SettlePresented
  <2> QED
    BY <1>3, <2>4 DEF LoopSettle, FinalSettle
<1>4. ASSUME NEW l \in Lanes, NEW n \in 1..MaxFrames, DispatchSettle(l, n)
      PROVE  Presented /\ (~split' => ~split /\ drv.st # "accepted")
  <2>1. Job(l, "dispatch", n) \in JobType /\ acct[l] \in AccountType
    BY <1>0, Jobs DEF Typed
  <2>2. settle(Job(l, "dispatch", n), acct[l], funded) \/ UNCHANGED drv
    BY Zenon, <1>4 DEF DispatchSettle
  <2>3. drv.st = "loop" /\ UNCHANGED split
    BY Zenon, <1>4 DEF DispatchSettle
  <2>4. Presented
    BY Zenon, <1>0, <1>1, <2>1, <2>2, <2>3, SettlePresented DEF Presenting
  <2> QED
    BY Zenon, <2>3, <2>4
<1>5. ASSUME NEW l \in Lanes, NEW p \in Posts, NEW n \in 1..MaxFrames, Send(l, p, n)
      PROVE  Presented /\ (~split' => ~split /\ drv.st # "accepted")
  BY Zenon, <1>1, <1>5 DEF Send, Presenting
<1>6. ASSUME NEW p \in Posts, Done(p)
      PROVE  Presented /\ (~split' => ~split /\ drv.st # "accepted")
  <2> DEFINE l == post[p].lane
             refused == post[p].st = "bounced"
             a == record_answered(acct[l], post[p].frames, ~refused)
             b == refund_dedup(a, post[p].dedup)
             f == [funded EXCEPT ![l] = ~refused /\ (@ \/ post[p].st = "answered")]
  <2>1. l \in Lanes /\ post[p].frames \in Nat /\ post[p].dedup \in Nat /\ refused \in BOOLEAN
    BY <1>0 DEF Typed, PostType
  <2>2. a \in AccountType
    BY <1>0, <2>1, AccountOps, Zenon DEF Typed
  <2>3. b \in AccountType
    BY <2>1, <2>2, AccountOps, Zenon
  <2>4. Job(l, "402", 0) \in JobType /\ Job(l, "window", 0) \in JobType
    BY <2>1, Jobs
  <2>5. \/ settle(Job(l, "402", 0), a, f)
        \/ settle(Job(l, "window", 0), b, f)
        \/ UNCHANGED drv
    BY Zenon, <1>6 DEF Done
  <2>6. drv.st = "loop" /\ UNCHANGED split
    BY Zenon, <1>6 DEF Done
  <2> HIDE DEF a, b, f, refused, l
  <2>7. CASE settle(Job(l, "402", 0), a, f)
    BY Zenon, <1>0, <2>2, <2>4, <2>6, <2>7, SettlePresented
  <2>8. CASE settle(Job(l, "window", 0), b, f)
    BY Zenon, <1>0, <2>3, <2>4, <2>6, <2>8, SettlePresented
  <2>9. CASE UNCHANGED drv
    BY Zenon, <1>1, <2>6, <2>9 DEF Presenting
  <2> QED
    BY Zenon, <2>5, <2>7, <2>8, <2>9
<1>7. CASE Finish \/ Stall
  <2>1. drv'.st \in {"final", "over"}
    BY Zenon, <1>7, DriverStates DEF Finish, Stall, DriverType
  <2>2. drv.st = "loop" /\ UNCHANGED split
    BY Zenon, <1>7 DEF Finish, Stall
  <2> QED
    BY Zenon, <1>1, <2>1, <2>2 DEF Presenting
<1>8. drv \in DriverType /\ drv.job \in JobType /\ drv.job.lane \in Lanes
      /\ acct[drv.job.lane] \in AccountType /\ relay[drv.job.lane].owed \in Nat
  BY Zenon, <1>0 DEF Typed, DriverType, JobType, RelayType
<1>9. CASE PayNothing
  <2>1. drv'.st \in {"loop", "final", "reconcile"}
    <3>1. \E a : Unpayable(drv.job, a, funded)
      BY Zenon, <1>9 DEF PayNothing
    <3> QED
      BY Zenon, <1>8, <3>1, UnpayableEnds
  <2> QED
    BY Zenon, <1>1, <1>9, <2>1 DEF PayNothing, Presenting
<1>10. CASE PayCorrect
  <2> DEFINE l == drv.job.lane
             a == [acct[l] EXCEPT !.owed = relay[l].owed]
  <2>1. a \in AccountType /\ a.cumulative = acct[l].cumulative
    BY Zenon, <1>8 DEF AccountType
  <2>2. acct'[l] = a
    BY Zenon, <1>0, <1>8, <1>10 DEF PayCorrect, Typed
  <2>3. thresholds(a).min_cheque \in Nat /\ a.owed \in Nat
    <3> HIDE DEF a
    <3> QED
      BY Zenon, <2>1, FloorNat DEF thresholds, AccountType
  <2>4. \/ Unpayable(drv.job, a, funded)
        \/ a.owed >= thresholds(a).min_cheque /\ Present(drv.job, a, funded, FALSE)
    <3>1. IF a.owed < thresholds(a).min_cheque THEN Unpayable(drv.job, a, funded)
          ELSE Present(drv.job, a, funded, FALSE)
      BY Zenon, <1>10 DEF PayCorrect
    <3> HIDE DEF a
    <3>2. CASE a.owed < thresholds(a).min_cheque
      BY <3>1, <3>2, Zenon
    <3>3. CASE ~(a.owed < thresholds(a).min_cheque)
      <4>1. a.owed >= thresholds(a).min_cheque
        BY <2>3, <3>3
      <4> QED
        BY <3>1, <3>3, <4>1, Zenon
    <3> QED
      BY Zenon, <3>2, <3>3
  <2>5. drv.st = "exceeds" /\ UNCHANGED split
    BY Zenon, <1>10 DEF PayCorrect
  <2> HIDE DEF a
  <2>6. drv'.st \in {"loop", "final", "reconcile"} \/ Asked(drv.job, a, FALSE)
    BY Zenon, <1>8, <2>1, <2>4, UnpayableEnds, PresentEnds
  <2>7. CASE Asked(drv.job, a, FALSE)
    <3>1. drv'.job = drv.job
      BY Zenon, <2>7 DEF Asked
    <3>2. Presented
      BY Zenon, <2>1, <2>2, <2>5, <2>7, <3>1 DEF Presented
    <3> QED
      BY Zenon, <2>5, <3>2
  <2> QED
    BY Zenon, <1>1, <2>5, <2>6, <2>7 DEF Presenting
<1>11. CASE PayRefused \/ PayFails
  <2>1. Return(drv.job, acct[drv.job.lane], funded)
    BY Zenon, <1>11 DEF PayRefused, PayFails
  <2>2. drv'.st \in {"loop", "final"}
    BY Zenon, <1>8, <2>1, ReturnEnds
  <2> QED
    BY Zenon, <1>0, <1>1, <1>11, <2>2 DEF PayRefused, PayFails, Presenting, Typed
<1>12. ASSUME NEW got \in BOOLEAN, Reconcile(got)
       PROVE  Presented /\ (~split' => ~split /\ drv.st # "accepted")
  <2> DEFINE l == drv.job.lane
             a == adopt_relay_debt(acct[l], relay[l].owed)
             again == Job(l, "again", 0)
  <2>1. a \in AccountType /\ again \in JobType
    <3>1. a \in AccountType
      BY <1>8, AmountOps, Zenon
    <3>2. again \in JobType
      BY <1>8, Jobs
    <3> QED
      BY Zenon, <3>1, <3>2
  <2>2. \/ Return(drv.job, acct[l], funded)
        \/ settle(again, a, funded)
        \/ Unpayable(again, a, funded)
    BY Zenon, <1>12 DEF Reconcile
  <2>3. drv.st = "reconcile" /\ UNCHANGED split
    BY Zenon, <1>12 DEF Reconcile
  <2> HIDE DEF a, again
  <2>4. CASE settle(again, a, funded)
    BY Zenon, <1>0, <2>1, <2>3, <2>4, SettlePresented
  <2>5. CASE Return(drv.job, acct[l], funded) \/ Unpayable(again, a, funded)
    <3>1. drv'.st \in {"loop", "final", "reconcile"}
      BY Zenon, <1>8, <2>1, <2>5, ReturnEnds, UnpayableEnds
    <3> QED
      BY Zenon, <1>1, <2>3, <3>1 DEF Presenting
  <2> QED
    BY Zenon, <2>2, <2>4, <2>5
<1> QED
  BY Zenon, <1>2, <1>3, <1>4, <1>5, <1>6, <1>7, <1>9, <1>10, <1>11, <1>12 DEF DriverLocal

\* With a dust floor in the price list every cheque is for something.
LEMMA FloorPositive ==
  ASSUME NEW a \in AccountType, MinCheque > 0 \/ a.cap = Line
  PROVE  thresholds(a).min_cheque \in Nat /\ thresholds(a).min_cheque >= 1
<1>1. effective(Line).min_cheque \in Nat /\ effective(Line).min_cheque >= 1
  <2>1. Line \div 2 \in Nat
    OBVIOUS
  <2> QED
    BY <2>1 DEF effective, AtLeast, AtMost
<1> QED
  BY <1>1 DEF thresholds, AccountType

\* The driver's own steps.
LEMMA DriverBook == ASSUME IInv, BookInv, DriverLocal PROVE BookInv'
<1>0. Typed
  BY Zenon, TypedIsTypeOK DEF IInv
<1>1. Typed' /\ drv'.st # "accepted" /\ UNCHANGED <<relay, billed, store>>
  BY Zenon, DriverLocalType
<1>2. Presented /\ (~split' => ~split /\ drv.st # "accepted")
  BY Zenon, DriverMoves
<1> DEFINE l == drv'.job.lane
<1>3. l \in Lanes /\ acct'[l] \in AccountType /\ store.mem[Payee[l]] \in Nat
  BY Zenon, <1>0, <1>1 DEF Typed, DriverType, JobType, StoreType
<1> HIDE DEF l
<1>4. CASE drv'.st \notin Presenting
  <2>1. Continues' /\ Fits'
    BY Zenon, <1>4 DEF Continues, Fits, Presenting
  <2> QED
    BY Zenon, <1>1, <1>2, <2>1 DEF BookInv, Known, Covered, total_issued
<1>5. CASE drv'.st \in Presenting
  <2>1. PICK once \in BOOLEAN : Asked(drv'.job, acct'[l], once)
    BY Zenon, <1>2, <1>5 DEF Presented, l
  <2>2. acct'[l].cumulative >= store.mem[Payee[l]]
    <3>1. CASE drv.st = "exceeds" /\ l = drv.job.lane /\ acct'[l].cumulative = acct[l].cumulative
      BY Zenon, <3>1 DEF BookInv, Continues, Presenting
    <3> QED
      BY Zenon, <1>2, <1>5, <3>1 DEF Presented, l
  <2>3. drv'.cum = acct'[l].cumulative + acct'[l].owed
        /\ acct'[l].owed >= thresholds(acct'[l]).min_cheque
        /\ ~would_exceed_balance(Payee[l], drv'.cum)
    BY Zenon, <2>1 DEF Asked, next_cumulative, l
  <2>4. MinCheque > 0 => acct'[l].owed >= 1
    <3>1. SUFFICES ASSUME MinCheque > 0 PROVE acct'[l].owed >= 1
      BY Zenon
    <3>2. thresholds(acct'[l]).min_cheque \in Nat /\ thresholds(acct'[l]).min_cheque >= 1
      BY Zenon, <1>3, <3>1, FloorPositive
    <3> QED
      BY <1>3, <2>3, <3>2 DEF AccountType
  <2>5. drv'.cum >= store.mem[Payee[l]] /\ (MinCheque > 0 => drv'.cum > store.mem[Payee[l]])
    BY <1>3, <2>2, <2>3, <2>4 DEF AccountType
  <2>6. Continues'
    BY Zenon, <1>1, <2>2, <2>5 DEF Continues, l
  <2>7. Fits'
    BY Zenon, <1>1, <2>3 DEF Fits, l, would_exceed_balance, total_issued
  <2> QED
    BY Zenon, <1>1, <1>2, <2>6, <2>7 DEF BookInv, Known, Covered, total_issued
<1> QED
  BY Zenon, <1>4, <1>5

\* A new run.
LEMMA RestartBook == ASSUME IInv, BookInv, NewRun \/ Crash PROVE BookInv'
<1>0. Typed
  BY Zenon, TypedIsTypeOK DEF IInv
<1>1. /\ drv' = Setup /\ store' = [store EXCEPT !.mem = store.disk]
      /\ split' = (split \/ drv.st = "accepted" \/ store.disk # store.mem)
      /\ UNCHANGED relay
  BY Zenon DEF NewRun, Crash, Restarted
<1>2. drv'.st = "setup"
  BY Zenon, <1>1, DriverStates
<1>3. ~split' => ~split /\ drv.st # "accepted" /\ store'.mem = store.mem
  BY <1>0, <1>1, Zenon DEF Typed, StoreType
<1>4. Continues' /\ Fits'
  BY Zenon, <1>2 DEF Continues, Fits, Presenting
<1> QED
  BY Zenon, <1>1, <1>3, <1>4 DEF BookInv, Known, Covered, total_issued

\* The relays' steps between payments.
LEMMA RelayLocalBook == ASSUME IInv, BookInv, RelayLocal PROVE BookInv'
<1>1. /\ \A l \in Lanes : LedgerStep(l)
      /\ UNCHANGED <<acct, funded, store, drv, split>>
  BY Zenon, RelayLocalStep
<1>2. \A l \in Lanes : relay'[l].last = relay[l].last
  BY Zenon, <1>1 DEF LedgerStep
<1>3. Known'
  BY Zenon, <1>1, <1>2 DEF BookInv, Known
<1> QED
  BY Zenon, <1>1, <1>3 DEF BookInv, Continues, Fits, Covered, total_issued, would_exceed_balance

\* A payment leaves the driver with the relay's verdict.
LEMMA RelayPayBook == ASSUME IInv, BookInv, RelayPay PROVE BookInv'
<1> DEFINE k == drv.job.lane
           verdict == Verdict(k, drv.cum)
<1>0. Typed
  BY Zenon, TypedIsTypeOK DEF IInv
<1>1. /\ drv' = [drv EXCEPT !.st = verdict] /\ drv.st = "asked"
      /\ UNCHANGED <<acct, funded, store, post, billed, faults, split>>
  BY Zenon DEF RelayPay
<1>2. verdict \in {"nothing", "refused", "exceeds", "accepted"}
  BY Zenon DEF Verdict
<1>3. IF verdict = "accepted"
      THEN \E owed : relay' = [relay EXCEPT ![k] = [@ EXCEPT !.owed = owed, !.disk = owed,
                                                             !.last = drv.cum]]
      ELSE UNCHANGED relay
  BY Zenon DEF RelayPay
<1> HIDE DEF verdict
<1>4. drv'.st = verdict /\ drv'.job = drv.job /\ drv'.cum = drv.cum
  BY Zenon, <1>0, <1>1 DEF Typed, DriverType
<1>5. Continues' /\ Fits' /\ Covered'
  BY Zenon, <1>1, <1>2, <1>4
  DEF BookInv, Continues, Fits, Covered, Presenting, would_exceed_balance, total_issued
<1>6. Known'
  <2>1. SUFFICES ASSUME ~split', NEW l \in Lanes
                 PROVE  \/ relay'[l].last <= store'.mem[Payee[l]]
                        \/ drv'.st = "accepted" /\ l = drv'.job.lane /\ relay'[l].last = drv'.cum
    BY Zenon DEF Known
  <2>2. relay[l].last <= store.mem[Payee[l]]
    BY Zenon, <1>1, <2>1 DEF BookInv, Known
  <2>3. CASE l = k /\ verdict = "accepted"
    <3>1. PICK owed : relay' = [relay EXCEPT ![k] = [@ EXCEPT !.owed = owed, !.disk = owed,
                                                              !.last = drv.cum]]
      BY Zenon, <1>3, <2>3
    <3>2. relay'[l] = [relay[l] EXCEPT !.owed = owed, !.disk = owed, !.last = drv.cum]
      BY <1>0, <2>3, <3>1, Zenon DEF Typed
    <3>3. relay'[l].last = drv.cum
      BY <1>0, <3>2 DEF Typed, RelayType
    <3> QED
      BY Zenon, <1>4, <2>3, <3>3
  <2>4. CASE ~(l = k /\ verdict = "accepted")
    <3>1. relay'[l] = relay[l]
      BY Zenon, <1>0, <1>3, <2>4 DEF Typed
    <3> QED
      BY Zenon, <1>1, <2>2, <3>1
  <2> QED
    BY Zenon, <2>3, <2>4
<1> QED
  BY Zenon, <1>5, <1>6 DEF BookInv

\* Recording an accepted cheque.
LEMMA AcceptedBook ==
  ASSUME IInv, BookInv, NEW saved \in BOOLEAN, PayAccepted(saved) PROVE BookInv'
<1> DEFINE k == drv.job.lane
           b == Payee[k]
           mem == [store.mem EXCEPT ![b] = drv.cum]
<1>0. Typed
  BY Zenon, TypedIsTypeOK DEF IInv
<1>1. /\ drv \in DriverType /\ drv.job \in JobType /\ k \in Lanes /\ b \in Payees
      /\ drv.cum \in Nat /\ store.mem \in [Payees -> Nat] /\ mem \in [Payees -> Nat]
  BY Zenon, <1>0 DEF Typed, DriverType, JobType, StoreType
<1>2. drv.st = "accepted" /\ UNCHANGED <<relay, split>> /\ ~would_exceed_balance(b, drv.cum)
  BY Zenon DEF PayAccepted
<1>3. store'.mem = mem
  BY Zenon DEF PayAccepted, set_cumulative
<1>4. drv'.st \in {"loop", "final"}
  <2>1. \E a, f : Return(drv.job, a, f)
    BY Zenon DEF PayAccepted, Cleared
  <2> QED
    BY Zenon, <1>1, <2>1, ReturnEnds
<1>5. Continues' /\ Fits'
  BY Zenon, <1>4 DEF Continues, Fits, Presenting
<1> HIDE DEF k, b
<1>6. mem[b] = drv.cum /\ \A x \in Payees \ {b} : store.mem[x] = mem[x]
  BY Zenon, <1>1
<1>7. \A x \in Payees : store.mem[x] \in Nat /\ mem[x] \in Nat
  BY Zenon, <1>1
<1> HIDE DEF mem
<1>8. Covered'
  <2>1. SumOver(store.mem, Payees) + mem[b] = SumOver(mem, Payees) + store.mem[b]
    <3> DEFINE f == store.mem
    <3>1. b \in Payees /\ IsFiniteSet(Payees)
      BY Zenon, <1>1
    <3>2. \A x \in Payees \ {b} : f[x] = mem[x]
      BY Zenon, <1>6
    <3>3. \A x \in Payees : f[x] \in Nat /\ mem[x] \in Nat
      BY Zenon, <1>7
    <3> HIDE DEF f
    <3>4. SumOver(f, Payees) + mem[b] = SumOver(mem, Payees) + f[b]
      BY <3>1, <3>2, <3>3, SumChange
    <3> QED
      BY Zenon, <3>4 DEF f
  <2>2. SumOver(store.mem, Payees) \in Nat
    BY Zenon, <1>7, SumNat, SettlementAssumption
  <2>3. SumOver(mem, Payees) \in Nat
    BY Zenon, <1>7, SumNat, SettlementAssumption
  <2>4. ~(SumOver(store.mem, Payees) - store.mem[b] + drv.cum > Balance)
    BY Zenon, <1>2 DEF would_exceed_balance, total_issued
  <2>5. SumOver(mem, Payees) <= Balance
    BY <1>1, <1>6, <1>7, <2>1, <2>2, <2>3, <2>4
  <2> QED
    BY Zenon, <1>3, <2>5 DEF Covered, total_issued
<1>9. Known'
  <2>1. SUFFICES ASSUME ~split', NEW l \in Lanes PROVE relay'[l].last <= store'.mem[Payee[l]]
    BY Zenon DEF Known
  <2>2. drv.cum >= store.mem[b]
    BY Zenon, <1>2 DEF BookInv, Continues, Presenting, b, k
  <2>3. relay[l].last <= store.mem[Payee[l]] \/ (l = k /\ relay[l].last = drv.cum)
    BY Zenon, <1>2, <2>1 DEF BookInv, Known, k
  <2>4. Payee[l] \in Payees /\ relay[l].last \in Nat
    BY Zenon, <1>0 DEF Typed, RelayType
  <2>5. CASE Payee[l] = b
    BY SMTT(60), <1>1, <1>2, <1>3, <1>6, <2>2, <2>3, <2>4, <2>5
  <2>6. CASE Payee[l] # b
    BY Zenon, <1>1, <1>2, <1>3, <1>6, <2>3, <2>4, <2>6 DEF b
  <2> QED
    BY Zenon, <2>5, <2>6
<1> QED
  BY Zenon, <1>5, <1>8, <1>9 DEF BookInv

\* Initially nothing is issued.
LEMMA InitBook == Init => BookInv
<1> SUFFICES ASSUME Init PROVE BookInv
  BY Zenon
<1>1. drv.st = "setup"
  BY Zenon, DriverStates DEF Init
<1>2. \A x \in Payees : store.mem[x] = 0
  BY Zenon DEF Init
<1>3. Known
  BY <1>2 DEF Init, Known
<1>4. Covered
  <2> DEFINE f == store.mem
  <2>1. f = [b \in Payees |-> 0]
    BY Zenon DEF Init
  <2>2. SumOver(f, Payees) = 0
    BY Zenon, <2>1, SumZero
  <2> QED
    BY <2>2 DEF Covered, total_issued
<1> QED
  BY Zenon, <1>1, <1>3, <1>4 DEF BookInv, Continues, Fits, Presenting

\* Every step keeps it.
LEMMA StepBook == IInv /\ BookInv /\ [Next]_vars => BookInv'
<1> SUFFICES ASSUME IInv, BookInv, [Next]_vars PROVE BookInv'
  BY Zenon
<1>1. CASE UNCHANGED vars
  BY Zenon, <1>1 DEF vars, BookInv, Continues, Fits, Known, Covered, total_issued, would_exceed_balance
<1> QED
  BY Zenon, <1>1, DriverBook, RestartBook, AcceptedBook, RelayLocalBook, RelayPayBook
  DEF Next, DriverStep, RelayStep, DriverLocal, RelayLocal

\* Both invariants hold of every behaviour.
LEMMA BookHolds == Spec => [](IInv /\ BookInv)
<1>1. Init => IInv /\ BookInv
  BY Zenon, InitInv, InitBook
<1>2. (IInv /\ BookInv) /\ [Next]_vars => (IInv /\ BookInv)'
  BY Zenon, StepInv, StepBook
<1> QED
  BY <1>1, <1>2, PTL DEF Spec

\* What a payee can draw is a natural number, and one of its relays holds it.
LEMMA DrawableMax ==
  ASSUME Typed, NEW b \in Payees
  PROVE  /\ Drawable(b) \in Nat
         /\ Drawable(b) = 0 \/ \E l \in Lanes : Payee[l] = b /\ Drawable(b) = relay[l].last
<1> DEFINE R == {m \in Lanes : Payee[m] = b}
           S == {0} \cup {relay[l].last : l \in R}
<1>1. IsFiniteSet(R)
  BY Zenon, FS_Subset
<1>2. IsFiniteSet({relay[l].last : l \in R})
  <2> DEFINE T == {relay[l].last : l \in R}
             h == [l \in R |-> relay[l].last]
  <2>1. h \in Surjection(R, T)
    BY Zenon DEF Surjection
  <2> HIDE DEF h, T, R
  <2>2. IsFiniteSet(T)
    BY Zenon, <1>1, <2>1, FS_Surjection
  <2> QED
    BY Zenon, <2>2 DEF T
<1>3. IsFiniteSet(S)
  <2> DEFINE T == {relay[l].last : l \in R}
  <2>1. IsFiniteSet(T)
    BY Zenon, <1>2
  <2> HIDE DEF T
  <2>2. IsFiniteSet(T \cup {0})
    BY Zenon, <2>1, FS_AddElement
  <2>3. T \cup {0} = S
    BY Zenon DEF T
  <2> QED
    BY <2>2, <2>3, Zenon
<1>4. S \subseteq Nat /\ S # {}
  BY DEF Typed, RelayType
<1>5. Drawable(b) = Max(S)
  BY Zenon DEF Drawable
<1>6. \A x \in S : x = 0 \/ \E l \in Lanes : Payee[l] = b /\ x = relay[l].last
  BY Zenon
<1> HIDE DEF S
<1>7. Max(S) \in S
  BY <1>3, <1>4, MaxIn, Zenon
<1> QED
  BY <1>4, <1>5, <1>6, <1>7, Zenon

\* The cheques that the relays hold never add up to more than the chequebook's
\* balance, for any number of relays and payees, whatever is retried, restarted
\* or lost, as long as no answer to an accepted cheque is (CoveredByBalance;
\* ChequeStore::would_exceed_balance before and after the POST).
THEOREM AlwaysCovered == Spec => []CoveredByBalance
<1>1. IInv /\ BookInv => CoveredByBalance
  <2> SUFFICES ASSUME IInv, BookInv, ~split
               PROVE  SumOver([b \in Payees |-> Drawable(b)], Payees) <= Balance
    BY Zenon DEF CoveredByBalance
  <2>0. Typed
    BY Zenon, TypedIsTypeOK DEF IInv
  <2> DEFINE d == [b \in Payees |-> Drawable(b)]
             c == Payee[drv.job.lane]
             g == IF drv.st = "accepted" THEN [store.mem EXCEPT ![c] = drv.cum] ELSE store.mem
  <2>1. /\ c \in Payees /\ drv.cum \in Nat /\ store.mem \in [Payees -> Nat]
        /\ g \in [Payees -> Nat]
    BY Zenon, <2>0 DEF Typed, DriverType, JobType, StoreType
  <2>2. ASSUME NEW b \in Payees PROVE store.mem[b] <= g[b]
    BY SMTT(60), <2>1 DEF BookInv, Continues, Presenting
  <2>3. ASSUME NEW b \in Payees PROVE d[b] \in Nat /\ g[b] \in Nat /\ d[b] <= g[b]
    <3>1. d[b] = Drawable(b) /\ g[b] \in Nat /\ store.mem[b] \in Nat
      BY Zenon, <2>1
    <3>2. ASSUME NEW l \in Lanes, Payee[l] = b PROVE relay[l].last <= g[b]
      <4>1. relay[l].last \in Nat
        BY Zenon, <2>0 DEF Typed, RelayType
      <4>2. CASE relay[l].last <= store.mem[b]
        <5> HIDE DEF g
        <5> QED
          BY <2>2, <3>1, <4>1, <4>2
      <4>3. CASE drv.st = "accepted" /\ l = drv.job.lane /\ relay[l].last = drv.cum
        BY <2>1, <3>2, <4>1, <4>3
      <4> QED
        BY Zenon, <3>2, <4>2, <4>3 DEF BookInv, Known
    <3> HIDE DEF d, g
    <3>3. /\ Drawable(b) \in Nat
          /\ Drawable(b) = 0 \/ \E l \in Lanes : Payee[l] = b /\ Drawable(b) = relay[l].last
      BY Zenon, <2>0, DrawableMax
    <3> QED
      BY <3>1, <3>2, <3>3
  <2>4. SumOver(d, Payees) <= SumOver(g, Payees)
    <3> HIDE DEF d, g
    <3> QED
      BY Zenon, <2>3, SumMonotone
  <2>5. \A b \in Payees : d[b] \in Nat /\ g[b] \in Nat /\ store.mem[b] \in Nat
    <3> HIDE DEF d, g
    <3> QED
      BY Zenon, <2>1, <2>3
  <2>6. SumOver(d, Payees) \in Nat
    <3> HIDE DEF d, g
    <3> QED
      BY Zenon, <2>5, SumNat
  <2>7. SumOver(g, Payees) \in Nat /\ SumOver(g, Payees) <= Balance
    <3>1. CASE drv.st # "accepted"
      <4>1. g = store.mem
        BY Zenon, <3>1
      <4> HIDE DEF g
      <4>2. SumOver(g, Payees) \in Nat
        BY Zenon, <2>5, SumNat
      <4> QED
        BY Zenon, <4>1, <4>2 DEF BookInv, Covered, total_issued
    <3>2. CASE drv.st = "accepted"
      <4> DEFINE f == store.mem
      <4>1. g[c] = drv.cum /\ \A x \in Payees \ {c} : f[x] = g[x]
        BY Zenon, <2>1, <3>2
      <4>2. ~(SumOver(f, Payees) - f[c] + drv.cum > Balance)
        BY Zenon, <3>2 DEF BookInv, Fits, would_exceed_balance, total_issued
      <4>3. \A x \in Payees : f[x] \in Nat /\ g[x] \in Nat
        BY Zenon, <2>5
      <4> HIDE DEF f, g, c
      <4>4. SumOver(f, Payees) + g[c] = SumOver(g, Payees) + f[c]
        BY <2>1, <4>1, <4>3, SumChange
      <4>5. SumOver(f, Payees) \in Nat
        BY Zenon, <4>3, SumNat
      <4>6. SumOver(g, Payees) \in Nat
        BY Zenon, <4>3, SumNat
      <4> QED
        BY <2>1, <4>1, <4>2, <4>3, <4>4, <4>5, <4>6
    <3> QED
      BY Zenon, <3>1, <3>2
  <2> HIDE DEF d, g
  <2>8. SumOver(d, Payees) <= Balance
    BY <2>4, <2>6, <2>7
  <2> QED
    BY Zenon, <2>8 DEF d
<1> QED
  BY <1>1, BookHolds, PTL

\* A cheque is refused for not increasing only after an answer was lost, or when
\* the price list has no dust floor (NonIncreasingForCause;
\* LaneAccount::sync_cumulative and ChequeStore::set_cumulative).
THEOREM IncreasingUnlessSplit == Spec => []NonIncreasingForCause
<1>1. IInv /\ BookInv => NonIncreasingForCause
  <2> SUFFICES ASSUME IInv, BookInv, drv.st = "refused", ~split, MinCheque > 0
               PROVE  drv.cum > relay[drv.job.lane].last
    BY Zenon DEF NonIncreasingForCause
  <2> DEFINE k == drv.job.lane
  <2>1. k \in Lanes /\ drv.cum \in Nat /\ relay[k].last \in Nat /\ store.mem[Payee[k]] \in Nat
    BY Zenon, TypedIsTypeOK DEF IInv, Typed, DriverType, JobType, RelayType, StoreType
  <2>2. relay[k].last <= store.mem[Payee[k]]
    BY Zenon, <2>1 DEF BookInv, Known
  <2>3. drv.cum > store.mem[Payee[k]]
    BY Zenon DEF BookInv, Continues, Presenting
  <2> QED
    BY SMTT(60), <2>1, <2>2, <2>3
<1> QED
  BY <1>1, BookHolds, PTL

-----------------------------------------------------------------------------
\* The phases of an upload.

\* The client's debt to a lane, less a cheque that its relay has accepted.
Owing(l) == IF drv.st = "accepted" /\ l = drv.job.lane THEN 0 ELSE acct[l].owed

\* The upload is over but for its last settlement.
Closed == drv.st \in {"final", "over"} \/ drv.job.why = "final"

Phases ==
  /\ drv.st \in {"setup", "loop", "reconcile"} => drv.job.why # "final"
  /\ drv.st = "setup" \/ Closed => \A p \in Posts : ~post[p].live
  /\ \A p \in Posts : post[p].dedup <= post[p].frames /\ (post[p].st = "free" => ~post[p].live)
  /\ faults = 0 => \A p \in Posts : post[p].st # "failed"
  /\ faults = 0 => \A l \in Lanes : acct[l].cap = Line \/ (drv.st = "setup" /\ l \in drv.left)

\* The driver's resting states belong to no settlement.
LEMMA Resting ==
  /\ Idle.st = "loop" /\ Idle.job.why = "none"
  /\ Setup.st = "setup" /\ Setup.job.why = "none" /\ Setup.left = Lanes
BY Zenon DEF Idle, Setup, Job

\* The jobs the driver makes, and what they are for.
LEMMA JobIs ==
  ASSUME NEW l \in Lanes, NEW n \in 0..MaxFrames,
         NEW why \in {"headroom", "dispatch", "402", "window", "again", "final"}
  PROVE  /\ Job(l, why, n) \in JobType
         /\ Job(l, why, n).lane = l /\ Job(l, why, n).why = why
BY Zenon DEF Job, JobType

\* A free POST is nobody's.
LEMMA FreePost ==
  /\ NoPost \in PostType /\ NoPost.st = "free" /\ ~NoPost.live
  /\ NoPost.dedup = 0 /\ NoPost.frames = 0
BY DEF NoPost, PostType

\* Where a settlement called for job leads.
Leads(job) == Ended(job) \/ \E a, once : Asked(job, a, once)

\* It leads to the phase it was called from.
LEMMA LeadsTo ==
  ASSUME NEW job \in JobType, Leads(job)
  PROVE  /\ drv'.st # "setup" /\ (Closed' <=> job.why = "final")
         /\ drv'.st \in {"loop", "reconcile"} => drv'.job.why # "final"
<1>1. CASE Ended(job)
  BY Zenon, <1>1, Resting DEF Ended, Closed
<1>2. CASE \E a, once : Asked(job, a, once)
  BY Zenon, <1>2 DEF Asked, Closed
<1> QED
  BY Zenon, <1>1, <1>2 DEF Leads

\* A settlement touches one account, and of it only the cumulative.
LEMMA SettleLeads ==
  ASSUME Typed, NEW job \in JobType, NEW a \in AccountType, NEW f, settle(job, a, f)
  PROVE  /\ Leads(job)
         /\ acct'[job.lane].owed = a.owed /\ acct'[job.lane].pending = a.pending
         /\ acct'[job.lane].cap = a.cap
         /\ acct'[job.lane].cumulative \in {a.cumulative, store.mem[Payee[job.lane]]}
         /\ \A l \in Lanes \ {job.lane} : acct'[l] = acct[l]
<1> DEFINE b == sync_cumulative(a, job.lane)
<1>1. /\ acct' = [acct EXCEPT ![job.lane] = b]
      /\ b.owed = a.owed /\ b.pending = a.pending /\ b.cap = a.cap
      /\ b.cumulative \in {a.cumulative, store.mem[Payee[job.lane]]}
      /\ Ended(job) \/ Asked(job, b, TRUE)
  BY SettleEnds, TypedIsTypeOK, Zenon
<1> HIDE DEF b
<1>2. acct'[job.lane] = b /\ \A l \in Lanes \ {job.lane} : acct'[l] = acct[l]
  BY Zenon, <1>1 DEF Typed, JobType
<1>3. Leads(job)
  BY <1>1, Zenon DEF Leads
<1> QED
  BY Zenon, <1>1, <1>2, <1>3

\* A step that comes from a settlement, or ends one, keeps the phases.
LEMMA JobPhases ==
  ASSUME Typed, Phases, NEW job \in JobType, Leads(job), drv.st # "setup",
         Closed <=> job.why = "final", faults' \in {faults, faults + 1},
         \A p \in Posts : post'[p] \in {post[p], NoPost},
         \A l \in Lanes : acct'[l].cap = acct[l].cap
  PROVE  Phases' /\ (Closed => Closed')
<1>1. /\ drv'.st # "setup" /\ (Closed' <=> Closed)
      /\ drv'.st \in {"loop", "reconcile"} => drv'.job.why # "final"
  BY Zenon, LeadsTo
<1>2. faults' = 0 => faults = 0
  BY DEF Typed
<1>3. Closed' => \A p \in Posts : ~post'[p].live
  BY Zenon, <1>1, FreePost DEF Phases
<1>4. \A p \in Posts : post'[p].dedup <= post'[p].frames
                       /\ (post'[p].st = "free" => ~post'[p].live)
  BY FreePost DEF Phases
<1>5. faults' = 0 => \A p \in Posts : post'[p].st # "failed"
  BY Zenon, <1>2, FreePost DEF Phases
<1>6. faults' = 0 => \A l \in Lanes : acct'[l].cap = Line
  BY Zenon, <1>2 DEF Phases
<1> QED
  BY Zenon, <1>1, <1>3, <1>4, <1>5, <1>6 DEF Phases

\* A step of the driver that leaves the POSTs alone raises no debt beyond what
\* the relay has booked and the driver has not yet been answered for.
Quiet ==
  /\ UNCHANGED post
  /\ \A l \in Lanes :
       /\ acct'[l].pending = acct[l].pending
       /\ Alone(l) /\ faults' = 0 /\ ~Closed' =>
            acct'[l].owed <= Owing(l) \/ acct'[l].owed + acct[l].pending <= relay[l].owed

\* Taking over the relay's figure is such a step.
LEMMA AdoptQuiet ==
  ASSUME NEW a \in AccountType, NEW m \in Nat
  PROVE  LET b == adopt_relay_debt(a, m)
         IN  /\ b \in AccountType /\ b.pending = a.pending /\ b.cap = a.cap
             /\ b.cumulative = a.cumulative
             /\ b.owed = a.owed \/ b.owed + a.pending <= m
<1> DEFINE x == AtLeast(a.owed, monus(m, a.pending))
<1>1. a.owed \in Nat /\ a.pending \in Nat
  BY Zenon DEF AccountType
<1>2. x \in Nat /\ (x = a.owed \/ x + a.pending <= m)
  BY <1>1 DEF AtLeast, monus
<1>3. adopt_relay_debt(a, m) = [a EXCEPT !.owed = x]
  BY Zenon DEF adopt_relay_debt, AccountType
<1> HIDE DEF x
<1> QED
  BY Zenon, <1>2, <1>3 DEF AccountType

\* The counter of faults only grows.
LEMMA FaultGrows ==
  ASSUME Fault \/ NoFault \/ UNCHANGED faults PROVE faults' \in {faults, faults + 1}
BY Zenon DEF Fault, NoFault

\* Setting up a lane.
LEMMA SetupPhases ==
  ASSUME Typed, Phases, NEW l \in Lanes, NEW c \in BOOLEAN, NEW d \in BOOLEAN,
         SetupLane(l, c, d)
  PROVE  Phases' /\ (Closed => Closed') /\ Quiet
<1> DEFINE a == [acct[l] EXCEPT !.cap = IF c THEN Line ELSE 0]
           b == adopt_relay_debt(a, relay[l].owed)
<1>1. /\ drv.st = "setup" /\ UNCHANGED <<post, relay>> /\ ~Closed
      /\ drv' = IF drv.left = {l} THEN Idle ELSE [drv EXCEPT !.left = @ \ {l}]
  BY Zenon DEF SetupLane, Phases, Closed
<1>2. /\ drv'.st \in {"setup", "loop"} /\ drv'.job.why # "final"
      /\ \A m \in Lanes \ {l} : m \in drv.left => drv'.st = "setup" /\ m \in drv'.left
  BY Zenon, <1>1, Resting DEF Typed, DriverType, Phases
<1>3. ~Closed'
  BY Zenon, <1>2 DEF Closed
<1>4. a \in AccountType /\ a.pending = acct[l].pending /\ a.owed = acct[l].owed
      /\ a.cap = (IF c THEN Line ELSE 0) /\ relay[l].owed \in Nat
  BY SMTT(60) DEF Typed, AccountType, RelayType
<1>5. \/ acct' = [acct EXCEPT ![l] = a]
      \/ acct' = [acct EXCEPT ![l] = b]
  BY Zenon DEF SetupLane
<1>6. faults' = 0 => faults = 0 /\ c
  BY DEF SetupLane, Fault, NoFault, Typed
<1> HIDE DEF a
<1>7. /\ b \in AccountType /\ b.pending = a.pending /\ b.cap = a.cap
      /\ b.owed = a.owed \/ b.owed + a.pending <= relay[l].owed
  BY <1>4, AdoptQuiet, Zenon
<1> HIDE DEF b
<1>8. /\ acct'[l] \in {a, b} /\ \A m \in Lanes \ {l} : acct'[m] = acct[m]
  BY Zenon, <1>5 DEF Typed
<1>9. faults' = 0 => \A m \in Lanes : acct'[m].cap = Line \/ (drv'.st = "setup" /\ m \in drv'.left)
  BY Zenon, <1>2, <1>4, <1>6, <1>7, <1>8 DEF Phases
<1>10. Phases'
  BY Zenon, <1>1, <1>2, <1>3, <1>6, <1>9 DEF Phases
<1>11. Quiet
  <2>1. ASSUME NEW m \in Lanes
        PROVE  /\ acct'[m].pending = acct[m].pending
               /\ acct'[m].owed <= Owing(m) \/ acct'[m].owed + acct[m].pending <= relay[m].owed
    <3>1. Owing(m) = acct[m].owed /\ acct[m].owed \in Nat /\ acct[l].owed \in Nat
      BY Zenon, <1>1 DEF Owing, Typed, AccountType
    <3>2. CASE m = l
      BY <1>4, <1>7, <1>8, <3>1, <3>2
    <3>3. CASE m # l
      BY <1>8, <3>1, <3>3
    <3> QED
      BY Zenon, <3>2, <3>3
  <2> QED
    BY Zenon, <1>1, <2>1 DEF Quiet
<1> QED
  BY Zenon, <1>1, <1>10, <1>11

\* A settlement whose POSTs stay as they are, called for an account with the
\* debt, the bytes in flight and the line that it had.
LEMMA SettlePhases ==
  ASSUME Typed, Phases, NEW job \in JobType, NEW a \in AccountType, NEW f,
         settle(job, a, f), drv.st \notin {"setup", "accepted"},
         Closed <=> job.why = "final", faults' \in {faults, faults + 1}, UNCHANGED post,
         a.pending = acct[job.lane].pending, a.cap = acct[job.lane].cap,
         \/ a.owed = acct[job.lane].owed
         \/ a.owed + a.pending <= relay[job.lane].owed
  PROVE  Phases' /\ (Closed => Closed') /\ Quiet
<1> DEFINE k == job.lane
<1>0. k \in Lanes
  BY Zenon DEF JobType
<1>1. /\ Leads(job)
      /\ acct'[k].owed = a.owed /\ acct'[k].pending = a.pending /\ acct'[k].cap = a.cap
      /\ \A l \in Lanes \ {k} : acct'[l] = acct[l]
  BY Zenon, SettleLeads
<1>2. \A l \in Lanes : acct'[l].cap = acct[l].cap
  BY Zenon, <1>1
<1>3. Phases' /\ (Closed => Closed')
  BY Zenon, <1>1, <1>2, JobPhases
<1>4. ASSUME NEW l \in Lanes
      PROVE  /\ acct'[l].pending = acct[l].pending
             /\ acct'[l].owed <= Owing(l) \/ acct'[l].owed + acct[l].pending <= relay[l].owed
  <2>1. Owing(l) = acct[l].owed /\ acct[l].owed \in Nat
    BY Zenon DEF Owing, Typed, AccountType
  <2>2. CASE l = k
    BY SMTT(60), <1>0, <1>1, <2>1, <2>2
  <2>3. CASE l # k
    BY SMTT(60), <1>1, <2>1, <2>3
  <2> QED
    BY Zenon, <2>2, <2>3
<1> QED
  BY Zenon, <1>3, <1>4 DEF Quiet

\* The loop's settlements, and the last ones.
LEMMA CallPhases ==
  ASSUME Typed, Phases, NEW l \in Lanes,
         \/ LoopSettle(l) \/ FinalSettle(l)
         \/ \E n \in 1..MaxFrames : DispatchSettle(l, n)
  PROVE  Phases' /\ (Closed => Closed') /\ Quiet
<1>1. acct[l] \in AccountType /\ UNCHANGED <<post, faults>> /\ drv.st \in {"loop", "final"}
  BY Zenon DEF Typed, LoopSettle, FinalSettle, DispatchSettle
<1>2. ASSUME NEW job \in JobType, job.lane = l, Closed <=> job.why = "final",
             settle(job, acct[l], funded)
      PROVE  Phases' /\ (Closed => Closed') /\ Quiet
  BY Zenon, <1>1, <1>2, SettlePhases
<1>3. drv.st = "loop" => ~Closed
  BY Zenon DEF Phases, Closed
<1>4. CASE LoopSettle(l)
  <2> DEFINE job == Job(l, "headroom", 0)
  <2>1. job \in JobType /\ job.lane = l /\ job.why # "final"
    BY JobIs
  <2>2. settle(job, acct[l], funded) /\ ~Closed
    BY Zenon, <1>3, <1>4 DEF LoopSettle
  <2> HIDE DEF job
  <2> QED
    BY Zenon, <1>2, <2>1, <2>2
<1>5. CASE FinalSettle(l)
  <2> DEFINE job == Job(l, "final", 0)
  <2>1. job \in JobType /\ job.lane = l /\ job.why = "final"
    BY JobIs
  <2>2. settle(job, acct[l], funded) /\ Closed
    BY Zenon, <1>5 DEF FinalSettle, Closed
  <2> HIDE DEF job
  <2> QED
    BY Zenon, <1>2, <2>1, <2>2
<1>6. ASSUME NEW n \in 1..MaxFrames, DispatchSettle(l, n)
      PROVE  Phases' /\ (Closed => Closed') /\ Quiet
  <2> DEFINE job == Job(l, "dispatch", n)
  <2>1. job \in JobType /\ job.lane = l /\ job.why # "final"
    BY JobIs
  <2>2. /\ ~Closed /\ drv.st = "loop"
        /\ settle(job, acct[l], funded) \/ UNCHANGED <<acct, drv>>
    BY Zenon, <1>3, <1>6 DEF DispatchSettle
  <2> HIDE DEF job
  <2>3. CASE UNCHANGED <<acct, drv>>
    <3>1. Phases' /\ (Closed => Closed')
      BY Zenon, <1>1, <2>2, <2>3 DEF Phases, Closed
    <3>2. ASSUME NEW m \in Lanes
          PROVE  acct'[m].pending = acct[m].pending /\ acct'[m].owed <= Owing(m)
      BY <2>2, <2>3 DEF Owing, Typed, AccountType
    <3> QED
      BY Zenon, <1>1, <3>1, <3>2 DEF Quiet
  <2> QED
    BY Zenon, <1>2, <2>1, <2>2, <2>3
<1> QED
  BY Zenon, <1>4, <1>5, <1>6

\* The driver with the answer to a payment.
LEMMA PayPhases ==
  ASSUME Typed, Phases, NoOverclaim, PayNothing \/ PayCorrect \/ PayRefused \/ PayFails
  PROVE  Phases' /\ (Closed => Closed') /\ Quiet
<1> DEFINE k == drv.job.lane
<1>1. /\ drv \in DriverType /\ drv.job \in JobType /\ k \in Lanes
      /\ acct[k] \in AccountType /\ relay[k].owed \in Nat
  BY Zenon DEF Typed, DriverType, JobType, RelayType
<1>2. /\ drv.st \in {"asked", "nothing", "exceeds", "refused", "accepted"}
      /\ UNCHANGED <<post, relay>> /\ (Closed <=> drv.job.why = "final")
  BY Zenon DEF PayNothing, PayCorrect, PayRefused, PayFails, Closed
<1>3. faults' \in {faults, faults + 1}
  BY FaultGrows, Zenon DEF PayNothing, PayCorrect, PayRefused, PayFails
<1>4. PICK a \in AccountType :
        /\ Leads(drv.job)
        /\ a.pending = acct[k].pending /\ a.cap = acct[k].cap
        /\ acct'[k] = a /\ \A l \in Lanes \ {k} : acct'[l] = acct[l]
        /\ drv.st # "accepted" /\ ~PayCorrect => a.owed <= acct[k].owed
  <2>1. CASE PayNothing
    <3> DEFINE a == [acct[k] EXCEPT !.owed = 0]
    <3>1. /\ a \in AccountType /\ a.pending = acct[k].pending /\ a.cap = acct[k].cap
          /\ a.owed <= acct[k].owed
      BY <1>1 DEF AccountType
    <3>2. acct' = [acct EXCEPT ![k] = a] /\ Unpayable(drv.job, a, funded)
      BY Zenon, <2>1 DEF PayNothing
    <3> HIDE DEF a
    <3>3. Leads(drv.job)
      BY Zenon, <1>1, <3>2, UnpayableEnds DEF Leads
    <3>4. acct'[k] = a /\ \A l \in Lanes \ {k} : acct'[l] = acct[l]
      BY Zenon, <1>1, <3>2 DEF Typed
    <3> QED
      BY Zenon, <3>1, <3>3, <3>4
  <2>2. CASE PayCorrect
    <3> DEFINE a == [acct[k] EXCEPT !.owed = relay[k].owed]
    <3>1. /\ a \in AccountType /\ a.pending = acct[k].pending /\ a.cap = acct[k].cap
      BY Zenon, <1>1 DEF AccountType
    <3>2. /\ acct' = [acct EXCEPT ![k] = a]
          /\ IF a.owed < thresholds(a).min_cheque THEN Unpayable(drv.job, a, funded)
             ELSE Present(drv.job, a, funded, FALSE)
      BY <2>2, Zenon DEF PayCorrect
    <3> HIDE DEF a
    <3>3. thresholds(a).min_cheque \in Nat /\ a.owed \in Nat
      BY Zenon, <3>1, FloorNat DEF thresholds, AccountType
    <3>4. ASSUME a.owed < thresholds(a).min_cheque PROVE Leads(drv.job)
      <4>1. Unpayable(drv.job, a, funded)
        BY <3>2, <3>4, Zenon
      <4> QED
        BY Zenon, <1>1, <4>1, UnpayableEnds DEF Leads
    <3>5. ASSUME ~(a.owed < thresholds(a).min_cheque) PROVE Leads(drv.job)
      <4>1. Present(drv.job, a, funded, FALSE)
        BY <3>2, <3>5, Zenon
      <4>2. a.owed >= thresholds(a).min_cheque
        BY <3>3, <3>5
      <4> QED
        BY <1>1, <3>1, <4>1, <4>2, PresentEnds, Zenon DEF Leads
    <3>6. Leads(drv.job)
      BY Zenon, <3>4, <3>5
    <3>7. acct'[k] = a /\ \A l \in Lanes \ {k} : acct'[l] = acct[l]
      BY Zenon, <1>1, <3>2 DEF Typed
    <3> QED
      BY Zenon, <2>2, <3>1, <3>6, <3>7
  <2>3. CASE PayRefused \/ PayFails
    <3>1. Return(drv.job, acct[k], funded) /\ UNCHANGED acct
      BY Zenon, <2>3 DEF PayRefused, PayFails
    <3>2. Leads(drv.job)
      BY Zenon, <1>1, <3>1, ReturnEnds DEF Leads
    <3>3. acct[k].owed <= acct[k].owed
      BY <1>1 DEF AccountType
    <3> QED
      BY Zenon, <1>1, <3>1, <3>2, <3>3
  <2> QED
    BY Zenon, <2>1, <2>2, <2>3
<1>5. \A l \in Lanes : acct'[l].cap = acct[l].cap
  BY Zenon, <1>4
<1>6. Phases' /\ (Closed => Closed')
  BY Zenon, <1>1, <1>2, <1>3, <1>4, <1>5, JobPhases
<1>7. ASSUME NEW l \in Lanes
      PROVE  acct'[l].pending = acct[l].pending
  BY Zenon, <1>4
<1>8. ASSUME NEW l \in Lanes, Alone(l), faults' = 0, ~Closed'
      PROVE  acct'[l].owed <= Owing(l)
  <2>1. faults = 0 /\ ~Closed
    BY <1>3, <1>6, <1>8 DEF Typed
  <2>2. drv.st # "accepted"
    <3>1. ~PayFails
      BY <1>8, <2>1 DEF PayFails, Fault
    <3> QED
      BY <3>1, Zenon DEF PayNothing, PayCorrect, PayRefused
  <2>3. Owing(l) = acct[l].owed /\ acct[l].owed \in Nat
    BY Zenon, <2>2 DEF Owing, Typed, AccountType
  <2>4. CASE l # k
    BY SMTT(60), <1>4, <2>3, <2>4
  <2>5. CASE l = k
    <3>1. ~PayCorrect
      BY <1>2, <1>8, <2>1, <2>5, Zenon DEF NoOverclaim, PayCorrect
    <3> QED
      BY Zenon, <1>4, <2>2, <2>3, <2>5, <3>1
  <2> QED
    BY Zenon, <2>4, <2>5
<1> QED
  BY Zenon, <1>2, <1>6, <1>7, <1>8 DEF Quiet

\* Asking the relay what it has on its books.
LEMMA ReconcilePhases ==
  ASSUME Typed, Phases, NEW got \in BOOLEAN, Reconcile(got)
  PROVE  Phases' /\ (Closed => Closed') /\ Quiet
<1> DEFINE k == drv.job.lane
           a == adopt_relay_debt(acct[k], relay[k].owed)
           again == Job(k, "again", 0)
<1>1. /\ drv \in DriverType /\ drv.job \in JobType /\ k \in Lanes
      /\ acct[k] \in AccountType /\ relay[k].owed \in Nat
  BY Zenon DEF Typed, DriverType, JobType, RelayType
<1>2. drv.st = "reconcile" /\ UNCHANGED <<post, relay>> /\ ~Closed
  BY Zenon DEF Reconcile, Phases, Closed
<1>3. faults' \in {faults, faults + 1}
  BY Zenon, FaultGrows DEF Reconcile
<1>4. again \in JobType /\ again.lane = k /\ again.why = "again"
  BY SMTT(60), <1>1, JobIs
<1>5. /\ a \in AccountType /\ a.pending = acct[k].pending /\ a.cap = acct[k].cap
      /\ a.owed = acct[k].owed \/ a.owed + acct[k].pending <= relay[k].owed
  BY <1>1, AdoptQuiet, Zenon
<1>6. \/ Return(drv.job, acct[k], funded) /\ UNCHANGED acct
      \/ settle(again, a, funded)
      \/ Unpayable(again, a, funded) /\ UNCHANGED acct
  BY Zenon DEF Reconcile
<1> HIDE DEF a, again
<1>7. CASE settle(again, a, funded)
  <2> HIDE DEF k
  <2> QED
    BY Zenon, <1>2, <1>3, <1>4, <1>5, <1>7, SettlePhases
<1>8. CASE (Return(drv.job, acct[k], funded) \/ Unpayable(again, a, funded)) /\ UNCHANGED acct
  <2>1. Leads(drv.job) \/ Leads(again)
    BY Zenon, <1>1, <1>4, <1>8, ReturnEnds, UnpayableEnds DEF Leads
  <2>2. drv.job.why # "final"
    BY Zenon, <1>2 DEF Phases
  <2>3. PICK job \in JobType : Leads(job) /\ job.why # "final"
    BY Zenon, <1>1, <1>4, <2>1, <2>2
  <2>4. \A l \in Lanes : acct'[l].cap = acct[l].cap
    BY Zenon, <1>8
  <2>5. Phases' /\ (Closed => Closed')
    BY Zenon, <1>2, <1>3, <2>3, <2>4, JobPhases
  <2>6. ASSUME NEW l \in Lanes
        PROVE  acct'[l].pending = acct[l].pending /\ acct'[l].owed <= Owing(l)
    BY <1>2, <1>8 DEF Owing, Typed, AccountType
  <2> QED
    BY Zenon, <1>2, <2>5, <2>6 DEF Quiet
<1> QED
  BY Zenon, <1>6, <1>7, <1>8

\* Nobody waits for the POSTs of a client that is gone.
LEMMA OrphansIdle ==
  ASSUME Typed, \A p \in Posts : post[p].dedup <= post[p].frames, post' = Orphaned
  PROVE  \A p \in Posts : /\ ~post'[p].live /\ post'[p].st # "failed"
                          /\ post'[p].dedup <= post'[p].frames
<1> SUFFICES ASSUME NEW p \in Posts
             PROVE  /\ ~post'[p].live /\ post'[p].st # "failed"
                    /\ post'[p].dedup <= post'[p].frames
  BY Zenon
<1>1. post[p] \in PostType
  BY Zenon DEF Typed
<1>2. CASE post[p].st \in {"wire", "admitted"}
  <2>1. post'[p] = [post[p] EXCEPT !.live = FALSE]
    BY Zenon, <1>2 DEF Orphaned
  <2> QED
    BY Zenon, <1>1, <1>2, <2>1 DEF PostType
<1>3. CASE post[p].st \notin {"wire", "admitted"}
  <2>1. post'[p] = NoPost
    BY Zenon, <1>3 DEF Orphaned
  <2> QED
    BY <2>1, FreePost
<1> QED
  BY Zenon, <1>2, <1>3

\* The end of an upload.
LEMMA EndPhases ==
  ASSUME Typed, Phases, Finish \/ Stall PROVE Phases' /\ Closed' /\ (Stall => Quiet)
<1>1. drv.st = "loop" /\ drv'.st \in {"final", "over"} /\ UNCHANGED faults
  BY Zenon, DriverStates DEF Finish, Stall, DriverType
<1>2. Closed'
  BY Zenon, <1>1 DEF Closed
<1>3. ASSUME NEW l \in Lanes PROVE acct'[l].cap = acct[l].cap
  <2>1. CASE Finish
    <3>1. acct'[l] = [acct[l] EXCEPT !.pending = 0, !.owed = @ + acct[l].pending]
      BY Zenon, <2>1 DEF Finish
    <3>2. acct[l] \in AccountType
      BY Zenon DEF Typed
    <3> QED
      BY Zenon, <3>1, <3>2 DEF AccountType
  <2>2. CASE Stall
    BY Zenon, <2>2 DEF Stall
  <2> QED
    BY Zenon, <2>1, <2>2
<1>4. \A p \in Posts : /\ ~post'[p].live /\ post'[p].dedup <= post'[p].frames
                       /\ faults = 0 => post'[p].st # "failed"
  <2>1. CASE Finish
    BY Zenon, <2>1, OrphansIdle DEF Finish, Phases
  <2>2. CASE Stall
    <3>1. \A p \in Posts : post[p].lane \in Lanes
      BY Zenon DEF Typed, PostType
    <3>2. \A p \in Posts : ~post[p].live
      BY Zenon, <2>2, <3>1 DEF Stall, Live
    <3> QED
      BY Zenon, <2>2, <3>2 DEF Stall, Phases
  <2> QED
    BY Zenon, <2>1, <2>2
<1>5. Phases'
  BY Zenon, <1>1, <1>3, <1>4 DEF Phases
<1>6. ASSUME Stall PROVE Quiet
  BY Zenon, <1>2, <1>6 DEF Stall, Quiet
<1> QED
  BY Zenon, <1>2, <1>5, <1>6

=============================================================================
