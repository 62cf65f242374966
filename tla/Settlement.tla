---------------------------- MODULE Settlement ----------------------------
(***************************************************************************)
(* The paying client against its relays: the per-lane accounts and cheques *)
(* (src/src/payer.rs), the cheque store (cheques.rs) and the parts of the  *)
(* upload driver that move money (client.rs, drive_pushers), with each     *)
(* relay's ledger reduced to this one account (RelayLedger models it in    *)
(* full).  A lane is one relay process; a beneficiary may own several.     *)
(*                                                                         *)
(* The driver is one task: it awaits a payment before it does anything     *)
(* else, while the POSTs it has spawned and the relays go on.  Answers to  *)
(* payments and POSTs may be lost, the store's file may not be written,    *)
(* the client may crash and the relays may restart.                        *)
(***************************************************************************)
EXTENDS Params, FiniteSets, Sums

CONSTANTS
  Lanes, Payees,
  Payee,       \* the beneficiary of each lane
  Posts,       \* concurrent POSTs
  MaxFrames,   \* frames in the largest POST
  FrameLen,    \* bytes of a frame, MAX_FRAME_LEN
  Line,        \* the credit line every challenge carries
  Balance,     \* PaymentConfig.balance_plur
  MaxBilled,   \* bound: what a relay may bill over a behaviour
  MaxFaults    \* bound: lost answers, crashes, restarts and failed writes

ASSUME SettlementAssumption ==
  /\ Lanes # {} /\ Payee \in [Lanes -> Payees]
  /\ IsFiniteSet(Lanes) /\ IsFiniteSet(Payees) /\ IsFiniteSet(Posts)
  /\ MaxFrames \in Nat \ {0} /\ FrameLen \in Nat \ {0}
  /\ Line \in Nat \ {0} /\ Balance \in Nat
  /\ MaxBilled \in Nat /\ MaxFaults \in Nat

VARIABLES
  acct,    \* LaneAccount of each lane
  funded,  \* the scheduler has not set the lane Unfunded
  store,   \* ChequeStore.payouts, and its file
  drv,     \* where the driver is
  post,    \* the POSTs
  relay,   \* each relay's ledger entry for this account
  billed,  \* history: what each relay ever billed
  faults,  \* faults so far
  split    \* history: a relay accepted a cheque the client did not record

vars == <<acct, funded, store, drv, post, relay, billed, faults, split>>

NoPost == [st |-> "free", lane |-> CHOOSE l \in Lanes : TRUE, frames |-> 0,
           dedup |-> 0, live |-> FALSE]

NewAccount(l) == [owed |-> 0, pending |-> 0, cumulative |-> store.disk[Payee[l]],
                  cap |-> 0]

\* Lanes are set up, and settled at the end, in order.
First(S) == CHOOSE l \in S : TRUE

\* One settlement: its lane, where the driver calls it from, and the frames
\* of the batch it is about to send.
Job(l, why, frames) == [lane |-> l, why |-> why, frames |-> frames]

\* The POSTs of a client that is gone: only what a relay has yet to do is left.
Orphaned ==
  [p \in Posts |-> IF post[p].st \in {"wire", "admitted"}
                   THEN [post[p] EXCEPT !.live = FALSE] ELSE NoPost]

Idle == [st |-> "loop", job |-> Job(CHOOSE l \in Lanes : TRUE, "none", 0),
         cum |-> 0, once |-> FALSE, left |-> {}]

Setup == [Idle EXCEPT !.st = "setup", !.left = Lanes]

TypeOK ==
  /\ acct \in [Lanes -> [owed : Nat, pending : Nat, cumulative : Nat, cap : {0, Line}]]
  /\ funded \in [Lanes -> BOOLEAN]
  /\ store \in [mem : [Payees -> Nat], disk : [Payees -> Nat]]
  /\ drv \in [st : {"setup", "loop", "asked", "nothing", "exceeds", "refused",
                    "accepted", "reconcile", "final", "over"},
              job : [lane : Lanes, frames : 0..MaxFrames,
                     why : {"none", "headroom", "dispatch", "402", "window", "again",
                            "final"}],
              cum : Nat, once : BOOLEAN, left : SUBSET Lanes]
  /\ post \in [Posts -> [st : {"free", "wire", "admitted", "bounced", "failed", "answered"},
                         lane : Lanes, frames : 0..MaxFrames, dedup : 0..MaxFrames,
                         live : BOOLEAN]]
  /\ relay \in [Lanes -> [owed : Nat, reserved : Nat, last : Nat, disk : Nat]]
  /\ billed \in [Lanes -> Nat]
  /\ faults \in 0..MaxFaults /\ split \in BOOLEAN

Init ==
  /\ store = [mem |-> [b \in Payees |-> 0], disk |-> [b \in Payees |-> 0]]
  /\ acct = [l \in Lanes |-> NewAccount(l)]
  /\ funded = [l \in Lanes |-> TRUE]
  /\ drv = Setup
  /\ post = [p \in Posts |-> NoPost]
  /\ relay = [l \in Lanes |-> [owed |-> 0, reserved |-> 0, last |-> 0, disk |-> 0]]
  /\ billed = [l \in Lanes |-> 0]
  /\ faults = 0 /\ split = FALSE

\* The n-th fault may still happen.
Fault == faults < MaxFaults /\ faults' = faults + 1
NoFault == UNCHANGED faults

-----------------------------------------------------------------------------
\* LaneAccount and LanePayer: the client's own arithmetic.

\* saturating_sub
monus(a, b) == IF a < b THEN 0 ELSE a - b

Price_(frames) == price_bytes(frames * FrameLen)

outstanding(a) == a.owed + a.pending

would_exceed(a, frames) == a.cap > 0 /\ outstanding(a) + Price_(frames) > a.cap

has_headroom(a) == ~would_exceed(a, 1)

thresholds(a) ==
  IF a.cap = 0 THEN [min_cheque |-> MinCheque, settle_every |-> SettleEvery]
  ELSE effective(a.cap)

should_settle(a) == a.owed >= thresholds(a).settle_every

next_cumulative(a) == a.cumulative + a.owed

record_sent(a, frames) == [a EXCEPT !.pending = @ + Price_(frames)]

record_answered(a, frames, reached) ==
  [a EXCEPT !.pending = monus(@, Price_(frames)),
            !.owed = IF reached THEN @ + Price_(frames) ELSE @]

refund_dedup(a, frames) == [a EXCEPT !.owed = monus(@, Price_(frames))]

\* Raise the debt to what the relay reports beyond the bytes in flight.
adopt_relay_debt(a, relayOwed) ==
  [a EXCEPT !.owed = AtLeast(@, monus(relayOwed, a.pending))]

settled(a, cum) ==
  [a EXCEPT !.cumulative = cum, !.owed = monus(@, monus(cum, a.cumulative))]

sync_cumulative(a, l) == [a EXCEPT !.cumulative = AtLeast(@, store.mem[Payee[l]])]

-----------------------------------------------------------------------------
\* ChequeStore.

total_issued == SumOver(store.mem, Payees)

\* Mutant: only this payee's cheques are compared with the balance.
would_exceed_balanceAlone(b, cum) == cum > Balance

would_exceed_balance(b, cum) == total_issued - store.mem[b] + cum > Balance

set_cumulative(b, cum, saved) ==
  LET mem == [store.mem EXCEPT ![b] = cum]
  IN  store' = [mem |-> mem, disk |-> IF saved THEN mem ELSE store.disk]

-----------------------------------------------------------------------------
\* Ends of a settlement, and what the driver does next.  `a' is the lane's
\* account and `f' the lanes funded when the settlement ends.

\* Back to the loop, or to the next lane of the final settlement.  A batch
\* that still does not fit is handed back as if the relay had refused it.
Return(job, a, f) ==
  /\ drv' = IF job.why = "final"
            THEN [Idle EXCEPT !.st = "final", !.left = drv.left \ {job.lane}] ELSE Idle
  /\ funded' = [f EXCEPT ![job.lane] =
                  @ /\ ~(job.why = "dispatch" /\ would_exceed(a, job.frames))]

\* Ok(Some(_)): the cheque was accepted; some callers fund the lane.
Cleared(job, a) ==
  Return(job, a, [funded EXCEPT ![job.lane] =
                    @ \/ job.why \in {"402", "window", "again"}])

\* Ok(None): nothing can be paid.  After a 402 the driver asks the relay what
\* it has on its books; after that, bytes in flight are a reason to go on.
Unpayable(job, a, f) ==
  IF job.why = "402"
  THEN drv' = [drv EXCEPT !.st = "reconcile", !.job = job] /\ funded' = f
  ELSE Return(job, a, [f EXCEPT ![job.lane] = @ \/ (job.why = "again" /\ a.pending > 0)])

\* pay() up to the POST: refuse to overdraw the chequebook, then present.
Present(job, a, f, once) ==
  IF would_exceed_balance(Payee[job.lane], next_cumulative(a)) THEN Return(job, a, f)
  ELSE /\ drv' = [drv EXCEPT !.st = "asked", !.job = job,
                             !.cum = next_cumulative(a), !.once = once]
       /\ funded' = f

\* settle() up to the POST, for an account a.
settle(job, a, f) ==
  LET b == sync_cumulative(a, job.lane)
  IN  /\ acct' = [acct EXCEPT ![job.lane] = b]
      /\ IF b.owed < thresholds(b).min_cheque THEN Unpayable(job, b, f)
         ELSE Present(job, b, f, TRUE)

-----------------------------------------------------------------------------
\* The driver.

\* check_reported_debt: no more than the relay's own ceiling, or the balance.
Plausible(l) == relay[l].owed <= AtMost(MaxOutstanding, Balance)

\* Before the first POST: a challenge gives the credit line, and the relay's
\* account any debt of an earlier run.  Either request may fail.
SetupLane(l, challenge, account) ==
  /\ drv.st = "setup" /\ l = First(drv.left)
  /\ account => challenge
  /\ IF challenge /\ account THEN NoFault ELSE Fault
  /\ LET a == [acct[l] EXCEPT !.cap = IF challenge THEN Line ELSE 0]
     IN  acct' = [acct EXCEPT ![l] = IF account /\ Plausible(l)
                                     THEN adopt_relay_debt(a, relay[l].owed) ELSE a]
  /\ drv' = IF drv.left = {l} THEN Idle ELSE [drv EXCEPT !.left = @ \ {l}]
  /\ UNCHANGED <<funded, store, post, relay, billed, split>>

\* The top of the loop pays a lane that has no room for one frame.
LoopSettle(l) ==
  /\ drv.st = "loop"
  /\ ~has_headroom(acct[l]) /\ acct[l].owed > 0
  /\ settle(Job(l, "headroom", 0), acct[l], funded)
  /\ UNCHANGED <<store, post, relay, billed, faults, split>>

\* The lane has no room for the batch the scheduler assigns to it: pay first,
\* unless not even one frame fits; hand it back when that does not help.
DispatchSettle(l, frames) ==
  /\ drv.st = "loop" /\ funded[l]
  /\ would_exceed(acct[l], frames)
  /\ IF has_headroom(acct[l]) THEN settle(Job(l, "dispatch", frames), acct[l], funded)
     ELSE /\ funded' = [funded EXCEPT ![l] = FALSE]
          /\ UNCHANGED <<acct, drv>>
  /\ UNCHANGED <<store, post, relay, billed, faults, split>>

\* The POST is sent under a challenge that carries the line.
Send(l, p, frames) ==
  /\ drv.st = "loop" /\ funded[l]
  /\ ~would_exceed(acct[l], frames)
  /\ post[p].st = "free"
  /\ acct' = [acct EXCEPT ![l] = record_sent([@ EXCEPT !.cap = Line], frames)]
  /\ post' = [post EXCEPT ![p] = [st |-> "wire", lane |-> l, frames |-> frames,
                                  dedup |-> 0, live |-> TRUE]]
  /\ UNCHANGED <<funded, store, drv, relay, billed, faults, split>>

\* LaneEv::Done: a 402 is not billed, and pauses the lane; anything else is
\* billed, and an answer with acks makes the lane Live.
Done(p) ==
  LET l == post[p].lane
      refused == post[p].st = "bounced"
      a == record_answered(acct[l], post[p].frames, ~refused)
      b == refund_dedup(a, post[p].dedup)
      f == [funded EXCEPT ![l] = ~refused /\ (@ \/ post[p].st = "answered")]
  IN  /\ drv.st = "loop" /\ post[p].live
      /\ post[p].st \in {"bounced", "failed", "answered"}
      /\ post' = [post EXCEPT ![p] = NoPost]
      /\ IF refused THEN settle(Job(l, "402", 0), a, f)
         ELSE IF should_settle(b) THEN settle(Job(l, "window", 0), b, f)
         ELSE acct' = [acct EXCEPT ![l] = b] /\ funded' = f /\ UNCHANGED drv
      /\ UNCHANGED <<store, relay, billed, faults, split>>

Live(l) == {p \in Posts : post[p].live /\ post[p].lane = l}

\* The run ends: every POST still open counts as read by its relay.  Their
\* prices are what is pending.
Finish ==
  /\ drv.st = "loop"
  /\ acct' = [l \in Lanes |->
                [acct[l] EXCEPT !.pending = 0, !.owed = @ + acct[l].pending]]
  /\ drv' = [Idle EXCEPT !.st = "final", !.left = Lanes]
  /\ post' = Orphaned
  /\ UNCHANGED <<funded, store, relay, billed, faults, split>>

FinalSettle(l) ==
  /\ drv.st = "final" /\ drv.left # {} /\ l = First(drv.left)
  /\ settle(Job(l, "final", 0), acct[l], funded)
  /\ UNCHANGED <<store, post, relay, billed, faults, split>>

\* stalled(): no POST is open and no lane may be used; the run returns without
\* a last settlement.
Stall ==
  /\ drv.st = "loop"
  /\ \A l \in Lanes : Live(l) = {} /\ ~funded[l]
  /\ drv' = [Idle EXCEPT !.st = "over"]
  /\ UNCHANGED <<acct, funded, store, post, relay, billed, faults, split>>

\* A new run loads the file.
Restarted ==
  /\ drv' = Setup
  /\ acct' = [l \in Lanes |-> NewAccount(l)]
  /\ funded' = [l \in Lanes |-> TRUE]
  /\ store' = [store EXCEPT !.mem = store.disk]
  /\ split' = (split \/ drv.st = "accepted" \/ store.disk # store.mem)
  /\ UNCHANGED <<relay, billed>>

NewRun ==
  /\ drv.st = "over" \/ (drv.st = "final" /\ drv.left = {})
  /\ Restarted
  /\ UNCHANGED <<post, faults>>

Crash ==
  /\ drv.st # "over" /\ Fault
  /\ Restarted
  /\ post' = Orphaned

-----------------------------------------------------------------------------
\* The driver, when the answer to a payment is there.

\* Mutant: the cumulative is recorded although the payment failed.
PayFailsRecorded ==
  /\ drv.st \in {"asked", "accepted"} /\ Fault
  /\ Return(drv.job, acct[drv.job.lane], funded)
  /\ set_cumulative(Payee[drv.job.lane], drv.cum, TRUE)
  /\ UNCHANGED <<acct, post, relay, billed, split>>

\* The request or its answer is lost, or the relay fails for a reason of its
\* own (a rate limit, the chain): an error, whatever the relay has done.
PayFails ==
  /\ drv.st \in {"asked", "accepted"} /\ Fault
  /\ Return(drv.job, acct[drv.job.lane], funded)
  /\ split' = (split \/ drv.st = "accepted")
  /\ UNCHANGED <<acct, store, post, relay, billed>>

\* "nothing owed": the debt is an artifact, drop it.
PayNothing ==
  LET l == drv.job.lane
      a == [acct[l] EXCEPT !.owed = 0]
  IN  /\ drv.st = "nothing"
      /\ acct' = [acct EXCEPT ![l] = a]
      /\ Unpayable(drv.job, a, funded)
      /\ UNCHANGED <<store, post, relay, billed, faults, split>>

\* Mutant: the corrected cheque still carries the client's own figure.
PayCorrectUnsynced ==
  /\ drv.st = "exceeds" /\ drv.once
  /\ Present(drv.job, acct[drv.job.lane], funded, FALSE)
  /\ UNCHANGED <<acct, store, post, relay, billed, faults, split>>

\* "... is owed": take the relay's figure and present once more.
PayCorrect ==
  LET l == drv.job.lane
      a == [acct[l] EXCEPT !.owed = relay[l].owed]
  IN  /\ drv.st = "exceeds" /\ drv.once
      /\ acct' = [acct EXCEPT ![l] = a]
      /\ IF a.owed < thresholds(a).min_cheque THEN Unpayable(drv.job, a, funded)
         ELSE Present(drv.job, a, funded, FALSE)
      /\ UNCHANGED <<store, post, relay, billed, faults, split>>

\* Any other refusal is an error.
PayRefused ==
  /\ drv.st = "refused" \/ (drv.st = "exceeds" /\ ~drv.once)
  /\ Return(drv.job, acct[drv.job.lane], funded)
  /\ UNCHANGED <<acct, store, post, relay, billed, faults, split>>

\* Accepted: check the balance again, record the cumulative, save (a failed
\* write is ignored) and lower the debt.
PayAccepted(saved) ==
  LET l == drv.job.lane
      a == settled(acct[l], drv.cum)
  IN  /\ drv.st = "accepted"
      /\ IF saved THEN NoFault ELSE Fault
      /\ ~would_exceed_balance(Payee[l], drv.cum)
      /\ set_cumulative(Payee[l], drv.cum, saved)
      /\ acct' = [acct EXCEPT ![l] = a]
      /\ Cleared(drv.job, a)
      /\ UNCHANGED <<post, relay, billed, split>>

\* reconcile() after a 402 nothing could be paid for.
Reconcile(got) ==
  LET l == drv.job.lane
      a == adopt_relay_debt(acct[l], relay[l].owed)
      again == Job(l, "again", 0)
  IN  /\ drv.st = "reconcile"
      /\ IF got THEN NoFault ELSE Fault
      /\ IF ~got \/ ~Plausible(l)
         THEN Return(drv.job, acct[l], funded) /\ UNCHANGED acct
         ELSE IF a # acct[l] THEN settle(again, a, funded)
         ELSE Unpayable(again, a, funded) /\ UNCHANGED acct
      /\ UNCHANGED <<store, post, relay, billed, split>>

-----------------------------------------------------------------------------
\* The relays.

Answer(p, st, dedup) ==
  post' = [post EXCEPT ![p] = IF post[p].live
                              THEN [@ EXCEPT !.st = st, !.dedup = dedup] ELSE NoPost]

Released(l, amount) == monus(relay[l].reserved, amount)

\* Admission against owed + reserved, before the body is read.
RelayAdmit(p) ==
  LET l == post[p].lane
      amount == Price_(post[p].frames)
  IN  /\ post[p].st = "wire"
      /\ IF relay[l].owed + relay[l].reserved + amount > Line
         THEN Answer(p, "bounced", 0) /\ UNCHANGED relay
         ELSE /\ post' = [post EXCEPT ![p].st = "admitted"]
              /\ relay' = [relay EXCEPT ![l].reserved = @ + amount]
      /\ UNCHANGED <<acct, funded, store, drv, billed, faults, split>>

\* The POST does not arrive, or is turned away unread for another reason than
\* credit; or, once admitted, its task is dropped before it commits.
RelayDrops(p) ==
  LET l == post[p].lane
      amount == Price_(post[p].frames)
  IN  /\ post[p].st \in {"wire", "admitted"} /\ Fault
      /\ Answer(p, "failed", 0)
      /\ relay' = IF post[p].st = "admitted"
                  THEN [relay EXCEPT ![l].reserved = Released(l, amount)] ELSE relay
      /\ UNCHANGED <<acct, funded, store, drv, billed, split>>

\* The frames are billed, except `dedup' of them, which were acked before.  The
\* stream may break before the client has read the acks, and the write of the
\* ledger may fail.
RelayCommit(p, dedup, whole, saved) ==
  LET l == post[p].lane
      amount == Price_(post[p].frames)
      bill == Price_(post[p].frames - dedup)
      owed == relay[l].owed + bill
  IN  /\ post[p].st = "admitted" /\ dedup <= post[p].frames
      /\ billed[l] + bill <= MaxBilled
      /\ IF whole /\ saved THEN NoFault ELSE Fault
      /\ relay' = [relay EXCEPT ![l] =
                     [relay[l] EXCEPT !.owed = owed, !.reserved = Released(l, amount),
                                      !.disk = IF saved THEN owed ELSE relay[l].disk]]
      /\ billed' = [billed EXCEPT ![l] = @ + bill]
      /\ Answer(p, IF whole THEN "answered" ELSE "failed", IF whole THEN dedup ELSE 0)
      /\ UNCHANGED <<acct, funded, store, drv, split>>

\* Mutant: a cheque is accepted whatever is owed.
VerdictGenerous(l, cum) ==
  IF relay[l].owed = 0 THEN "nothing" ELSE IF cum <= relay[l].last THEN "refused"
  ELSE "accepted"

\* What /v1/pay answers to a cheque for cum.  The checks are spread over the
\* request, but debt only grows meanwhile, so they may be read at its end.
Verdict(l, cum) ==
  LET delta == cum - relay[l].last
  IN  IF relay[l].owed = 0 THEN "nothing"
      ELSE IF delta < AtLeast(effective(Line).min_cheque, 1) \/ cum > Balance
      THEN "refused"
      ELSE IF delta > relay[l].owed THEN "exceeds" ELSE "accepted"

RelayPay ==
  LET l == drv.job.lane
      verdict == Verdict(l, drv.cum)
      owed == monus(relay[l].owed, drv.cum - relay[l].last)
  IN  /\ drv.st = "asked"
      /\ drv' = [drv EXCEPT !.st = verdict]
      /\ relay' = IF verdict = "accepted"
                  THEN [relay EXCEPT ![l] = [@ EXCEPT !.owed = owed, !.disk = owed,
                                                      !.last = drv.cum]]
                  ELSE relay
      /\ UNCHANGED <<acct, funded, store, post, billed, faults, split>>

\* A relay restarts: reservations and unsaved debt are gone, and the POSTs it
\* was reading break.
RelayRestart(l) ==
  /\ Fault
  /\ relay' = [relay EXCEPT ![l] = [@ EXCEPT !.owed = relay[l].disk, !.reserved = 0]]
  /\ post' = [p \in Posts |->
       IF post[p].lane # l \/ post[p].st # "admitted" THEN post[p]
       ELSE IF post[p].live THEN [post[p] EXCEPT !.st = "failed"] ELSE NoPost]
  /\ UNCHANGED <<acct, funded, store, drv, billed, split>>

-----------------------------------------------------------------------------
DriverStep ==
  \/ \E l \in Lanes :
       \/ \E challenge, account \in BOOLEAN : SetupLane(l, challenge, account)
       \/ LoopSettle(l)
       \/ \E frames \in 1..MaxFrames :
            DispatchSettle(l, frames) \/ \E p \in Posts : Send(l, p, frames)
       \/ FinalSettle(l)
  \/ \E p \in Posts : Done(p)
  \/ Finish \/ Stall \/ NewRun
  \/ PayNothing \/ PayCorrect \/ PayRefused
  \/ \E saved \in BOOLEAN : PayAccepted(saved)
  \/ \E got \in BOOLEAN : Reconcile(got)

RelayStep ==
  \/ RelayPay
  \/ \E p \in Posts :
       \/ RelayAdmit(p)
       \/ RelayDrops(p)
       \/ \E dedup \in 0..MaxFrames, whole, saved \in BOOLEAN :
            RelayCommit(p, dedup, whole, saved)
  \/ \E l \in Lanes : RelayRestart(l)

Next == DriverStep \/ RelayStep \/ PayFails \/ Crash

Spec == Init /\ [][Next]_vars

-----------------------------------------------------------------------------
\* Properties.

\* The client pays for service and nothing else: no relay ever holds cheques
\* worth more than it billed, whatever was lost on the way.
PaidForService == \A l \in Lanes : relay[l].last <= billed[l]

\* The store never runs ahead of the relays: a cumulative is recorded, in
\* memory and on disk, only once a relay of that payee has accepted it.
RecordedWasAccepted ==
  \A b \in Payees :
    \A n \in {store.mem[b], store.disk[b]} :
      n > 0 => \E l \in Lanes : Payee[l] = b /\ relay[l].last >= n

\* What payee b can draw: a cheque is cumulative, so the largest that one of its
\* relays holds.
Drawable(b) == Max({0} \cup {relay[l].last : l \in {m \in Lanes : Payee[m] = b}})

\* Unless the answer to an accepted cheque was lost, all the cheques the relays
\* hold are covered by the chequebook (would_exceed_balance).
CoveredByBalance ==
  ~split => SumOver([b \in Payees |-> Drawable(b)], Payees) <= Balance

\* The lane is its payee's only relay.
Alone(l) == \A m \in Lanes : Payee[m] = Payee[l] => m = l

\* The two sides agree without exchanging totals: while nothing goes wrong, no
\* cheque of a running upload is for more than its relay has booked, debt taken
\* over from an earlier run and bytes still in flight included.
NoOverclaim ==
  /\ faults = 0 /\ Alone(drv.job.lane)
  /\ drv.st \in {"exceeds", "nothing"}
  => drv.job.why = "final"

\* An overshoot is repaired by one correction: the cheque presented after taking
\* the relay's figure is not refused as exceeding what is owed, unless the relay
\* failed to write a debt and then restarted without it.
CorrectionSuffices ==
  drv.st = "exceeds" /\ faults <= 1 /\ Alone(drv.job.lane) => drv.once

\* No cheque is refused for not increasing, across runs that read the recorded
\* cumulative and lanes that share a payee, unless the answer to an accepted one
\* was lost or its record was (the one case settle does not repair by itself) or
\* the price list has no dust floor, which lets a final cheque add nothing.
NonIncreasingForCause ==
  drv.st = "refused" /\ ~split /\ MinCheque > 0 => drv.cum > relay[drv.job.lane].last

\* A relay refuses a cheque only for cause: an overshoot needs a fault and is
\* corrected at once, and a cumulative that does not increase needs a lost answer.
RefusedForCause == NoOverclaim /\ CorrectionSuffices /\ NonIncreasingForCause
=============================================================================
