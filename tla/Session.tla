------------------------------ MODULE Session -------------------------------
(***************************************************************************)
(* A session with a bee peer (src/src/transport.rs: PeerSession,           *)
(* SessionState, SessionDriver): callers submit pushes, fetches and probes *)
(* over a channel; the driver runs each as a task on its connection, keeps *)
(* the swarm accounting that bee keeps too, settles by pseudosettle and by *)
(* cheque, and retires the session when the connection, the ghost balance  *)
(* or the push count says so.                                              *)
(*                                                                         *)
(* The tasks of a session are polled by one driver, so a stretch between   *)
(* two awaits is one step.  What the peer answers, and when, is open.      *)
(***************************************************************************)
EXTENDS Integers, Sequences, FiniteSets, Sums

CONSTANTS
  Ops,         \* operations callers submit
  Kind,        \* "push", "fetch" or "probe"
  Price,       \* peer_price of a push
  Threshold,   \* SAFE_PEER_THRESHOLD_PLUR
  Refresh,     \* REFRESH_RATE_PLUR
  GhostLimit,  \* GHOST_BALANCE_LIMIT_PLUR
  MaxPushes,   \* MAX_PUSHES_PER_SESSION
  Used,        \* pushes, all settled, the first session has behind it
  Rates,       \* exchange rates and deductions a peer may announce on a swap stream
  MaxCumulative, \* max_cumulative_per_peer_bzz
  Channel,     \* capacity of the command channel
  MaxProbes,   \* bound: status streams the peer opens
  MaxSessions  \* bound: sessions with the peer, one after another

ASSUME SessionAssumption ==
  /\ IsFiniteSet(Ops)
  /\ Kind \in [Ops -> {"push", "fetch", "probe"}] /\ Price \in [Ops -> Nat]
  /\ Rates \subseteq [exchange_rate : Nat, deduction : Nat]
  /\ Threshold \in Nat /\ Used \subseteq Nat /\ MaxCumulative \in Nat /\ Channel \in Nat

VARIABLES
  op,        \* each operation: where it stands, what follows its settlement, the
             \* debt it is settling and the cheque it signed
  queue,     \* commands in the channel
  acc,       \* AccountingState
  lock,      \* holder of settle_lock, or {}
  driver,    \* the driver: accept_new, the counters, the connection
  store,     \* the cheque store: cumulative for the peer, and on disk
  cheques,   \* cumulatives that went out, in order
  made       \* counts: sessions, status streams; what cheques cleared in excess

vars == <<op, queue, acc, lock, driver, store, cheques, made>>

Settling == {"lock", "pseudo", "cheque", "emit"}
Answers == {"receipt", "overdraft", "error", "closed"}

NewOp == [st |-> "new", then |-> "none", plur |-> 0, cum |-> 0]
NewDriver(swap, used) == [on |-> TRUE, swap |-> swap, accept |-> TRUE, cause |-> FALSE, dead |-> FALSE,
                          polled |-> TRUE, used |-> used, ghost |-> 0, probes |-> 0]

Held == {o \in Ops : op[o].st = "wire" /\ Kind[o] = "push"}

\* Operations the driver runs as tasks.
Tasks == {o \in Ops : op[o].st \in Settling \cup {"reserve", "wire"}}

TypeOK ==
  /\ \A o \in Ops : op[o].st \in {"new", "queued"} \cup Settling \cup {"reserve", "wire"} \cup Answers
  /\ Len(queue) <= Channel /\ Range(queue) = {o \in Ops : op[o].st = "queued"}
  /\ acc.reserve \in Nat /\ acc.balance \in Nat
  /\ store.cum \in 0..MaxCumulative /\ store.disk \in 0..MaxCumulative

Init ==
  /\ op = [o \in Ops |-> NewOp] /\ queue = <<>>
  /\ acc = [reserve |-> 0, balance |-> 0] /\ lock = {}
  /\ \E swap \in BOOLEAN, used \in Used : driver = NewDriver(swap, used)
  /\ store = [cum |-> 0, disk |-> 0, saved |-> TRUE] /\ cheques = <<>>
  /\ made = [sessions |-> 1, probes |-> 0, excess |-> 0]

-----------------------------------------------------------------------------
\* Callers.

\* pushsync_chunk_priced, fetch_chunk, status_probe: the command is sent once
\* the channel has room, or the channel is closed.
Submit(o) ==
  /\ op[o].st = "new"
  /\ \/ ~driver.on /\ op' = [op EXCEPT ![o].st = "closed"] /\ UNCHANGED queue
     \/ /\ driver.on /\ Len(queue) < Channel
        /\ op' = [op EXCEPT ![o].st = "queued"] /\ queue' = Append(queue, o)
  /\ UNCHANGED <<acc, lock, driver, store, cheques, made>>

-----------------------------------------------------------------------------
\* The driver.

Retires(d) == d.ghost >= GhostLimit

\* It takes a command.  Past the push limit it declines and goes straight back
\* to waiting (~polled): only the next event lets it see that it is done.
Receive ==
  LET o == Head(queue)
      push == Kind[o] = "push"
      d == [driver EXCEPT !.used = IF push THEN @ + 1 ELSE @]
  IN  /\ driver.on /\ driver.accept /\ queue # <<>>
      /\ queue' = Tail(queue)
      /\ IF d.used > MaxPushes
         THEN /\ op' = [op EXCEPT ![o].st = "closed"]
              /\ driver' = [d EXCEPT !.accept = FALSE, !.cause = TRUE, !.polled = FALSE]
         ELSE /\ op' = [op EXCEPT ![o].st = IF push THEN "reserve" ELSE "wire"]
              /\ driver' = [d EXCEPT !.accept = ~(push /\ Retires(d)),
                                     !.cause = push /\ Retires(d)]
      /\ UNCHANGED <<acc, lock, store, cheques, made>>

\* A task ends; `dead' is what it reports of the connection.
Reaped(d, dead) == [d EXCEPT !.accept = @ /\ ~dead /\ ~Retires(d), !.polled = TRUE]

\* Why a push or probe may retire the session.
Ends(o, answer, dead, d) ==
  /\ op' = [op EXCEPT ![o] = [NewOp EXCEPT !.st = answer]]
  /\ driver' = [Reaped(d, dead) EXCEPT !.cause = @ \/ dead \/ Retires(d)]

\* The connection closes: everyone on the wire is woken, no command is taken.
ConnectionClosed ==
  /\ driver.on /\ ~driver.dead
  /\ driver' = [driver EXCEPT !.dead = TRUE, !.accept = FALSE, !.cause = TRUE, !.polled = TRUE]
  /\ UNCHANGED <<op, queue, acc, lock, store, cheques, made>>

\* Any other event of the swarm (a ping, an identify push).
SwarmEvent ==
  /\ driver.on /\ ~driver.polled
  /\ driver' = [driver EXCEPT !.polled = TRUE]
  /\ UNCHANGED <<op, queue, acc, lock, store, cheques, made>>

\* The peer's salud worker opens a status stream; a task answers it, and ends
\* the way a task on a dead connection does.
StatusIn ==
  /\ driver.on /\ ~driver.dead /\ made.probes < MaxProbes
  /\ made' = [made EXCEPT !.probes = @ + 1]
  /\ driver' = [driver EXCEPT !.probes = @ + 1, !.polled = TRUE]
  /\ UNCHANGED <<op, queue, acc, lock, store, cheques>>

StatusOut ==
  /\ driver.probes > 0
  /\ driver' = [Reaped(driver, TRUE) EXCEPT !.probes = @ - 1]
  /\ UNCHANGED <<op, queue, acc, lock, store, cheques, made>>

\* Mutant: the driver also waits for the channel it no longer reads.
IdleDrained == Tasks = {} /\ driver.probes = 0 /\ queue = <<>>

\* No task is in flight.
Idle == Tasks = {} /\ driver.probes = 0

\* The driver is done; the commands it left in the channel are closed.
Retire ==
  /\ driver.on /\ ~driver.accept /\ driver.polled /\ Idle
  /\ driver' = [driver EXCEPT !.on = FALSE]
  /\ op' = [o \in Ops |-> IF op[o].st = "queued" THEN [op[o] EXCEPT !.st = "closed"] ELSE op[o]]
  /\ queue' = <<>>
  /\ UNCHANGED <<acc, lock, store, cheques, made>>

\* A new session with the same peer: fresh accounting, the same cheque store.
\* After a restart of the process the store is what was saved.
Reopen(restart) ==
  /\ ~driver.on /\ made.sessions < MaxSessions
  /\ \E swap \in BOOLEAN : driver' = NewDriver(swap, 0)
  /\ acc' = [reserve |-> 0, balance |-> 0]
  /\ store' = IF restart THEN [store EXCEPT !.cum = store.disk] ELSE store
  /\ made' = [made EXCEPT !.sessions = @ + 1]
  /\ op' = [o \in Ops |-> IF op[o].st \in Answers THEN NewOp ELSE op[o]]
  /\ UNCHANGED <<queue, lock, cheques>>

-----------------------------------------------------------------------------
\* SessionState::push.

\* Mutant: the check leaves out what is committed.
try_reserveAlone(a, price) == a.reserve + price <= Threshold

try_reserve(a, price) == a.reserve + price + a.balance <= Threshold

\* The price is reserved; without room for it, settle once and try again.
Reserve(o) ==
  /\ op[o].st = "reserve"
  /\ \/ /\ try_reserve(acc, Price[o])
        /\ acc' = [acc EXCEPT !.reserve = @ + Price[o]]
        /\ op' = [op EXCEPT ![o].st = "wire"]
        /\ UNCHANGED driver
     \/ /\ ~try_reserve(acc, Price[o]) /\ op[o].then = "none"
        /\ op' = [op EXCEPT ![o].st = "lock", ![o].then = "retry"]
        /\ UNCHANGED <<acc, driver>>
     \/ /\ ~try_reserve(acc, Price[o]) /\ op[o].then = "retry"
        /\ Ends(o, "overdraft", FALSE, driver)
        /\ UNCHANGED acc
  /\ UNCHANGED <<queue, lock, store, cheques, made>>

\* What a failed push gives back.
Released(a, o) == [a EXCEPT !.reserve = @ - Price[o]]

\* The push ends on the wire: a receipt commits the price, and from one refresh
\* rate of debt on the task settles before it answers; an error costs ghost
\* balance.  On a connection known dead it is ConnectionClosed at once.
Pushed(o, ok, dead) ==
  /\ o \in Held
  /\ driver.dead => ~ok /\ dead
  /\ \/ /\ ok
        /\ acc' = [reserve |-> acc.reserve - Price[o], balance |-> acc.balance + Price[o]]
        /\ IF acc'.balance >= Refresh
           THEN op' = [op EXCEPT ![o].st = "lock", ![o].then = "reply"] /\ UNCHANGED driver
           ELSE Ends(o, "receipt", FALSE, driver)
     \/ /\ ~ok
        /\ acc' = Released(acc, o)
        /\ Ends(o, "error", dead, [driver EXCEPT !.ghost = @ + Price[o]])
  /\ UNCHANGED <<queue, lock, store, cheques, made>>

\* fetch() and do_status_probe(): only a probe reports a dead connection.
Answered(o, ok, dead) ==
  /\ op[o].st = "wire" /\ Kind[o] # "push"
  /\ driver.dead => ~ok /\ dead
  /\ Ends(o, IF ok THEN "receipt" ELSE "error", ~ok /\ dead /\ Kind[o] = "probe", driver)
  /\ UNCHANGED <<queue, acc, lock, store, cheques, made>>

-----------------------------------------------------------------------------
\* try_settle_once, under settle_lock; its errors are swallowed.

\* After the settlement: the second try to reserve, or the receipt.
Settled(o) ==
  /\ lock' = {}
  /\ \/ /\ op[o].then = "retry"
        /\ op' = [op EXCEPT ![o] = [NewOp EXCEPT !.st = "reserve", !.then = "retry"]]
        /\ UNCHANGED driver
     \/ op[o].then = "reply" /\ Ends(o, "receipt", FALSE, driver)

\* Mutant: settlements are not serialised.
SettleAtOnce(o) ==
  /\ op[o].st = "lock"
  /\ \/ /\ acc.balance + acc.reserve > 0
        /\ op' = [op EXCEPT ![o].st = "pseudo", ![o].plur = acc.balance + acc.reserve]
        /\ lock' = {o} /\ UNCHANGED driver
     \/ acc.balance + acc.reserve = 0 /\ Settled(o)
  /\ UNCHANGED <<queue, acc, store, cheques, made>>

\* The lock is taken, and after the pause since the last settlement the debt
\* is read; with none there is nothing to do.
Settle(o) ==
  /\ op[o].st = "lock" /\ lock = {}
  /\ \/ /\ acc.balance + acc.reserve > 0
        /\ op' = [op EXCEPT ![o].st = "pseudo", ![o].plur = acc.balance + acc.reserve]
        /\ lock' = {o} /\ UNCHANGED driver
     \/ acc.balance + acc.reserve = 0 /\ Settled(o)
  /\ UNCHANGED <<queue, acc, store, cheques, made>>

\* The peer acknowledges an amount, which nothing compares with what was asked;
\* the debt that remains is paid by cheque.
Pseudosettled(o, accepted) ==
  LET balance == Max({acc.balance - accepted, 0})
  IN  /\ op[o].st = "pseudo" /\ ~driver.dead
      /\ acc' = [acc EXCEPT !.balance = balance]
      /\ \/ /\ balance > 0 /\ driver.swap
            /\ op' = [op EXCEPT ![o].st = "cheque", ![o].plur = balance]
            /\ UNCHANGED <<lock, driver>>
         \/ ~(balance > 0 /\ driver.swap) /\ Settled(o)
      /\ UNCHANGED <<queue, store, cheques, made>>

amount(plur, rates) == plur * rates.exchange_rate + rates.deduction

\* try_emit_cheque up to the signature: the stream announces its rates, the
\* cumulative is raised in the store and saved before the cheque leaves; at the
\* cap there is no cheque.
Sign(o, rates, saved) ==
  LET cum == store.cum + amount(op[o].plur, rates)
  IN  /\ op[o].st = "cheque"
      /\ \/ /\ cum <= MaxCumulative
            /\ store' = [cum |-> cum, disk |-> IF saved THEN cum ELSE store.disk,
                         saved |-> store.saved /\ saved]
            /\ op' = [op EXCEPT ![o].st = "emit", ![o].cum = cum]
            /\ UNCHANGED <<lock, driver>>
         \/ cum > MaxCumulative /\ Settled(o) /\ UNCHANGED store
      /\ UNCHANGED <<queue, acc, cheques, made>>

\* The stream, the rates, the pseudosettlement or the cheque's delivery fails:
\* the balance stays as it is.
SettleFails(o) ==
  /\ op[o].st \in {"pseudo", "cheque", "emit"}
  /\ Settled(o)
  /\ UNCHANGED <<queue, acc, store, cheques, made>>

\* The cheque is out: the debt it pays is cleared.
Emit(o) ==
  /\ op[o].st = "emit" /\ ~driver.dead
  /\ cheques' = Append(cheques, op[o].cum)
  /\ acc' = [acc EXCEPT !.balance = Max({@ - op[o].plur, 0})]
  /\ made' = [made EXCEPT !.excess = @ + Max({op[o].plur - acc.balance, 0})]
  /\ Settled(o)
  /\ UNCHANGED <<queue, store>>

-----------------------------------------------------------------------------
Task(o) ==
  \/ Reserve(o) \/ Settle(o) \/ SettleFails(o) \/ Emit(o)
  \/ \E accepted \in 0..Threshold : Pseudosettled(o, accepted)
  \/ \E rates \in Rates, saved \in BOOLEAN : Sign(o, rates, saved)
  \/ \E ok, dead \in BOOLEAN : Pushed(o, ok, dead) \/ Answered(o, ok, dead)

Driver == Receive \/ Retire \/ StatusOut \/ SwarmEvent

Next ==
  \/ \E o \in Ops : Submit(o) \/ Task(o)
  \/ Driver
  \/ ConnectionClosed \/ StatusIn
  \/ \E restart \in BOOLEAN : Reopen(restart)

Spec ==
  /\ Init /\ [][Next]_vars
  /\ WF_vars(Driver) /\ \A o \in Ops : WF_vars(Task(o))

-----------------------------------------------------------------------------
\* Properties.

\* The reservation of the session is that of its pushes on the wire: none
\* outlives its push, and none is given back early.
ReserveIsOnWire == acc.reserve = SumOver(Price, Held)

\* What is owed and what may come to be owed never passes the threshold, however
\* pushes and settlements interleave.
WithinThreshold == acc.reserve + acc.balance <= Threshold

\* The accounting of the session is exact and within what the peer tolerates.
ThresholdKept == TypeOK /\ ReserveIsOnWire /\ WithinThreshold

\* A cheque clears debt that is still there: between reading the remaining debt
\* and clearing it nobody else settles.
ChequeClearsDebt == made.excess = 0

\* The cheques to a peer increase strictly, over failed deliveries, new sessions
\* and restarts, as long as the store could be saved and no peer announces rates
\* at which its debt is worth nothing.
ChequesIncrease ==
  store.saved /\ (\A rates \in Rates : amount(1, rates) > 0) =>
    \A i, j \in 1..Len(cheques) : i < j => cheques[i] < cheques[j]

\* Cheques are worth what they clear and are accepted in the order they are made.
ChequesSound == ChequeClearsDebt /\ ChequesIncrease

\* Every submitted operation is answered, also one that was in the channel when
\* the session retired: operations are submitted so many times and no more, so
\* nothing stays outstanding in the end.
AllAnswered == <>[](\A o \in Ops : op[o].st \in Answers \cup {"new"})

-----------------------------------------------------------------------------
\* What a comment says, and the code does not do.

\* A session stops taking commands only when its connection is dead, its ghost
\* balance is at the limit or its pushes are used up.
RetiredForCause == driver.accept \/ driver.cause
=============================================================================
