--------------------------- MODULE SessionProofs ----------------------------
(***************************************************************************)
(* The accounting of a session is exact and within the peer's threshold,   *)
(* and its cheques are worth what they clear and increase: proofs about    *)
(* Session for any operations, prices, rates and limits.                   *)
(***************************************************************************)
EXTENDS Session, SumsProofs

Settler == {"pseudo", "cheque", "emit"}
OpStates == {"new", "queued"} \cup Settling \cup {"reserve", "wire"} \cup Answers
OpType == [st : OpStates, then : {"none", "retry", "reply"}, plur : Nat, cum : Nat]
DriverType ==
  [on : BOOLEAN, swap : BOOLEAN, accept : BOOLEAN, cause : BOOLEAN, dead : BOOLEAN,
   polled : BOOLEAN, used : Nat, ghost : Nat, probes : Nat]

\* The shape of the state.
Typed ==
  /\ op \in [Ops -> OpType]
  /\ queue \in Seq(Ops) /\ Len(queue) <= Channel
  /\ acc \in [reserve : Nat, balance : Nat]
  /\ driver \in DriverType
  /\ store \in [cum : 0..MaxCumulative, disk : 0..MaxCumulative, saved : BOOLEAN]
  /\ cheques \in Seq(Nat)
  /\ made \in [sessions : Nat, probes : Nat, excess : Nat]

\* The channel holds each queued command once.
Queued ==
  /\ \A o \in Ops : op[o].st = "queued" <=> \E i \in 1..Len(queue) : queue[i] = o
  /\ \A i, j \in 1..Len(queue) : queue[i] = queue[j] => i = j

\* Only pushes reserve and settle; who settles holds the lock and only settles
\* debt that is there; a driver that is done left no task behind.
Serialised ==
  /\ \A o \in Ops : op[o].st \in Settling \cup {"reserve"} => Kind[o] = "push"
  /\ \A o \in Ops : op[o].st \in Settler => lock = {o}
  /\ \A o \in Ops : op[o].st \in {"cheque", "emit"} => 0 < op[o].plur /\ op[o].plur <= acc.balance
  /\ driver.on = FALSE => Tasks = {}

\* While the store can be saved, no cheque that went out is above what it
\* records, and a signed cheque is above all of them.
Rising ==
  store.saved /\ (\A rates \in Rates : amount(1, rates) > 0) =>
    /\ store.disk = store.cum
    /\ \A i \in 1..Len(cheques) : cheques[i] <= store.cum
    /\ \A i, j \in 1..Len(cheques) : i < j => cheques[i] < cheques[j]
    /\ \A o \in Ops : op[o].st = "emit" =>
         op[o].cum <= store.cum /\ \A i \in 1..Len(cheques) : cheques[i] < op[o].cum

IInv ==
  /\ Typed /\ Queued /\ Serialised /\ Rising
  /\ ReserveIsOnWire /\ WithinThreshold /\ ChequeClearsDebt

-----------------------------------------------------------------------------
\* Saturating subtraction.
LEMMA MaxZero ==
  ASSUME NEW x \in Int PROVE Max({x, 0}) = IF x >= 0 THEN x ELSE 0
<1> DEFINE m == IF x >= 0 THEN x ELSE 0
<1>1. m \in {x, 0} /\ \A y \in {x, 0} : m >= y
  OBVIOUS
<1>2. \A n \in {x, 0} : (\A y \in {x, 0} : n >= y) => n = m
  OBVIOUS
<1> HIDE DEF m
<1> QED
  BY Zenon, <1>1, <1>2 DEF Max, m

\* The invariant is about the properties that are checked.
LEMMA IInvImplies == IInv => ThresholdKept /\ ChequesSound
<1> SUFFICES ASSUME IInv PROVE ThresholdKept /\ ChequesSound
  BY Zenon
<1>1. Range(queue) = {o \in Ops : op[o].st = "queued"}
  <2>1. queue \in Seq(Ops) /\ DOMAIN queue = 1..Len(queue)
    BY DEF IInv, Typed
  <2>2. \A i \in 1..Len(queue) : queue[i] \in Ops
    BY <2>1
  <2> QED
    BY <2>1, <2>2 DEF IInv, Queued, Range
<1>2. TypeOK
  <2>1. \A o \in Ops : op[o].st \in OpStates
    BY Zenon DEF IInv, Typed, OpType
  <2> QED
    BY Zenon, <1>1, <2>1 DEF IInv, Typed, TypeOK, OpStates
<1>3. ChequesIncrease
  BY Zenon DEF IInv, Rising, ChequesIncrease
<1> QED
  BY Zenon, <1>2, <1>3 DEF IInv, ThresholdKept, ChequesSound

-----------------------------------------------------------------------------
\* A task of the session takes a step.

\* The driver after a task has ended.
LEMMA ReapedType ==
  ASSUME NEW d \in DriverType, NEW dead \in BOOLEAN
  PROVE  /\ [Reaped(d, dead) EXCEPT !.cause = @ \/ dead \/ Retires(d)] \in DriverType
         /\ [Reaped(d, dead) EXCEPT !.cause = @ \/ dead \/ Retires(d)].on = d.on
<1>1. Retires(d) \in BOOLEAN
  BY DEF Retires
<1> DEFINE a == d.accept /\ ~dead /\ ~Retires(d)
           c == d.cause \/ dead \/ Retires(d)
<1>2. a \in BOOLEAN /\ c \in BOOLEAN
  BY Zenon
<1>3. Reaped(d, dead) = [d EXCEPT !.accept = a, !.polled = TRUE]
  BY Zenon DEF Reaped
<1>4. [Reaped(d, dead) EXCEPT !.cause = @ \/ dead \/ Retires(d)]
        = [d EXCEPT !.accept = a, !.polled = TRUE, !.cause = c]
  BY Zenon, <1>3 DEF DriverType
<1> HIDE DEF a, c
<1> QED
  BY <1>2, <1>4, Zenon DEF DriverType

\* A task ends with an answer.
LEMMA EndsMoves ==
  ASSUME Typed, NEW o \in Ops, NEW answer \in Answers, NEW dead \in BOOLEAN,
         NEW d \in DriverType, d.on = driver.on, Ends(o, answer, dead, d)
  PROVE  \E r \in OpType : /\ op' = [op EXCEPT ![o] = r] /\ r.st = answer
                           /\ driver' \in DriverType /\ driver'.on = driver.on
<1> DEFINE r == [NewOp EXCEPT !.st = answer]
<1>1. r \in OpType /\ r.st = answer
  BY Zenon DEF NewOp, OpType, OpStates
<1>2. driver' \in DriverType /\ driver'.on = d.on
  BY Zenon, ReapedType DEF Ends
<1>3. op' = [op EXCEPT ![o] = r]
  BY Zenon DEF Ends
<1> QED
  BY <1>1, <1>2, <1>3, Zenon

\* A settlement ends: the push answers, or tries to reserve again.
LEMMA SettledMoves ==
  ASSUME Typed, NEW o \in Ops, Settled(o)
  PROVE  /\ lock' = {}
         /\ \E r \in OpType : /\ op' = [op EXCEPT ![o] = r] /\ r.st \in {"reserve", "receipt"}
                              /\ driver' \in DriverType /\ driver'.on = driver.on
<1>0. driver \in DriverType
  BY Zenon DEF Typed
<1>1. CASE op[o].then = "retry" /\ op' = [op EXCEPT ![o] = [NewOp EXCEPT !.st = "reserve", !.then = "retry"]]
           /\ UNCHANGED driver
  <2> DEFINE r == [NewOp EXCEPT !.st = "reserve", !.then = "retry"]
  <2>1. r \in OpType /\ r.st = "reserve"
    BY Zenon DEF NewOp, OpType, OpStates
  <2> QED
    BY <1>0, <1>1, <2>1, Zenon DEF Settled
<1>2. CASE Ends(o, "receipt", FALSE, driver)
  <2>1. \E r \in OpType : /\ op' = [op EXCEPT ![o] = r] /\ r.st = "receipt"
                          /\ driver' \in DriverType /\ driver'.on = driver.on
    BY <1>0, <1>2, EndsMoves, Zenon DEF Answers
  <2> QED
    BY <2>1, Zenon DEF Settled
<1> QED
  BY <1>1, <1>2, Zenon DEF Settled

\* Task o goes on as r.
Moves(o, r) ==
  /\ op' = [op EXCEPT ![o] = r]
  /\ op[o].st \in Settling \cup {"reserve", "wire"}
  /\ r.st \in Settling \cup {"reserve", "wire"} \cup Answers
  /\ driver' \in DriverType /\ driver'.on = driver.on /\ queue' = queue

\* What a step of a task must respect for the settlements to stay serialised.
LEMMA MoveKeeps ==
  ASSUME IInv, NEW o \in Ops, NEW r \in OpType, Moves(o, r),
         acc' \in [reserve : Nat, balance : Nat],
         r.st \in Settling \cup {"reserve"} => Kind[o] = "push",
         r.st \in Settler => lock' = {o},
         lock' = lock \/ lock = {} \/ op[o].st \in Settler,
         acc'.balance >= acc.balance \/ op[o].st \in Settler,
         r.st \in {"cheque", "emit"} => 0 < r.plur /\ r.plur <= acc'.balance
  PROVE  Queued' /\ Serialised' /\ op' \in [Ops -> OpType] /\ op'[o] = r
         /\ \A p \in Ops \ {o} : op'[p] = op[p]
<1>0. op \in [Ops -> OpType] /\ acc \in [reserve : Nat, balance : Nat] /\ driver \in DriverType
  BY Zenon DEF IInv, Typed
<1>1. op'[o] = r /\ \A p \in Ops \ {o} : op'[p] = op[p]
  BY Zenon, <1>0 DEF Moves
<1>2. op' \in [Ops -> OpType]
  BY Zenon, <1>0 DEF Moves
<1>3. Queued'
  <2>1. r.st # "queued" /\ op[o].st # "queued"
    BY Zenon DEF Moves, Settling, Answers
  <2>2. \A p \in Ops : op'[p].st = "queued" <=> op[p].st = "queued"
    BY Zenon, <1>1, <2>1
  <2>3. queue' = queue
    BY Zenon DEF Moves
  <2> QED
    BY <2>2, <2>3 DEF IInv, Queued
<1>4. \A p \in Ops : op'[p].st \in Settling \cup {"reserve"} => Kind[p] = "push"
  BY Zenon, <1>1 DEF IInv, Serialised
<1>5. ASSUME NEW p \in Ops, op'[p].st \in Settler PROVE lock' = {p}
  <2>1. CASE p = o
    BY Zenon, <1>1, <1>5, <2>1
  <2>2. CASE p # o
    <3>1. op[p].st \in Settler
      BY Zenon, <1>1, <1>5, <2>2
    <3>2. lock = {p}
      BY Zenon, <3>1 DEF IInv, Serialised
    <3>3. op[o].st \notin Settler
      BY Zenon, <2>2, <3>2 DEF IInv, Serialised
    <3> QED
      BY Zenon, <3>2, <3>3
  <2> QED
    BY Zenon, <2>1, <2>2
<1>6. ASSUME NEW p \in Ops, op'[p].st \in {"cheque", "emit"}
      PROVE  0 < op'[p].plur /\ op'[p].plur <= acc'.balance
  <2>1. CASE p = o
    BY Zenon, <1>1, <1>6, <2>1
  <2>2. CASE p # o
    <3>1. op[p].st \in {"cheque", "emit"} /\ op'[p] = op[p]
      BY Zenon, <1>1, <1>6, <2>2
    <3>2. lock = {p} /\ 0 < op[p].plur /\ op[p].plur <= acc.balance
      BY Zenon, <3>1 DEF IInv, Serialised, Settler
    <3>3. op[o].st \notin Settler
      BY Zenon, <2>2, <3>2 DEF IInv, Serialised
    <3>4. acc'.balance \in Nat /\ acc.balance \in Nat /\ op[p].plur \in Nat
      BY Zenon, <1>0 DEF OpType
    <3> QED
      BY <3>1, <3>2, <3>3, <3>4
  <2> QED
    BY Zenon, <2>1, <2>2
<1>7. driver'.on = TRUE
  <2>1. o \in Tasks
    BY Zenon DEF Moves, Tasks
  <2>2. driver.on # FALSE
    BY <2>1, Zenon DEF IInv, Serialised
  <2> QED
    BY <1>0, <2>2, Zenon DEF Moves, DriverType
<1>8. Serialised'
  BY Zenon, <1>4, <1>5, <1>6, <1>7 DEF Serialised
<1> QED
  BY Zenon, <1>1, <1>2, <1>3, <1>8

\* The pushes on the wire and their prices when task o goes on as r.
LEMMA HeldMoves ==
  ASSUME IInv, NEW o \in Ops, op'[o].st \in OpStates, \A p \in Ops \ {o} : op'[p] = op[p]
  PROVE  /\ op'[o].st # "wire" /\ o \notin Held => Held' = Held
         /\ op'[o].st = "wire" /\ Kind[o] = "push" /\ o \notin Held =>
              SumOver(Price, Held') = Price[o] + SumOver(Price, Held)
         /\ op'[o].st # "wire" /\ o \in Held =>
              SumOver(Price, Held) = Price[o] + SumOver(Price, Held')
<1>0. IsFiniteSet(Held) /\ IsFiniteSet(Held')
  <2>1. Held \subseteq Ops /\ Held' \subseteq Ops
    BY Zenon DEF Held
  <2> QED
    BY Zenon, <2>1, SessionAssumption, FS_Subset
<1>1. \A p \in Ops : Price[p] \in Nat
  BY Zenon, SessionAssumption
<1>2. Held' \ {o} = Held \ {o}
  BY Zenon DEF Held
<1>3. (o \in Held') <=> (op'[o].st = "wire" /\ Kind[o] = "push")
  BY Zenon DEF Held
<1>4. Held \subseteq Ops /\ Held' \subseteq Ops
  BY Zenon DEF Held
<1>5. ASSUME op'[o].st = "wire", Kind[o] = "push", o \notin Held
      PROVE  SumOver(Price, Held') = Price[o] + SumOver(Price, Held)
  <2>1. o \in Held' /\ Held' \ {o} = Held
    BY Zenon, <1>2, <1>3, <1>5
  <2>2. \A x \in Held' : Price[x] \in Nat
    BY Zenon, <1>1, <1>4
  <2> QED
    BY <1>0, <2>1, <2>2, SumRemove
<1>6. ASSUME op'[o].st # "wire", o \in Held
      PROVE  SumOver(Price, Held) = Price[o] + SumOver(Price, Held')
  <2>1. Held \ {o} = Held'
    BY Zenon, <1>2, <1>3, <1>6
  <2>2. \A x \in Held : Price[x] \in Nat
    BY Zenon, <1>1, <1>4
  <2> QED
    BY <1>0, <1>6, <2>1, <2>2, SumRemove
<1>7. op'[o].st # "wire" /\ o \notin Held => Held' = Held
  BY <1>2, <1>3
<1> QED
  BY Zenon, <1>5, <1>6, <1>7

\* Steps that neither sign nor send a cheque.
LEMMA RisingKept ==
  ASSUME IInv, \A o \in Ops : op'[o].st = "emit" => op[o].st = "emit" /\ op'[o].cum = op[o].cum,
         store' = store, cheques' = cheques
  PROVE  Rising'
  BY Zenon DEF IInv, Rising, amount

\* push(): the reservation.
LEMMA ReserveStep == ASSUME IInv, NEW o \in Ops, Reserve(o) PROVE IInv'
<1>0. Typed /\ driver \in DriverType /\ acc \in [reserve : Nat, balance : Nat] /\ op[o] \in OpType
  BY Zenon DEF IInv, Typed
<1>1. op[o].st = "reserve" /\ UNCHANGED <<queue, lock, store, cheques, made>>
  BY Zenon DEF Reserve
<1>2. Kind[o] = "push" /\ o \notin Held
  BY Zenon, <1>1 DEF IInv, Serialised, Held
<1>3. Price[o] \in Nat
  BY Zenon, SessionAssumption
<1>4. CASE /\ try_reserve(acc, Price[o]) /\ acc' = [acc EXCEPT !.reserve = @ + Price[o]]
           /\ op' = [op EXCEPT ![o].st = "wire"] /\ UNCHANGED driver
  <2> DEFINE r == [op[o] EXCEPT !.st = "wire"]
  <2>1. r \in OpType /\ r.st = "wire"
    BY Zenon, <1>0 DEF OpType, OpStates
  <2>2. op' = [op EXCEPT ![o] = r]
    BY Zenon, <1>0, <1>4 DEF Typed
  <2> HIDE DEF r
  <2>3. acc' \in [reserve : Nat, balance : Nat] /\ acc'.balance = acc.balance
        /\ acc'.reserve = acc.reserve + Price[o]
    BY <1>0, <1>3, <1>4
  <2>4. Moves(o, r)
    BY <1>0, <1>1, <1>4, <2>1, <2>2, Zenon DEF Moves
  <2>5. Queued' /\ Serialised' /\ op' \in [Ops -> OpType] /\ op'[o] = r
        /\ \A p \in Ops \ {o} : op'[p] = op[p]
    <3>1. r.st \notin Settling \cup {"reserve"} /\ r.st \notin Settler /\ r.st \notin {"cheque", "emit"}
      BY Zenon, <2>1 DEF Settling, Settler
    <3>2. acc'.balance >= acc.balance
      BY <1>0, <2>3
    <3> QED
      BY Zenon, <1>1, <2>1, <2>3, <2>4, <3>1, <3>2, MoveKeeps
  <2>6. ReserveIsOnWire'
    <3>1. SumOver(Price, Held') = Price[o] + SumOver(Price, Held)
      BY Zenon, <1>2, <2>1, <2>5, HeldMoves DEF OpStates
    <3>2. acc.reserve = SumOver(Price, Held)
      BY Zenon DEF IInv, ReserveIsOnWire
    <3> QED
      BY <1>0, <1>3, <2>3, <3>1, <3>2 DEF ReserveIsOnWire
  <2>7. WithinThreshold'
    BY Zenon, <1>0, <1>3, <1>4, <2>3, SessionAssumption DEF try_reserve, WithinThreshold
  <2>8. Rising'
    <3>1. \A p \in Ops : op'[p].st = "emit" => op[p].st = "emit" /\ op'[p].cum = op[p].cum
      BY Zenon, <2>1, <2>5
    <3> QED
      BY Zenon, <1>1, <3>1, RisingKept
  <2> QED
    BY Zenon, <1>0, <1>1, <1>4, <2>3, <2>5, <2>6, <2>7, <2>8 DEF IInv, Typed, ChequeClearsDebt
<1>5. ASSUME NEW r \in OpType, Moves(o, r), r.st \in {"lock", "overdraft"}, UNCHANGED acc
      PROVE  IInv'
  <2>5. Queued' /\ Serialised' /\ op' \in [Ops -> OpType] /\ op'[o] = r
        /\ \A p \in Ops \ {o} : op'[p] = op[p]
    <3>1. r.st \notin Settler /\ r.st \notin {"cheque", "emit"}
      BY Zenon, <1>5 DEF Settler
    <3>2. acc'.balance >= acc.balance
      BY <1>0, <1>5
    <3> QED
      BY Zenon, <1>0, <1>1, <1>2, <1>5, <3>1, <3>2, MoveKeeps
  <2>6. Held' = Held
    BY Zenon, <1>2, <1>5, <2>5, HeldMoves DEF OpStates, Settling, Answers
  <2>8. Rising'
    <3>1. \A p \in Ops : op'[p].st = "emit" => op[p].st = "emit" /\ op'[p].cum = op[p].cum
      BY Zenon, <1>5, <2>5
    <3> QED
      BY Zenon, <1>1, <3>1, RisingKept
  <2> QED
    BY Zenon, <1>0, <1>1, <1>5, <2>5, <2>6, <2>8
    DEF IInv, Typed, ChequeClearsDebt, ReserveIsOnWire, WithinThreshold, Moves
<1>6. CASE op' = [op EXCEPT ![o].st = "lock", ![o].then = "retry"] /\ UNCHANGED <<acc, driver>>
  <2> DEFINE r == [op[o] EXCEPT !.st = "lock", !.then = "retry"]
  <2>1. r \in OpType /\ r.st = "lock"
    BY <1>0, Zenon DEF OpType, OpStates, Settling
  <2>2. op' = [op EXCEPT ![o] = r]
    BY <1>0, <1>6, Zenon DEF Typed
  <2> HIDE DEF r
  <2>3. Moves(o, r)
    BY <1>0, <1>1, <1>6, <2>1, <2>2, Zenon DEF Moves, Settling
  <2> QED
    BY Zenon, <1>5, <1>6, <2>1, <2>3
<1>7. CASE Ends(o, "overdraft", FALSE, driver) /\ UNCHANGED acc
  <2>1. PICK r \in OpType : /\ op' = [op EXCEPT ![o] = r] /\ r.st = "overdraft"
                            /\ driver' \in DriverType /\ driver'.on = driver.on
    BY <1>0, <1>7, EndsMoves, Zenon DEF Answers
  <2>2. Moves(o, r)
    BY Zenon, <1>1, <2>1 DEF Moves, Answers
  <2> QED
    BY Zenon, <1>5, <1>7, <2>1, <2>2
<1> QED
  BY <1>4, <1>6, <1>7, Zenon DEF Reserve

\* Steps of a task that is not on the wire and sends nothing: the balance can only
\* fall, and only for who holds the lock.
LEMMA OffWireStep ==
  ASSUME IInv, NEW o \in Ops, NEW r \in OpType, Moves(o, r), o \notin Held,
         r.st \notin {"wire", "emit"},
         acc' \in [reserve : Nat, balance : Nat],
         acc'.reserve = acc.reserve, acc'.balance <= acc.balance,
         UNCHANGED <<store, cheques, made>>,
         r.st \in Settling \cup {"reserve"} => Kind[o] = "push",
         r.st \in Settler => lock' = {o},
         lock' = lock \/ lock = {} \/ op[o].st \in Settler,
         acc'.balance = acc.balance \/ op[o].st \in Settler,
         r.st = "cheque" => 0 < r.plur /\ r.plur <= acc'.balance
  PROVE  IInv'
<1>0. Typed /\ acc \in [reserve : Nat, balance : Nat]
  BY Zenon DEF IInv, Typed
<1>1. Queued' /\ Serialised' /\ op' \in [Ops -> OpType] /\ op'[o] = r
      /\ \A p \in Ops \ {o} : op'[p] = op[p]
  <2>1. acc'.balance >= acc.balance \/ op[o].st \in Settler
    BY Zenon, <1>0
  <2> QED
    BY Zenon, <2>1, MoveKeeps
<1>2. Held' = Held
  BY Zenon, <1>1, HeldMoves DEF OpType
<1>3. Rising'
  <2>1. \A p \in Ops : op'[p].st = "emit" => op[p].st = "emit" /\ op'[p].cum = op[p].cum
    BY Zenon, <1>1
  <2> QED
    BY Zenon, <2>1, RisingKept
<1>4. WithinThreshold'
  BY <1>0, SessionAssumption DEF IInv, WithinThreshold
<1>5. ReserveIsOnWire'
  BY Zenon, <1>2 DEF IInv, ReserveIsOnWire
<1> QED
  BY Zenon, <1>0, <1>1, <1>3, <1>4, <1>5 DEF IInv, Typed, ChequeClearsDebt, Moves

\* A settlement ends without a cheque having been sent.
LEMMA UnsentStep ==
  ASSUME IInv, NEW o \in Ops, op[o].st \in Settling, op[o].st = "lock" => lock = {},
         Settled(o),
         acc' \in [reserve : Nat, balance : Nat],
         acc'.reserve = acc.reserve, acc'.balance <= acc.balance,
         acc'.balance = acc.balance \/ op[o].st \in Settler,
         UNCHANGED <<queue, store, cheques, made>>
  PROVE  IInv'
<1>0. Typed
  BY Zenon DEF IInv
<1>1. lock' = {}
  BY Zenon, <1>0, SettledMoves
<1>2. PICK r \in OpType : /\ op' = [op EXCEPT ![o] = r] /\ r.st \in {"reserve", "receipt"}
                          /\ driver' \in DriverType /\ driver'.on = driver.on
  BY Zenon, <1>0, SettledMoves
<1>3. Moves(o, r)
  BY Zenon, <1>2 DEF Moves, Settling, Answers
<1>4. o \notin Held /\ Kind[o] = "push"
  BY Zenon DEF IInv, Serialised, Held, Settling
<1>5. r.st \notin {"wire", "emit"} /\ r.st \notin Settler /\ r.st # "cheque"
  BY Zenon, <1>2 DEF Settler
<1>6. lock = {} \/ op[o].st \in Settler
  BY Zenon DEF Settling, Settler
<1> QED
  BY Zenon, <1>3, <1>4, <1>5, <1>6, OffWireStep

\* try_settle_once takes the lock and reads the debt.
LEMMA SettleStep == ASSUME IInv, NEW o \in Ops, Settle(o) PROVE IInv'
<1>0. Typed /\ driver \in DriverType /\ acc \in [reserve : Nat, balance : Nat] /\ op[o] \in OpType
  BY Zenon DEF IInv, Typed
<1>1. op[o].st = "lock" /\ lock = {} /\ UNCHANGED <<queue, acc, store, cheques, made>>
  BY Zenon DEF Settle
<1>2. CASE /\ op' = [op EXCEPT ![o].st = "pseudo", ![o].plur = acc.balance + acc.reserve]
           /\ lock' = {o} /\ UNCHANGED driver
  <2> DEFINE n == acc.balance + acc.reserve
             r == [op[o] EXCEPT !.st = "pseudo", !.plur = n]
  <2>1. n \in Nat
    BY <1>0
  <2>2. op' = [op EXCEPT ![o] = r]
    BY <1>0, <1>2, Zenon DEF Typed
  <2> HIDE DEF n
  <2>3. r \in OpType /\ r.st = "pseudo"
    BY <1>0, <2>1, Zenon DEF OpType, OpStates, Settling
  <2> HIDE DEF r
  <2>4. Moves(o, r)
    BY <1>0, <1>1, <1>2, <2>2, <2>3, Zenon DEF Moves, Settling
  <2>5. o \notin Held /\ Kind[o] = "push"
    BY Zenon, <1>1 DEF IInv, Serialised, Held, Settling
  <2>6. acc'.balance <= acc.balance
    BY <1>0, <1>1
  <2> QED
    BY Zenon, <1>0, <1>1, <1>2, <2>3, <2>4, <2>5, <2>6, OffWireStep
<1>3. CASE Settled(o)
  <2>1. acc'.balance <= acc.balance
    BY <1>0, <1>1
  <2> QED
    BY Zenon, <1>0, <1>1, <1>3, <2>1, UnsentStep DEF Settling
<1> QED
  BY Zenon, <1>2, <1>3 DEF Settle

\* The peer acknowledges the pseudosettlement.
LEMMA PseudoStep ==
  ASSUME IInv, NEW o \in Ops, NEW accepted \in 0..Threshold, Pseudosettled(o, accepted)
  PROVE  IInv'
<1> DEFINE n == Max({acc.balance - accepted, 0})
<1>0. Typed /\ driver \in DriverType /\ acc \in [reserve : Nat, balance : Nat] /\ op[o] \in OpType
  BY Zenon DEF IInv, Typed
<1>1. n \in Nat /\ n <= acc.balance
  <2>1. acc.balance - accepted \in Int /\ acc.balance \in Nat /\ accepted >= 0
    BY <1>0, SessionAssumption
  <2> QED
    BY <2>1, MaxZero
<1>2. op[o].st = "pseudo" /\ acc' = [acc EXCEPT !.balance = n]
      /\ UNCHANGED <<queue, store, cheques, made>>
  BY Zenon DEF Pseudosettled
<1>3. \/ n > 0 /\ op' = [op EXCEPT ![o].st = "cheque", ![o].plur = n] /\ UNCHANGED <<lock, driver>>
      \/ Settled(o)
  BY Zenon DEF Pseudosettled
<1> HIDE DEF n
<1>4. /\ acc' \in [reserve : Nat, balance : Nat] /\ acc'.reserve = acc.reserve
      /\ acc'.balance = n /\ acc'.balance <= acc.balance
  BY Zenon, <1>0, <1>1, <1>2
<1>5. op[o].st \in Settler /\ op[o].st \in Settling
  BY Zenon, <1>2 DEF Settler, Settling
<1>6. CASE Settled(o)
  BY Zenon, <1>2, <1>4, <1>5, <1>6, UnsentStep
<1>7. CASE n > 0 /\ op' = [op EXCEPT ![o].st = "cheque", ![o].plur = n] /\ UNCHANGED <<lock, driver>>
  <2> DEFINE r == [op[o] EXCEPT !.st = "cheque", !.plur = n]
  <2>1. op' = [op EXCEPT ![o] = r]
    BY <1>0, <1>7, Zenon DEF Typed
  <2>2. r \in OpType /\ r.st = "cheque" /\ r.plur = n
    BY <1>0, <1>1, Zenon DEF OpType, OpStates, Settling
  <2> HIDE DEF r
  <2>3. Moves(o, r)
    BY <1>0, <1>2, <1>5, <1>7, <2>1, <2>2, Zenon DEF Moves, Settling
  <2>4. o \notin Held /\ Kind[o] = "push" /\ lock = {o}
    BY Zenon, <1>2, <1>5 DEF IInv, Serialised, Held
  <2>5. 0 < r.plur /\ r.plur <= acc'.balance
    BY <1>1, <1>4, <1>7, <2>2
  <2> QED
    BY Zenon, <1>2, <1>4, <1>5, <1>7, <2>2, <2>3, <2>4, <2>5, OffWireStep
<1> QED
  BY Zenon, <1>3, <1>6, <1>7

\* A settlement fails.
LEMMA FailStep == ASSUME IInv, NEW o \in Ops, SettleFails(o) PROVE IInv'
<1>0. acc \in [reserve : Nat, balance : Nat]
  BY Zenon DEF IInv, Typed
<1>1. /\ op[o].st \in Settling /\ op[o].st # "lock" /\ Settled(o)
      /\ UNCHANGED <<queue, acc, store, cheques, made>>
  BY Zenon DEF SettleFails, Settling
<1>2. acc'.balance <= acc.balance
  BY <1>0, <1>1
<1> QED
  BY Zenon, <1>0, <1>1, <1>2, UnsentStep

\* A debt is worth something at rates that make one unit of it worth something.
LEMMA AmountPositive ==
  ASSUME NEW plur \in Nat, plur > 0, NEW rates \in Rates
  PROVE  /\ amount(plur, rates) \in Nat
         /\ amount(1, rates) > 0 => amount(plur, rates) > 0
<1> DEFINE e == rates.exchange_rate
           d == rates.deduction
<1>1. e \in Nat /\ d \in Nat
  BY Zenon, SessionAssumption
<1>2. plur * e \in Nat /\ (e > 0 => plur * e > 0)
  BY <1>1
<1>3. amount(plur, rates) = plur * e + d /\ amount(1, rates) = 1 * e + d
  BY Zenon DEF amount
<1> HIDE DEF e, d
<1>4. 1 * e + d > 0 => plur * e + d > 0
  BY <1>1, <1>2
<1> QED
  BY <1>1, <1>2, <1>3, <1>4

\* try_emit_cheque up to the signature.
LEMMA SignStep ==
  ASSUME IInv, NEW o \in Ops, NEW rates \in Rates, NEW saved \in BOOLEAN, Sign(o, rates, saved)
  PROVE  IInv'
<1> DEFINE n == store.cum + amount(op[o].plur, rates)
<1>0. /\ Typed /\ driver \in DriverType /\ acc \in [reserve : Nat, balance : Nat] /\ op[o] \in OpType
      /\ store \in [cum : 0..MaxCumulative, disk : 0..MaxCumulative, saved : BOOLEAN]
  BY Zenon DEF IInv, Typed
<1>1. op[o].st = "cheque" /\ UNCHANGED <<queue, acc, cheques, made>>
  BY Zenon DEF Sign
<1>2. /\ op[o].st \in Settler /\ op[o].st \in Settling /\ o \notin Held /\ Kind[o] = "push"
      /\ lock = {o} /\ 0 < op[o].plur /\ op[o].plur <= acc.balance
  BY Zenon, <1>1 DEF IInv, Serialised, Settler, Settling, Held
<1>3. n \in Nat /\ n >= store.cum /\ (amount(1, rates) > 0 => n > store.cum)
  <2>1. op[o].plur \in Nat /\ store.cum \in Nat
    BY <1>0, SessionAssumption DEF OpType
  <2>2. /\ amount(op[o].plur, rates) \in Nat
        /\ amount(1, rates) > 0 => amount(op[o].plur, rates) > 0
    BY Zenon, <1>2, <2>1, AmountPositive
  <2> QED
    BY <2>1, <2>2
<1>4. \/ /\ n <= MaxCumulative
         /\ store' = [cum |-> n, disk |-> IF saved THEN n ELSE store.disk, saved |-> store.saved /\ saved]
         /\ op' = [op EXCEPT ![o].st = "emit", ![o].cum = n]
         /\ UNCHANGED <<lock, driver>>
      \/ Settled(o) /\ UNCHANGED store
  BY Zenon DEF Sign
<1> HIDE DEF n
<1>5. CASE Settled(o) /\ UNCHANGED store
  <2>1. acc'.balance <= acc.balance
    BY <1>0, <1>1
  <2> QED
    BY Zenon, <1>0, <1>1, <1>2, <1>5, <2>1, UnsentStep
<1>6. CASE /\ n <= MaxCumulative
           /\ store' = [cum |-> n, disk |-> IF saved THEN n ELSE store.disk, saved |-> store.saved /\ saved]
           /\ op' = [op EXCEPT ![o].st = "emit", ![o].cum = n]
           /\ UNCHANGED <<lock, driver>>
  <2> DEFINE r == [op[o] EXCEPT !.st = "emit", !.cum = n]
  <2>1. op' = [op EXCEPT ![o] = r]
    BY <1>0, <1>6, Zenon DEF Typed
  <2>2. r \in OpType /\ r.st = "emit" /\ r.cum = n /\ r.plur = op[o].plur
    BY <1>0, <1>3, Zenon DEF OpType, OpStates, Settling
  <2> HIDE DEF r
  <2>3. Moves(o, r)
    BY <1>0, <1>1, <1>2, <1>6, <2>1, <2>2, Zenon DEF Moves, Settling
  <2>4. Queued' /\ Serialised' /\ op' \in [Ops -> OpType] /\ op'[o] = r
        /\ \A p \in Ops \ {o} : op'[p] = op[p]
    BY <1>0, <1>1, <1>2, <1>6, <2>2, <2>3, MoveKeeps, Zenon
  <2>5. Held' = Held
    BY Zenon, <1>2, <2>2, <2>4, HeldMoves DEF OpType
  <2>6. store' \in [cum : 0..MaxCumulative, disk : 0..MaxCumulative, saved : BOOLEAN]
    <3>1. n \in 0..MaxCumulative
      BY <1>3, <1>6, SessionAssumption
    <3>2. (IF saved THEN n ELSE store.disk) \in 0..MaxCumulative /\ (store.saved /\ saved) \in BOOLEAN
      BY Zenon, <1>0, <3>1
    <3> QED
      BY Zenon, <1>6, <3>1, <3>2
  <2>7. Rising'
    <3>1. SUFFICES ASSUME store'.saved, \A q \in Rates : amount(1, q) > 0
                   PROVE  /\ store'.disk = store'.cum
                          /\ \A i \in 1..Len(cheques) : cheques[i] <= store'.cum
                          /\ \A i, j \in 1..Len(cheques) : i < j => cheques[i] < cheques[j]
                          /\ \A p \in Ops : op'[p].st = "emit" =>
                               op'[p].cum <= store'.cum /\ \A i \in 1..Len(cheques) : cheques[i] < op'[p].cum
      BY Zenon, <1>1 DEF Rising, amount
    <3>2. store.saved /\ saved /\ store'.cum = n /\ store'.disk = n
      BY <1>6, <3>1, Zenon
    <3>3. n > store.cum
      BY Zenon, <1>3, <3>1
    <3>4. /\ \A i \in 1..Len(cheques) : cheques[i] <= store.cum
          /\ \A i, j \in 1..Len(cheques) : i < j => cheques[i] < cheques[j]
      BY Zenon, <3>1, <3>2 DEF IInv, Rising
    <3>5. \A i \in 1..Len(cheques) : cheques[i] < n
      <4>1. \A i \in 1..Len(cheques) : cheques[i] \in Nat
        BY SMTT(60) DEF IInv, Typed
      <4>2. store.cum \in Nat
        BY <1>0, SessionAssumption
      <4> QED
        BY <1>3, <3>3, <3>4, <4>1, <4>2
    <3>6. \A i \in 1..Len(cheques) : cheques[i] <= n
      <4>1. \A i \in 1..Len(cheques) : cheques[i] \in Nat
        BY SMTT(60) DEF IInv, Typed
      <4> QED
        BY <1>3, <3>5, <4>1
    <3>7. \A p \in Ops : op'[p].st = "emit" => p = o
      <4>1. \A p \in Ops : op[p].st = "emit" => lock = {p}
        BY Zenon DEF IInv, Serialised, Settler
      <4> QED
        BY Zenon, <1>2, <2>4, <4>1
    <3> QED
      BY <1>3, <2>2, <2>4, <3>2, <3>4, <3>5, <3>6, <3>7
  <2> QED
    BY Zenon, <1>0, <1>1, <1>6, <2>4, <2>5, <2>6, <2>7
    DEF IInv, Typed, ChequeClearsDebt, ReserveIsOnWire, WithinThreshold
<1> QED
  BY Zenon, <1>4, <1>5, <1>6

\* The cheque is out.
LEMMA EmitStep == ASSUME IInv, NEW o \in Ops, Emit(o) PROVE IInv'
<1>0. /\ Typed /\ acc \in [reserve : Nat, balance : Nat] /\ op[o] \in OpType
      /\ made \in [sessions : Nat, probes : Nat, excess : Nat] /\ cheques \in Seq(Nat)
      /\ store \in [cum : 0..MaxCumulative, disk : 0..MaxCumulative, saved : BOOLEAN]
  BY Zenon DEF IInv, Typed
<1>1. /\ op[o].st = "emit" /\ cheques' = Append(cheques, op[o].cum)
      /\ acc' = [acc EXCEPT !.balance = Max({acc.balance - op[o].plur, 0})]
      /\ made' = [made EXCEPT !.excess = made.excess + Max({op[o].plur - acc.balance, 0})]
      /\ Settled(o) /\ UNCHANGED <<queue, store>>
  BY Zenon DEF Emit
<1>2. /\ op[o].st \in Settler /\ op[o].st \in Settling /\ o \notin Held /\ Kind[o] = "push"
      /\ lock = {o} /\ 0 < op[o].plur /\ op[o].plur <= acc.balance
  BY Zenon, <1>1 DEF IInv, Serialised, Settler, Settling, Held
<1>3. /\ Max({acc.balance - op[o].plur, 0}) = acc.balance - op[o].plur
      /\ Max({op[o].plur - acc.balance, 0}) = 0
  <2>1. op[o].plur \in Nat /\ acc.balance \in Nat
    BY Zenon, <1>0 DEF OpType
  <2>2. acc.balance - op[o].plur \in Int /\ op[o].plur - acc.balance \in Int
    BY <2>1
  <2> QED
    BY <1>2, <2>1, <2>2, MaxZero
<1>4. /\ acc' \in [reserve : Nat, balance : Nat] /\ acc'.reserve = acc.reserve
      /\ acc'.balance <= acc.balance
  <2>1. op[o].plur \in Nat
    BY Zenon, <1>0 DEF OpType
  <2> QED
    BY <1>0, <1>1, <1>2, <1>3, <2>1, SMTT(60)
<1>5. made' = made
  BY <1>0, <1>1, <1>3
<1>6. PICK r \in OpType : /\ op' = [op EXCEPT ![o] = r] /\ r.st \in {"reserve", "receipt"}
                          /\ driver' \in DriverType /\ driver'.on = driver.on
  BY Zenon, <1>0, <1>1, SettledMoves
<1>7. lock' = {}
  BY Zenon, <1>0, <1>1, SettledMoves
<1>8. Moves(o, r)
  BY Zenon, <1>1, <1>2, <1>6 DEF Moves, Answers
<1>9. Queued' /\ Serialised' /\ op' \in [Ops -> OpType] /\ op'[o] = r
      /\ \A p \in Ops \ {o} : op'[p] = op[p]
  <2>1. r.st \notin Settler /\ r.st \notin {"cheque", "emit"}
    BY Zenon, <1>6 DEF Settler
  <2> QED
    BY Zenon, <1>2, <1>4, <1>8, <2>1, MoveKeeps
<1>10. Held' = Held
  BY Zenon, <1>2, <1>6, <1>9, HeldMoves DEF OpType
<1>11. Rising'
  <2>1. \A p \in Ops : op'[p].st # "emit"
    <3>1. \A p \in Ops : op[p].st = "emit" => lock = {p}
      BY Zenon DEF IInv, Serialised, Settler
    <3> QED
      BY Zenon, <1>2, <1>6, <1>9, <3>1
  <2>2. SUFFICES ASSUME store.saved, \A q \in Rates : amount(1, q) > 0
                 PROVE  /\ store.disk = store.cum
                        /\ \A i \in 1..Len(cheques') : cheques'[i] <= store.cum
                        /\ \A i, j \in 1..Len(cheques') : i < j => cheques'[i] < cheques'[j]
    BY Zenon, <1>1, <2>1 DEF Rising, amount
  <2>3. /\ store.disk = store.cum
        /\ \A i \in 1..Len(cheques) : cheques[i] <= store.cum
        /\ \A i, j \in 1..Len(cheques) : i < j => cheques[i] < cheques[j]
        /\ op[o].cum <= store.cum /\ \A i \in 1..Len(cheques) : cheques[i] < op[o].cum
    BY Zenon, <1>1, <2>2 DEF IInv, Rising
  <2>4. op[o].cum \in Nat /\ Len(cheques) \in Nat
    BY <1>0, SMTT(60) DEF OpType
  <2>5. /\ Len(cheques') = Len(cheques) + 1
        /\ \A i \in 1..Len(cheques) : cheques'[i] = cheques[i]
        /\ cheques'[Len(cheques) + 1] = op[o].cum
    BY <1>0, <1>1, <2>4
  <2>6. \A i \in 1..Len(cheques') : i \in 1..Len(cheques) \/ i = Len(cheques) + 1
    BY <2>4, <2>5
  <2>7. \A i \in 1..Len(cheques') : cheques'[i] <= store.cum
    BY Zenon, <2>3, <2>5, <2>6
  <2>8. ASSUME NEW i \in 1..Len(cheques'), NEW j \in 1..Len(cheques'), i < j
        PROVE  cheques'[i] < cheques'[j]
    <3>1. i \in 1..Len(cheques)
      BY <2>4, <2>5, <2>8
    <3> QED
      BY Zenon, <2>3, <2>5, <2>6, <2>8, <3>1
  <2> QED
    BY Zenon, <2>3, <2>7, <2>8
<1>12. WithinThreshold'
  BY <1>0, <1>4, SessionAssumption, SMTT(60) DEF IInv, WithinThreshold
<1>13. cheques' \in Seq(Nat)
  BY <1>0, <1>1, SMTT(60) DEF OpType
<1> QED
  BY <1>0, <1>1, <1>4, <1>5, <1>6, <1>9, <1>10, <1>11, <1>12, <1>13, Zenon
  DEF IInv, Typed, ChequeClearsDebt, ReserveIsOnWire

\* A push ends on the wire.
LEMMA PushedStep ==
  ASSUME IInv, NEW o \in Ops, NEW ok \in BOOLEAN, NEW dead \in BOOLEAN, Pushed(o, ok, dead)
  PROVE  IInv'
<1>0. /\ Typed /\ driver \in DriverType /\ acc \in [reserve : Nat, balance : Nat] /\ op[o] \in OpType
      /\ Price[o] \in Nat
  BY Zenon, SessionAssumption DEF IInv, Typed
<1>1. o \in Held /\ op[o].st = "wire" /\ Kind[o] = "push"
      /\ UNCHANGED <<queue, lock, store, cheques, made>>
  BY Zenon DEF Pushed, Held
<1>2. acc.reserve = SumOver(Price, Held)
  BY Zenon DEF IInv, ReserveIsOnWire
<1>3. ASSUME NEW r \in OpType, Moves(o, r), r.st \in {"lock"} \cup Answers,
             acc' = [reserve |-> acc.reserve - Price[o], balance |-> acc.balance + Price[o]]
               \/ acc' = [acc EXCEPT !.reserve = @ - Price[o]]
      PROVE  IInv'
  <2>1. r.st \notin Settler /\ r.st \notin {"cheque", "emit"} /\ r.st # "wire" /\ r.st \in OpStates
    BY Zenon, <1>3 DEF Settler, Answers, OpStates, Settling
  <2>2. op'[o] = r /\ \A p \in Ops \ {o} : op'[p] = op[p]
    BY Zenon, <1>0, <1>3 DEF Moves, Typed
  <2>3. SumOver(Price, Held) = Price[o] + SumOver(Price, Held')
    BY Zenon, <1>1, <2>1, <2>2, HeldMoves
  <2>4. SumOver(Price, Held') \in Nat
    <3>1. IsFiniteSet(Held') /\ \A x \in Held' : Price[x] \in Nat
      <4>1. Held' \subseteq Ops
        BY Zenon DEF Held
      <4> QED
        BY Zenon, <4>1, FS_Subset, SessionAssumption
    <3> QED
      BY Zenon, <3>1, SumNat
  <2>5. acc.reserve - Price[o] \in Nat /\ acc.reserve - Price[o] = SumOver(Price, Held')
    BY <1>0, <1>2, <2>3, <2>4
  <2>6. /\ acc' \in [reserve : Nat, balance : Nat] /\ acc'.balance >= acc.balance
        /\ acc'.reserve = SumOver(Price, Held')
        /\ acc'.reserve + acc'.balance <= acc.reserve + acc.balance
    BY <1>0, <1>3, <2>5
  <2>7. Queued' /\ Serialised' /\ op' \in [Ops -> OpType]
    BY Zenon, <1>1, <1>3, <2>1, <2>6, MoveKeeps
  <2>8. Rising'
    <3>1. \A p \in Ops : op'[p].st = "emit" => op[p].st = "emit" /\ op'[p].cum = op[p].cum
      BY Zenon, <2>1, <2>2
    <3> QED
      BY Zenon, <1>1, <3>1, RisingKept
  <2>9. WithinThreshold'
    BY <1>0, <2>6, SessionAssumption DEF IInv, WithinThreshold
  <2> QED
    BY Zenon, <1>0, <1>1, <1>3, <2>6, <2>7, <2>8, <2>9
    DEF IInv, Typed, ChequeClearsDebt, ReserveIsOnWire, Moves
<1>4. CASE /\ acc' = [reserve |-> acc.reserve - Price[o], balance |-> acc.balance + Price[o]]
           /\ op' = [op EXCEPT ![o].st = "lock", ![o].then = "reply"] /\ UNCHANGED driver
  <2> DEFINE r == [op[o] EXCEPT !.st = "lock", !.then = "reply"]
  <2>1. op' = [op EXCEPT ![o] = r]
    BY <1>0, <1>4, Zenon DEF Typed
  <2>2. r \in OpType /\ r.st = "lock"
    BY <1>0, Zenon DEF OpType, OpStates, Settling
  <2> HIDE DEF r
  <2>3. Moves(o, r)
    BY <1>0, <1>1, <1>4, <2>1, <2>2, Zenon DEF Moves, Settling
  <2> QED
    BY Zenon, <1>3, <1>4, <2>2, <2>3
<1>5. ASSUME NEW answer \in Answers, NEW d \in DriverType, d.on = driver.on, NEW lost \in BOOLEAN,
             Ends(o, answer, lost, d),
             acc' = [reserve |-> acc.reserve - Price[o], balance |-> acc.balance + Price[o]]
               \/ acc' = [acc EXCEPT !.reserve = @ - Price[o]]
      PROVE  IInv'
  <2>1. PICK r \in OpType : /\ op' = [op EXCEPT ![o] = r] /\ r.st = answer
                            /\ driver' \in DriverType /\ driver'.on = driver.on
    BY <1>0, <1>5, EndsMoves
  <2>2. Moves(o, r)
    BY Zenon, <1>1, <2>1 DEF Moves
  <2> QED
    BY Zenon, <1>3, <1>5, <2>1, <2>2
<1>6. CASE /\ acc' = [reserve |-> acc.reserve - Price[o], balance |-> acc.balance + Price[o]]
           /\ Ends(o, "receipt", FALSE, driver)
  BY <1>0, <1>5, <1>6, Zenon DEF Answers
<1>7. CASE acc' = Released(acc, o) /\ Ends(o, "error", dead, [driver EXCEPT !.ghost = @ + Price[o]])
  <2> DEFINE d == [driver EXCEPT !.ghost = @ + Price[o]]
  <2>1. d \in DriverType /\ d.on = driver.on
    BY <1>0 DEF DriverType
  <2>2. Ends(o, "error", dead, d)
    BY Zenon, <1>7
  <2> HIDE DEF d
  <2> QED
    BY Zenon, <1>5, <1>7, <2>1, <2>2 DEF Answers, Released
<1> QED
  BY <1>4, <1>6, <1>7, Zenon DEF Pushed

\* A fetch or a probe is answered.
LEMMA AnsweredStep ==
  ASSUME IInv, NEW o \in Ops, NEW ok \in BOOLEAN, NEW dead \in BOOLEAN, Answered(o, ok, dead)
  PROVE  IInv'
<1> DEFINE answer == IF ok THEN "receipt" ELSE "error"
           lost == ~ok /\ dead /\ Kind[o] = "probe"
<1>0. Typed /\ driver \in DriverType /\ acc \in [reserve : Nat, balance : Nat]
  BY Zenon DEF IInv, Typed
<1>1. /\ op[o].st = "wire" /\ Kind[o] # "push" /\ Ends(o, answer, lost, driver)
      /\ UNCHANGED <<queue, acc, lock, store, cheques, made>>
  BY Zenon DEF Answered
<1>2. answer \in Answers /\ lost \in BOOLEAN
  BY Zenon DEF Answers
<1> HIDE DEF answer, lost
<1>3. PICK r \in OpType : /\ op' = [op EXCEPT ![o] = r] /\ r.st = answer
                          /\ driver' \in DriverType /\ driver'.on = driver.on
  BY <1>0, <1>1, <1>2, EndsMoves
<1>4. Moves(o, r)
  BY Zenon, <1>1, <1>2, <1>3 DEF Moves
<1>5. o \notin Held /\ r.st \notin Settling \cup {"reserve", "wire"} /\ r.st \notin Settler
      /\ r.st \notin {"wire", "emit"} /\ r.st # "cheque"
  BY Zenon, <1>1, <1>2, <1>3 DEF Held, Answers, Settling, Settler
<1>6. acc'.balance <= acc.balance
  BY <1>0, <1>1
<1> QED
  BY Zenon, <1>0, <1>1, <1>4, <1>5, <1>6, OffWireStep

\* Every step of a task.
LEMMA TaskStep == ASSUME IInv, NEW o \in Ops, Task(o) PROVE IInv'
  BY Zenon, ReserveStep, SettleStep, FailStep, EmitStep, PseudoStep, SignStep, PushedStep, AnsweredStep
  DEF Task

-----------------------------------------------------------------------------
\* The callers and the driver.

\* Steps that leave the operations and the accounting alone.
LEMMA DriverOnly ==
  ASSUME IInv, driver' \in DriverType, driver'.on = driver.on,
         made' \in [sessions : Nat, probes : Nat, excess : Nat], made'.excess = made.excess,
         UNCHANGED <<op, queue, acc, lock, store, cheques>>
  PROVE  IInv'
<1>1. Rising'
  BY Zenon, RisingKept
<1>2. Tasks' = Tasks /\ Held' = Held
  BY Zenon DEF Tasks, Held
<1>3. Serialised'
  BY Zenon, <1>2 DEF IInv, Serialised
<1>4. Typed' /\ Queued'
  BY DEF IInv, Typed, Queued
<1> QED
  BY Zenon, <1>1, <1>2, <1>3, <1>4 DEF IInv, ReserveIsOnWire, WithinThreshold, ChequeClearsDebt

\* Events of the swarm.
LEMMA EventStep ==
  ASSUME IInv, ConnectionClosed \/ SwarmEvent \/ StatusIn \/ StatusOut PROVE IInv'
<1>0. driver \in DriverType /\ made \in [sessions : Nat, probes : Nat, excess : Nat]
  BY Zenon DEF IInv, Typed
<1>1. UNCHANGED <<op, queue, acc, lock, store, cheques>>
  BY Zenon DEF ConnectionClosed, SwarmEvent, StatusIn, StatusOut
<1>2. made' \in [sessions : Nat, probes : Nat, excess : Nat] /\ made'.excess = made.excess
  <2>1. made' = made \/ made' = [made EXCEPT !.probes = @ + 1]
    BY Zenon DEF ConnectionClosed, SwarmEvent, StatusIn, StatusOut
  <2> QED
    BY <1>0, <2>1
<1>3. driver' \in DriverType /\ driver'.on = driver.on
  <2>1. CASE ConnectionClosed \/ SwarmEvent
    BY ZenonT(60), <1>0, <2>1 DEF ConnectionClosed, SwarmEvent, DriverType
  <2>2. CASE StatusIn
    <3> DEFINE n == driver.probes + 1
    <3>1. driver' = [driver EXCEPT !.probes = n, !.polled = TRUE]
      BY Zenon, <2>2 DEF StatusIn
    <3>2. n \in Nat
      BY <1>0 DEF DriverType
    <3> HIDE DEF n
    <3> QED
      BY <1>0, <3>1, <3>2, Zenon DEF DriverType
  <2>3. CASE StatusOut
    <3> DEFINE a == driver.accept /\ ~TRUE /\ ~Retires(driver)
    <3>1. a \in BOOLEAN /\ driver.probes - 1 \in Nat
      BY <1>0, <2>3 DEF StatusOut, DriverType
    <3>2. Reaped(driver, TRUE) = [driver EXCEPT !.accept = a, !.polled = TRUE]
      BY Zenon DEF Reaped
    <3>3. Reaped(driver, TRUE) \in DriverType /\ Reaped(driver, TRUE).on = driver.on
          /\ Reaped(driver, TRUE).probes = driver.probes
      <4> HIDE DEF a
      <4> QED
        BY <1>0, <3>1, <3>2, Zenon DEF DriverType
    <3>4. driver' = [Reaped(driver, TRUE) EXCEPT !.probes = Reaped(driver, TRUE).probes - 1]
      BY Zenon, <2>3 DEF StatusOut
    <3> QED
      BY <3>1, <3>3, <3>4, Zenon DEF DriverType
  <2> QED
    BY Zenon, <2>1, <2>2, <2>3
<1> QED
  BY Zenon, <1>1, <1>2, <1>3, DriverOnly

\* A caller submits an operation.
LEMMA SubmitStep == ASSUME IInv, NEW o \in Ops, Submit(o) PROVE IInv'
<1>0. /\ op \in [Ops -> OpType] /\ op[o] \in OpType /\ queue \in Seq(Ops) /\ Len(queue) \in Nat
      /\ Len(queue) <= Channel
  BY SMTT(60) DEF IInv, Typed
<1>1. op[o].st = "new" /\ UNCHANGED <<acc, lock, driver, store, cheques, made>>
  BY Zenon DEF Submit
<1>2. PICK st \in {"closed", "queued"} :
        /\ op' = [op EXCEPT ![o].st = st]
        /\ st = "closed" => queue' = queue
        /\ st = "queued" => queue' = Append(queue, o) /\ Len(queue) < Channel
  BY Zenon DEF Submit
<1>3. /\ op' \in [Ops -> OpType] /\ op'[o].st = st
      /\ \A p \in Ops \ {o} : op'[p] = op[p]
  <2> DEFINE r == [op[o] EXCEPT !.st = st]
  <2>1. r \in OpType /\ r.st = st
    BY <1>0, Zenon DEF OpType, OpStates, Answers
  <2>2. op' = [op EXCEPT ![o] = r]
    BY Zenon, <1>0, <1>2
  <2> HIDE DEF r
  <2> QED
    BY Zenon, <1>0, <2>1, <2>2
<1>4. Tasks' = Tasks /\ Held' = Held
  BY Zenon, <1>1, <1>3 DEF Tasks, Held, Settling
<1>5. Rising'
  <2>1. \A p \in Ops : op'[p].st = "emit" => op[p].st = "emit" /\ op'[p].cum = op[p].cum
    BY Zenon, <1>3
  <2> QED
    BY Zenon, <1>1, <2>1, RisingKept
<1>6. Serialised'
  BY Zenon, <1>1, <1>3, <1>4 DEF IInv, Serialised, Settling, Settler
<1>7. queue' \in Seq(Ops) /\ Len(queue') <= Channel /\ Queued'
  <2>1. CASE st = "closed"
    <3>1. queue' = queue /\ \A p \in Ops : op'[p].st = "queued" <=> op[p].st = "queued"
      BY Zenon, <1>1, <1>2, <1>3, <2>1
    <3> QED
      BY Zenon, <1>0, <3>1 DEF IInv, Queued
  <2>2. CASE st = "queued"
    <3>1. queue' = Append(queue, o) /\ Len(queue) < Channel
      BY Zenon, <1>2, <2>2
    <3>2. /\ queue' \in Seq(Ops) /\ Len(queue') = Len(queue) + 1
          /\ \A i \in 1..Len(queue) : queue'[i] = queue[i]
          /\ queue'[Len(queue) + 1] = o
      BY <1>0, <3>1
    <3>3. \A i : i \in 1..Len(queue') <=> i \in 1..Len(queue) \/ i = Len(queue) + 1
      BY <1>0, <3>2
    <3>4. \A i \in 1..Len(queue) : queue[i] # o
      BY Zenon, <1>1 DEF IInv, Queued
    <3>5. \A p \in Ops : op'[p].st = "queued" <=> \E i \in 1..Len(queue') : queue'[i] = p
      <4>1. \A p \in Ops \ {o} : op[p].st = "queued" <=> \E i \in 1..Len(queue) : queue[i] = p
        BY Zenon DEF IInv, Queued
      <4> QED
        BY <1>3, <2>2, <3>2, <3>3, <3>4, <4>1, SMTT(60)
    <3>6. \A i, j \in 1..Len(queue') : queue'[i] = queue'[j] => i = j
      <4>1. \A i, j \in 1..Len(queue) : queue[i] = queue[j] => i = j
        BY Zenon DEF IInv, Queued
      <4> QED
        BY Zenon, <3>2, <3>3, <3>4, <4>1
    <3>7. Len(queue') <= Channel
      BY <1>0, <3>1, <3>2, SessionAssumption
    <3> QED
      BY Zenon, <3>2, <3>5, <3>6, <3>7 DEF Queued
  <2> QED
    BY Zenon, <2>1, <2>2
<1> QED
  BY Zenon, <1>1, <1>3, <1>4, <1>5, <1>6, <1>7
  DEF IInv, Typed, ReserveIsOnWire, WithinThreshold, ChequeClearsDebt

\* The driver takes a command.
LEMMA ReceiveStep == ASSUME IInv, Receive PROVE IInv'
<1> DEFINE o == Head(queue)
           push == Kind[o] = "push"
           u == IF push THEN driver.used + 1 ELSE driver.used
           d == [driver EXCEPT !.used = u]
<1>0. /\ op \in [Ops -> OpType] /\ queue \in Seq(Ops) /\ Len(queue) \in Nat /\ driver \in DriverType
      /\ Len(queue) <= Channel
  BY SMTT(60) DEF IInv, Typed
<1>1. queue # <<>> /\ queue' = Tail(queue) /\ UNCHANGED <<acc, lock, store, cheques, made>>
  BY Zenon DEF Receive
<1>2. o \in Ops /\ o = queue[1] /\ 1 \in 1..Len(queue)
  BY <1>0, <1>1
<1>3. op[o].st = "queued"
  BY Zenon, <1>2 DEF IInv, Queued
<1>4. d \in DriverType /\ d.on = driver.on
  BY <1>0, SMTT(60) DEF DriverType
<1>5. \/ /\ op' = [op EXCEPT ![o].st = "closed"]
         /\ driver' = [d EXCEPT !.accept = FALSE, !.cause = TRUE, !.polled = FALSE]
      \/ /\ op' = [op EXCEPT ![o].st = IF push THEN "reserve" ELSE "wire"]
         /\ driver' = [d EXCEPT !.accept = ~(push /\ Retires(d)), !.cause = push /\ Retires(d)]
  BY Zenon DEF Receive
<1>6. driver.on = TRUE
  BY Zenon, <1>0 DEF Receive, DriverType
<1> HIDE DEF d
<1>7. driver' \in DriverType /\ driver'.on = TRUE
  <2> DEFINE a == ~(push /\ Retires(d))
             c == push /\ Retires(d)
  <2>1. a \in BOOLEAN /\ c \in BOOLEAN
    BY Zenon
  <2>2. driver' = [d EXCEPT !.accept = FALSE, !.cause = TRUE, !.polled = FALSE]
          \/ driver' = [d EXCEPT !.accept = a, !.cause = c]
    BY Zenon, <1>5
  <2> HIDE DEF a, c
  <2> QED
    BY <1>4, <1>6, <2>1, <2>2, ZenonT(60) DEF DriverType
<1>8. PICK st \in {"closed", "reserve", "wire"} :
        /\ op' = [op EXCEPT ![o].st = st]
        /\ st = "reserve" => Kind[o] = "push"
        /\ st = "wire" => Kind[o] # "push"
  BY Zenon, <1>5
<1> HIDE DEF o
<1>9. /\ op' \in [Ops -> OpType] /\ op'[o].st = st
      /\ \A p \in Ops \ {o} : op'[p] = op[p]
  <2> DEFINE r == [op[o] EXCEPT !.st = st]
  <2>1. r \in OpType /\ r.st = st
    BY <1>0, <1>2, ZenonT(60) DEF OpType, OpStates, Answers
  <2>2. op' = [op EXCEPT ![o] = r]
    BY Zenon, <1>0, <1>2, <1>8
  <2> HIDE DEF r
  <2> QED
    BY Zenon, <1>0, <1>2, <2>1, <2>2
<1>10. Held' = Held
  BY Zenon, <1>2, <1>3, <1>8, <1>9 DEF Held
<1>11. Rising'
  <2>1. \A p \in Ops : op'[p].st = "emit" => op[p].st = "emit" /\ op'[p].cum = op[p].cum
    BY Zenon, <1>2, <1>9
  <2> QED
    BY Zenon, <1>1, <2>1, RisingKept
<1>12. Serialised'
  <2>1. \A p \in Ops : op'[p].st \in Settling \cup {"reserve"} => Kind[p] = "push"
    BY Zenon, <1>2, <1>8, <1>9 DEF IInv, Serialised, Settling
  <2>2. \A p \in Ops : op'[p].st \in Settler => p # o
    BY Zenon, <1>9 DEF Settler
  <2>3. \A p \in Ops : op'[p].st \in {"cheque", "emit"} => p # o
    BY Zenon, <1>9
  <2> QED
    BY Zenon, <1>1, <1>7, <1>9, <2>1, <2>2, <2>3 DEF IInv, Serialised
<1>13. queue' \in Seq(Ops) /\ Len(queue') <= Channel /\ Queued'
  <2>1. /\ queue' \in Seq(Ops) /\ Len(queue') = Len(queue) - 1
        /\ \A i \in 1..Len(queue') : queue'[i] = queue[i + 1]
    BY <1>0, <1>1
  <2>2. /\ \A p \in Ops : op[p].st = "queued" <=> \E i \in 1..Len(queue) : queue[i] = p
        /\ \A i, j \in 1..Len(queue) : queue[i] = queue[j] => i = j
    BY Zenon DEF IInv, Queued
  <2>3. \A i \in 1..Len(queue') : i + 1 \in 1..Len(queue) /\ i + 1 # 1
    BY <1>0, <2>1
  <2>4. \A i \in 1..Len(queue) : i = 1 \/ (i - 1 \in 1..Len(queue') /\ (i - 1) + 1 = i)
    BY <1>0, <2>1
  <2>5. \A p \in Ops : op'[p].st = "queued" => \E i \in 1..Len(queue') : queue'[i] = p
    <3> SUFFICES ASSUME NEW p \in Ops, op'[p].st = "queued"
                 PROVE  \E i \in 1..Len(queue') : queue'[i] = p
      BY Zenon
    <3>1. p # o /\ op[p].st = "queued"
      BY Zenon, <1>9
    <3>2. PICK i \in 1..Len(queue) : queue[i] = p
      BY Zenon, <2>2, <3>1
    <3>3. i - 1 \in 1..Len(queue') /\ (i - 1) + 1 = i
      BY Zenon, <1>2, <2>4, <3>1, <3>2
    <3> QED
      BY <2>1, <3>2, <3>3, Zenon
  <2>6. \A p \in Ops : (\E i \in 1..Len(queue') : queue'[i] = p) => op'[p].st = "queued"
    <3> SUFFICES ASSUME NEW p \in Ops, NEW i \in 1..Len(queue'), queue'[i] = p
                 PROVE  op'[p].st = "queued"
      BY Zenon
    <3>1. queue[i + 1] = p /\ i + 1 \in 1..Len(queue) /\ i + 1 # 1
      BY Zenon, <2>1, <2>3
    <3>2. p # o
      BY Zenon, <1>2, <2>2, <3>1
    <3> QED
      BY <1>9, <2>2, <3>1, <3>2
  <2>7. \A i, j \in 1..Len(queue') : queue'[i] = queue'[j] => i = j
    <3> SUFFICES ASSUME NEW i \in 1..Len(queue'), NEW j \in 1..Len(queue'), queue'[i] = queue'[j]
                 PROVE  i = j
      BY Zenon
    <3>1. i + 1 = j + 1
      BY <2>1, <2>2, <2>3
    <3> QED
      BY <3>1
  <2>8. Len(queue') <= Channel
    BY <1>0, <2>1, SessionAssumption
  <2> QED
    BY Zenon, <2>1, <2>5, <2>6, <2>7, <2>8 DEF Queued
<1> QED
  BY Zenon, <1>1, <1>7, <1>9, <1>10, <1>11, <1>12, <1>13
  DEF IInv, Typed, ReserveIsOnWire, WithinThreshold, ChequeClearsDebt

\* The driver is done.
LEMMA RetireStep == ASSUME IInv, Retire PROVE IInv'
<1>0. op \in [Ops -> OpType] /\ driver \in DriverType
  BY Zenon DEF IInv, Typed
<1>1. /\ Tasks = {} /\ queue' = <<>> /\ driver' = [driver EXCEPT !.on = FALSE]
      /\ UNCHANGED <<acc, lock, store, cheques, made>>
  BY Zenon DEF Retire, Idle
<1>2. driver' \in DriverType
  BY <1>0, <1>1, Zenon DEF DriverType
<1>3. \A o \in Ops : op'[o] = IF op[o].st = "queued" THEN [op[o] EXCEPT !.st = "closed"] ELSE op[o]
  BY Zenon DEF Retire
<1>4. \A o \in Ops : op[o].st \notin Settling \cup {"reserve", "wire"}
  BY Zenon, <1>1 DEF Tasks
<1>5. ASSUME NEW o \in Ops
      PROVE  /\ op'[o] \in OpType /\ op'[o].st # "queued"
             /\ op'[o].st \notin Settling \cup {"reserve", "wire"}
  <2>1. CASE op[o].st = "queued"
    BY <1>0, <1>3, <2>1, Zenon DEF OpType, OpStates, Answers, Settling
  <2>2. CASE op[o].st # "queued"
    BY <1>0, <1>3, <1>4, <2>2, Zenon
  <2> QED
    BY Zenon, <2>1, <2>2
<1>6. op' \in [Ops -> OpType]
  BY Zenon, <1>5 DEF Retire
<1>7. Tasks' = {} /\ Held' = {} /\ Held = {}
  BY Zenon, <1>4, <1>5 DEF Tasks, Held
<1>8. Rising'
  <2>1. \A o \in Ops : op'[o].st = "emit" => op[o].st = "emit" /\ op'[o].cum = op[o].cum
    BY Zenon, <1>5 DEF Settling
  <2> QED
    BY Zenon, <1>1, <2>1, RisingKept
<1>9. Serialised'
  BY Zenon, <1>5, <1>7 DEF Serialised, Settling, Settler
<1>10. queue' \in Seq(Ops) /\ Len(queue') = 0 /\ Queued'
  <2>1. queue' \in Seq(Ops) /\ Len(queue') = 0
    BY <1>1
  <2> QED
    BY <1>5, <2>1 DEF Queued
<1>11. Len(queue') <= Channel
  BY <1>10, SessionAssumption
<1> QED
  BY Zenon, <1>1, <1>2, <1>6, <1>7, <1>8, <1>9, <1>10, <1>11
  DEF IInv, Typed, ReserveIsOnWire, WithinThreshold, ChequeClearsDebt

\* The next session with the peer, maybe of the next process.
LEMMA ReopenStep == ASSUME IInv, NEW restart \in BOOLEAN, Reopen(restart) PROVE IInv'
<1>0. /\ op \in [Ops -> OpType] /\ driver \in DriverType
      /\ store \in [cum : 0..MaxCumulative, disk : 0..MaxCumulative, saved : BOOLEAN]
      /\ made \in [sessions : Nat, probes : Nat, excess : Nat]
  BY Zenon DEF IInv, Typed
<1>1. /\ acc' = [reserve |-> 0, balance |-> 0] /\ made' = [made EXCEPT !.sessions = @ + 1]
      /\ store' = IF restart THEN [store EXCEPT !.cum = store.disk] ELSE store
      /\ UNCHANGED <<queue, lock, cheques>>
  BY Zenon DEF Reopen
<1>2. PICK swap \in BOOLEAN : driver' = NewDriver(swap, 0)
  BY Zenon DEF Reopen
<1>3. driver' \in DriverType /\ driver'.on = TRUE
  BY Zenon, <1>2 DEF NewDriver, DriverType
<1>4. Tasks = {}
  <2>1. driver.on = FALSE
    BY Zenon, <1>0 DEF Reopen, DriverType
  <2> QED
    BY Zenon, <2>1 DEF IInv, Serialised
<1>5. \A o \in Ops : op'[o] = IF op[o].st \in Answers THEN NewOp ELSE op[o]
  BY Zenon DEF Reopen
<1>6. \A o \in Ops : op[o].st \notin Settling \cup {"reserve", "wire"}
  BY Zenon, <1>4 DEF Tasks
<1>7. ASSUME NEW o \in Ops
      PROVE  /\ op'[o] \in OpType /\ (op'[o].st = "queued" <=> op[o].st = "queued")
             /\ op'[o].st \notin Settling \cup {"reserve", "wire"}
  <2>1. CASE op[o].st \in Answers
    BY <1>0, <1>5, <2>1 DEF OpType, OpStates, Answers, Settling, NewOp
  <2>2. CASE op[o].st \notin Answers
    BY Zenon, <1>0, <1>5, <1>6, <2>2
  <2> QED
    BY Zenon, <2>1, <2>2
<1>8. op' \in [Ops -> OpType]
  BY Zenon, <1>7 DEF Reopen
<1>9. Tasks' = {} /\ Held' = {}
  BY Zenon, <1>7 DEF Tasks, Held
<1>10. ReserveIsOnWire' /\ WithinThreshold'
  BY <1>1, <1>9, SumEmpty, SessionAssumption DEF ReserveIsOnWire, WithinThreshold
<1>11. Serialised'
  BY Zenon, <1>7, <1>9 DEF Serialised, Settling, Settler
<1>12. Queued'
  BY Zenon, <1>1, <1>7 DEF IInv, Queued
<1>13. /\ store' \in [cum : 0..MaxCumulative, disk : 0..MaxCumulative, saved : BOOLEAN]
       /\ store'.saved = store.saved /\ store'.disk = store.disk
       /\ store'.cum = store.cum \/ store'.cum = store.disk
  BY Zenon, <1>0, <1>1
<1>14. Rising'
  <2>1. \A o \in Ops : op'[o].st # "emit"
    BY Zenon, <1>7 DEF Settling
  <2> QED
    BY Zenon, <1>1, <1>13, <2>1 DEF IInv, Rising, amount
<1>15. made' \in [sessions : Nat, probes : Nat, excess : Nat] /\ made'.excess = made.excess
  BY <1>0, <1>1
<1> QED
  BY Zenon, <1>1, <1>3, <1>8, <1>10, <1>11, <1>12, <1>13, <1>14, <1>15 DEF IInv, Typed, ChequeClearsDebt

-----------------------------------------------------------------------------
\* Initially nothing is submitted, owed or signed.
LEMMA InitInv == Init => IInv
<1> SUFFICES ASSUME Init PROVE IInv
  BY Zenon
<1>1. op = [o \in Ops |-> NewOp] /\ NewOp \in OpType /\ NewOp.st = "new"
  BY Zenon DEF Init, NewOp, OpType, OpStates
<1>2. /\ queue = <<>> /\ queue \in Seq(Ops) /\ Len(queue) = 0
      /\ cheques = <<>> /\ cheques \in Seq(Nat) /\ Len(cheques) = 0
  BY DEF Init
<1>3. driver \in DriverType /\ driver.on = TRUE
  BY SessionAssumption DEF Init, NewDriver, DriverType
<1>4. Typed
  BY <1>1, <1>2, <1>3, SessionAssumption DEF Init, Typed
<1>5. Held = {}
  BY Zenon, <1>1 DEF Held
<1>6. Queued /\ Serialised /\ Rising
  BY <1>1, <1>2, <1>3 DEF Init, Queued, Serialised, Rising, Settling, Settler
<1> QED
  BY <1>4, <1>5, <1>6, SumEmpty, SessionAssumption
  DEF Init, IInv, ReserveIsOnWire, WithinThreshold, ChequeClearsDebt

\* Every step keeps the invariant.
LEMMA StepInv == IInv /\ [Next]_vars => IInv'
<1> SUFFICES ASSUME IInv, [Next]_vars PROVE IInv'
  BY Zenon
<1>1. ASSUME NEW o \in Ops, Submit(o) \/ Task(o) PROVE IInv'
  BY Zenon, <1>1, SubmitStep, TaskStep
<1>2. CASE Driver \/ ConnectionClosed \/ StatusIn
  BY Zenon, <1>2, ReceiveStep, RetireStep, EventStep DEF Driver
<1>3. ASSUME NEW restart \in BOOLEAN, Reopen(restart) PROVE IInv'
  BY Zenon, <1>3, ReopenStep
<1>4. CASE UNCHANGED vars
  <2>1. driver' \in DriverType /\ made' \in [sessions : Nat, probes : Nat, excess : Nat]
    BY Zenon, <1>4 DEF IInv, Typed, vars
  <2> QED
    BY Zenon, <1>4, <2>1, DriverOnly DEF vars
<1> QED
  BY Zenon, <1>1, <1>2, <1>3, <1>4 DEF Next

\* The invariant holds throughout.
LEMMA InvHolds == Spec => []IInv
  BY InitInv, StepInv, PTL DEF Spec

\* The reservation of a session is exactly that of its pushes on the wire, and with
\* the debt it never passes the threshold, however pushes, settlements, failures and
\* new sessions interleave (AccountingState::try_reserve, SessionState::push).
THEOREM AccountingExact == Spec => []ThresholdKept
  BY InvHolds, IInvImplies, PTL

\* A cheque clears only debt that is still there, and the cheques to a peer increase
\* over failed deliveries, sessions and restarts, for any rates and prices
\* (SessionState::try_settle_once, try_emit_cheque).
THEOREM ChequesStaySound == Spec => []ChequesSound
  BY InvHolds, IInvImplies, PTL
=============================================================================
