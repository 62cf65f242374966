-------------------------- MODULE RelayPushProofs --------------------------
(***************************************************************************)
(* Proofs about RelayPush, for every number of connections, addresses and  *)
(* batches, all bodies and every cap: each address of a POST is answered   *)
(* and no frame twice, an ack from the cache stands for a push, and the    *)
(* shadow meter reports what the ledger bills.                             *)
(***************************************************************************)
EXTENDS RelayPush, SumsProofs

Stages == {"idle", "reading", "frames", "pool", "dialing", "pushing", "caching", "over"}

\* Functions with a domain within D.
Partial(D, S) == UNION {[E -> S] : E \in SUBSET D}

TallyType == [rows : Partial(OwnedBatches, [adm : Nat, ded : Nat]), order : Seq(OwnedBatches)]

TaskType ==
  [st : Stages, body : Seq(Frame), at : Nat, batch : OwnedBatches \cup {"none"},
   lines : [Addrs -> Nat], accepted : SUBSET Nat, left : SUBSET Nat,
   batch_of : [Addrs -> OwnedBatches \cup {"none"}], verdict : Partial(Addrs, BOOLEAN),
   uncached : SUBSET Addrs, deduped : SUBSET (Addrs \X OwnedBatches), bytes : Nat,
   tally : TallyType]

\* The frames of an address, and those among them that have their line.
Posted(x, a) == {i \in DOMAIN x.body : x.body[i].addr = a}
Answered(x, a) == {i \in 1..(x.at - 1) : i \notin x.left /\ x.body[i].addr = a}

\* Where the task is in its frames.
Placed(x) ==
  /\ x.at \in 1..(Len(x.body) + 1) /\ x.accepted \subseteq 1..(x.at - 1) /\ x.left \subseteq x.accepted
  /\ x.st \in {"pool", "dialing", "pushing", "caching", "over"} => x.at = Len(x.body) + 1
  /\ x.st \notin {"pushing", "caching", "over"} => DOMAIN x.verdict = {}
  /\ x.st # "caching" => x.uncached = {}

\* Each frame that is through has one line; what was not resolved has none yet.
Lined(x) ==
  \A a \in Addrs :
    IF x.st = "over"
    THEN x.lines[a] <= Cardinality(Posted(x, a)) /\ (Posted(x, a) # {} => x.lines[a] > 0)
    ELSE /\ x.lines[a] = Cardinality(Answered(x, a))
         /\ IF a \in DOMAIN x.verdict THEN Answered(x, a) # {} ELSE Entries(x, a) \subseteq x.left

\* An address is under one batch.
Batched(x) ==
  /\ x.body # <<>> => x.body \in Bodies /\ x.batch \in Challenges
  /\ \A i \in x.accepted : /\ x.body[i].batch \in OwnedBatches
                           /\ x.body[i].batch = x.batch_of[x.body[i].addr]
                           /\ x.batch \in {"none", x.body[i].batch}

\* What the task takes for pushed was pushed.
Acked(x, P) ==
  /\ \A a \in DOMAIN x.verdict : x.verdict[a] => <<a, x.batch_of[a]>> \in P /\ x.batch_of[a] \in OwnedBatches
  /\ \A a \in x.uncached : a \in DOMAIN x.verdict /\ x.verdict[a]
  /\ x.deduped \subseteq P

TallyOK(m) == Range(m.order) = DOMAIN m.rows /\ IsInjective(m.order)

Sound(x, P) == Placed(x) /\ Lined(x) /\ Batched(x) /\ Acked(x, P) /\ TallyOK(x.tally)

PTyped ==
  /\ clock \in 0..MaxClock /\ posts \in 0..MaxPosts
  /\ free \in Nat /\ looping \in BOOLEAN /\ open \subseteq Tasks /\ IsFiniteSet(open)
  /\ pool \in 0..PoolTarget
  /\ task \in [Tasks -> TaskType]

\* The caches: the acks are of pushes, and no order outgrows its cap.
RecentOK ==
  /\ recent.order \in Seq(Addrs \X OwnedBatches) /\ IsInjective(recent.order)
  /\ Len(recent.order) <= RecentCap
  /\ DOMAIN recent.seen = Range(recent.order) /\ DOMAIN recent.seen \subseteq pushed

MeterOK ==
  /\ meter.order \in Seq(OwnedBatches) /\ IsInjective(meter.order) /\ Len(meter.order) <= RowCap
  /\ DOMAIN meter.rows = Range(meter.order)

TasksSound == \A t \in Tasks : Sound(task[t], pushed)

PushInv == PTyped /\ RecentOK /\ MeterOK /\ TasksSound /\ PermitsConserved


-----------------------------------------------------------------------------
\* Sets of frames are finite.
LEMMA FramesFinite ==
  ASSUME NEW x \in TaskType, NEW a, Placed(x)
  PROVE  /\ IsFiniteSet(Posted(x, a)) /\ IsFiniteSet(Answered(x, a)) /\ IsFiniteSet(Entries(x, a))
         /\ Cardinality(Posted(x, a)) \in Nat /\ Cardinality(Answered(x, a)) \in Nat
         /\ Answered(x, a) \subseteq Posted(x, a)
         /\ Cardinality(Answered(x, a)) <= Cardinality(Posted(x, a))
<1>1. x.body \in Seq(Frame) /\ x.at \in Nat
  BY Zenon DEF TaskType
<1>2. /\ Posted(x, a) \subseteq 1..Len(x.body) /\ Answered(x, a) \subseteq Posted(x, a)
      /\ Entries(x, a) \subseteq 1..Len(x.body)
  BY <1>1 DEF Posted, Answered, Entries, Placed
<1>3. IsFiniteSet(1..Len(x.body))
  BY <1>1, FS_Interval
<1>4. IsFiniteSet(Posted(x, a)) /\ IsFiniteSet(Entries(x, a))
  BY Zenon, <1>2, <1>3, FS_Subset
<1>5. IsFiniteSet(Answered(x, a)) /\ Cardinality(Answered(x, a)) <= Cardinality(Posted(x, a))
  BY Zenon, <1>2, <1>4, FS_Subset
<1> QED
  BY Zenon, <1>2, <1>4, <1>5, FS_CardinalityType

\* A frame that gets its line at once: it is refused, or answered from the cache.
LEMMA LineSound ==
  ASSUME NEW x \in TaskType, NEW P, Sound(x, P), x.st = "frames", x.at <= Len(x.body),
         NEW q \in TaskType, q.st = x.st, q.body = x.body, q.at = x.at + 1, q.batch = x.batch,
         q.lines = [x.lines EXCEPT ![x.body[x.at].addr] = @ + 1], q.accepted = x.accepted,
         q.left = x.left, q.batch_of = x.batch_of, q.verdict = x.verdict,
         q.uncached = x.uncached, q.deduped \subseteq P, TallyOK(q.tally)
  PROVE  Sound(q, P)
<1>1. /\ x.body \in Seq(Frame) /\ x.at \in Nat /\ x.lines \in [Addrs -> Nat]
      /\ Placed(x) /\ Lined(x) /\ Batched(x) /\ Acked(x, P)
  BY Zenon DEF TaskType, Sound
<1>2. x.body[x.at] \in Frame /\ x.body[x.at].addr \in Addrs
  <2>1. x.body[x.at] \in Frame
    BY <1>1 DEF Placed
  <2> QED
    BY Zenon, <2>1 DEF Frame
<1>3. Placed(q)
  BY <1>1 DEF Placed
<1>4. Lined(q)
  <2> SUFFICES ASSUME NEW a \in Addrs
               PROVE  /\ q.lines[a] = Cardinality(Answered(q, a))
                      /\ IF a \in DOMAIN q.verdict THEN Answered(q, a) # {}
                         ELSE Entries(q, a) \subseteq q.left
    BY Zenon DEF Lined
  <2>1. /\ x.lines[a] = Cardinality(Answered(x, a))
        /\ IF a \in DOMAIN x.verdict THEN Answered(x, a) # {} ELSE Entries(x, a) \subseteq x.left
    BY Zenon, <1>1 DEF Lined
  <2>2. Entries(q, a) = Entries(x, a) /\ a \notin DOMAIN q.verdict
    BY Zenon, <1>1 DEF Entries, Placed
  <2>3. IsFiniteSet(Answered(x, a)) /\ Cardinality(Answered(x, a)) \in Nat
    BY Zenon, <1>1, FramesFinite
  <2>4. CASE a = x.body[x.at].addr
    <3>1. Answered(q, a) = Answered(x, a) \cup {x.at} /\ x.at \notin Answered(x, a)
      BY <1>1, <2>4 DEF Answered, Placed
    <3>2. q.lines[a] = x.lines[a] + 1
      BY Zenon, <1>1, <1>2, <2>4
    <3>3. Cardinality(Answered(x, a) \cup {x.at}) = Cardinality(Answered(x, a)) + 1
      BY Zenon, <2>3, <3>1, FS_AddElement
    <3> QED
      BY Zenon, <2>1, <2>2, <3>1, <3>2, <3>3
  <2>5. CASE a # x.body[x.at].addr
    <3>1. Answered(q, a) = Answered(x, a)
      BY <1>1, <2>5 DEF Answered, Placed
    <3>2. q.lines[a] = x.lines[a]
      BY Zenon, <1>1, <1>2, <2>5
    <3> QED
      BY Zenon, <2>1, <2>2, <3>1, <3>2
  <2> QED
    BY Zenon, <2>4, <2>5
<1>5. Batched(q)
  BY Zenon, <1>1 DEF Batched
<1>6. Acked(q, P)
  BY Zenon, <1>1 DEF Acked
<1> QED
  BY Zenon, <1>3, <1>4, <1>5, <1>6 DEF Sound

\* A frame that is accepted.  Its address is under no other batch: the relay
\* refuses the others of a POST with a challenge, and one without has none.
LEMMA AcceptSound ==
  ASSUME NEW x \in TaskType, NEW P, Sound(x, P), x.st = "frames", x.at <= Len(x.body),
         x.body[x.at].batch # "bad", x.batch \in {"none", x.body[x.at].batch},
         NEW q \in TaskType, q.st = x.st, q.body = x.body, q.at = x.at + 1, q.batch = x.batch,
         q.lines = x.lines, q.accepted = x.accepted \cup {x.at}, q.left = x.left \cup {x.at},
         q.batch_of = [x.batch_of EXCEPT ![x.body[x.at].addr] = x.body[x.at].batch],
         q.verdict = x.verdict, q.uncached = x.uncached, q.deduped = x.deduped, TallyOK(q.tally)
  PROVE  Sound(q, P)
<1> DEFINE f == x.body[x.at]
<1>1. /\ x.body \in Seq(Frame) /\ x.at \in Nat /\ x.batch_of \in [Addrs -> OwnedBatches \cup {"none"}]
      /\ Placed(x) /\ Lined(x) /\ Batched(x) /\ Acked(x, P)
  BY Zenon DEF TaskType, Sound
<1>2. x.at \in DOMAIN x.body /\ f \in Frame /\ x.body # <<>>
  BY <1>1 DEF Placed
<1>3. f.addr \in Addrs /\ f.batch \in OwnedBatches
  BY Zenon, <1>2 DEF Frame
<1>4. Placed(q)
  BY <1>1 DEF Placed
<1>5. Lined(q)
  <2> SUFFICES ASSUME NEW a \in Addrs
               PROVE  /\ q.lines[a] = Cardinality(Answered(q, a))
                      /\ IF a \in DOMAIN q.verdict THEN Answered(q, a) # {}
                         ELSE Entries(q, a) \subseteq q.left
    BY Zenon DEF Lined
  <2>1. /\ x.lines[a] = Cardinality(Answered(x, a))
        /\ IF a \in DOMAIN x.verdict THEN Answered(x, a) # {} ELSE Entries(x, a) \subseteq x.left
    BY Zenon, <1>1 DEF Lined
  <2>2. a \notin DOMAIN x.verdict
    BY Zenon, <1>1 DEF Placed
  <2>3. Answered(q, a) = Answered(x, a)
    BY <1>1 DEF Answered, Placed
  <2>4. Entries(q, a) \subseteq q.left
    BY Zenon, <2>1, <2>2 DEF Entries
  <2> QED
    BY Zenon, <2>1, <2>2, <2>3, <2>4
<1>6. Batched(q)
  <2>1. x.body \in Bodies /\ x.batch \in Challenges
    BY Zenon, <1>1, <1>2 DEF Batched
  <2>2. ASSUME NEW i \in x.accepted
        PROVE  /\ x.body[i].batch \in OwnedBatches
               /\ x.body[i].batch = q.batch_of[x.body[i].addr]
               /\ x.batch \in {"none", x.body[i].batch}
    <3>1. /\ x.body[i].batch \in OwnedBatches /\ x.body[i].batch = x.batch_of[x.body[i].addr]
          /\ x.batch \in {"none", x.body[i].batch}
      BY Zenon, <1>1 DEF Batched
    <3>2. i \in DOMAIN x.body
      BY <1>1 DEF Placed
    <3>3. x.body[i] \in Frame
      BY <1>1, <3>2
    <3>4. x.body[i].addr \in Addrs
      BY Zenon, <3>3 DEF Frame
    <3>5. CASE x.body[i].addr # f.addr
      BY Zenon, <1>1, <3>1, <3>4, <3>5
    <3>6. CASE x.body[i].addr = f.addr
      <4>1. "bad" \notin {x.body[i].batch, f.batch}
        BY Zenon, <1>3, <3>1, PushAssumption
      <4>2. ASSUME x.batch = "none" PROVE x.body[i].batch = f.batch
        <5>1. \A k, l \in DOMAIN x.body :
                /\ x.body[k].addr = x.body[l].addr
                /\ "bad" \notin {x.body[k].batch, x.body[l].batch}
                => x.body[k].batch = x.body[l].batch
          BY Zenon, <2>1, <4>2, PushAssumption
        <5> QED
          BY Zenon, <1>2, <3>2, <3>6, <4>1, <5>1
      <4>3. x.body[i].batch = f.batch
        BY Zenon, <3>1, <4>2
      <4>4. q.batch_of[f.addr] = f.batch
        BY Zenon, <1>1, <1>3
      <4> QED
        BY Zenon, <3>1, <3>6, <4>3, <4>4
    <3> QED
      BY Zenon, <3>5, <3>6
  <2>3. q.batch_of[f.addr] = f.batch
    BY Zenon, <1>1, <1>3
  <2> QED
    BY Zenon, <1>3, <2>1, <2>2, <2>3 DEF Batched
<1>7. Acked(q, P)
  <2>1. DOMAIN x.verdict = {} /\ x.uncached = {}
    BY Zenon, <1>1 DEF Placed
  <2> QED
    BY Zenon, <1>1, <2>1 DEF Acked
<1> QED
  BY Zenon, <1>4, <1>5, <1>6, <1>7 DEF Sound

\* A task that goes from stage to stage.
LEMMA StageSound ==
  ASSUME NEW x \in TaskType, NEW P, Sound(x, P), x.st # "over",
         NEW q \in TaskType, q.st # "over", q.body = x.body, q.at = x.at, q.batch = x.batch,
         q.lines = x.lines, q.accepted = x.accepted, q.left = x.left,
         q.batch_of = x.batch_of, q.verdict = x.verdict, q.deduped = x.deduped, q.tally = x.tally,
         Placed(q), \A a \in q.uncached : a \in DOMAIN x.verdict /\ x.verdict[a]
  PROVE  Sound(q, P)
<1>1. Lined(x) /\ Batched(x) /\ Acked(x, P) /\ TallyOK(x.tally)
  BY Zenon DEF Sound
<1>2. Lined(q)
  <2>1. \A a \in Addrs : Answered(q, a) = Answered(x, a) /\ Entries(q, a) = Entries(x, a)
    BY Zenon DEF Answered, Entries
  <2> QED
    BY Zenon, <1>1, <2>1 DEF Lined
<1>3. Batched(q)
  BY <1>1 DEF Batched
<1>4. Acked(q, P)
  BY Zenon, <1>1 DEF Acked
<1> QED
  BY Zenon, <1>1, <1>2, <1>3, <1>4 DEF Sound

\* The dispatcher resolves an entry.
Resolved(q, x, i, ok) ==
  /\ q.st = x.st /\ q.body = x.body /\ q.at = x.at /\ q.batch = x.batch
  /\ q.lines = [x.lines EXCEPT ![x.body[i].addr] = @ + 1] /\ q.accepted = x.accepted
  /\ q.left = x.left \ {i} /\ q.batch_of = x.batch_of /\ q.uncached = x.uncached
  /\ q.verdict = [a \in DOMAIN x.verdict \cup {x.body[i].addr} |->
                    IF a = x.body[i].addr THEN ok ELSE x.verdict[a]]
  /\ q.deduped = x.deduped /\ q.tally = x.tally

\* Resolving an entry that is left keeps the task sound: its frame gets the one
\* line it lacked, and a verdict of success is of a push that was made.
LEMMA ResolveSound ==
  ASSUME NEW x \in TaskType, NEW P, Sound(x, P), x.st = "pushing",
         NEW i \in x.left, NEW ok \in BOOLEAN, NEW Q, P \subseteq Q,
         ok => <<x.body[i].addr, x.body[i].batch>> \in Q,
         NEW q \in TaskType, Resolved(q, x, i, ok)
  PROVE  Sound(q, Q)
<1> USE DEF Resolved
<1> DEFINE f == x.body[i]
<1>1. /\ x.body \in Seq(Frame) /\ x.at \in Nat /\ x.lines \in [Addrs -> Nat]
      /\ Placed(x) /\ Lined(x) /\ Batched(x) /\ Acked(x, P) /\ TallyOK(x.tally)
  BY Zenon DEF TaskType, Sound
<1>2. i \in x.accepted /\ i \in 1..(x.at - 1)
  BY Zenon, <1>1 DEF Placed
<1>3. f \in Frame
  BY <1>1, <1>2 DEF Placed
<1>4. f.addr \in Addrs
  BY Zenon, <1>3 DEF Frame
<1>5. DOMAIN q.verdict = DOMAIN x.verdict \cup {f.addr}
  BY Zenon
<1>6. Placed(q)
  BY Zenon, <1>1 DEF Placed
<1>7. Lined(q)
  <2> SUFFICES ASSUME NEW a \in Addrs
               PROVE  /\ q.lines[a] = Cardinality(Answered(q, a))
                      /\ IF a \in DOMAIN q.verdict THEN Answered(q, a) # {}
                         ELSE Entries(q, a) \subseteq q.left
    BY Zenon DEF Lined
  <2>1. /\ x.lines[a] = Cardinality(Answered(x, a))
        /\ IF a \in DOMAIN x.verdict THEN Answered(x, a) # {} ELSE Entries(x, a) \subseteq x.left
    BY Zenon, <1>1 DEF Lined
  <2>2. IsFiniteSet(Answered(x, a))
    BY Zenon, <1>1, FramesFinite
  <2>3. CASE a = f.addr
    <3>1. Answered(q, a) = Answered(x, a) \cup {i} /\ i \notin Answered(x, a)
      BY <1>2, <2>3 DEF Answered
    <3>2. q.lines[a] = x.lines[a] + 1
      BY Zenon, <1>1, <1>4, <2>3
    <3>3. Cardinality(Answered(x, a) \cup {i}) = Cardinality(Answered(x, a)) + 1
      BY Zenon, <2>2, <3>1, FS_AddElement
    <3> QED
      BY Zenon, <1>5, <2>1, <2>3, <3>1, <3>2, <3>3
  <2>4. CASE a # f.addr
    <3>1. Answered(q, a) = Answered(x, a)
      BY Zenon, <2>4 DEF Answered
    <3>2. q.lines[a] = x.lines[a]
      BY Zenon, <1>1, <1>4, <2>4
    <3>3. Entries(q, a) = Entries(x, a) /\ i \notin Entries(x, a)
      BY Zenon, <2>4 DEF Entries
    <3> QED
      BY Zenon, <1>5, <2>1, <2>4, <3>1, <3>2, <3>3
  <2> QED
    BY Zenon, <2>3, <2>4
<1>8. Batched(q)
  BY Zenon, <1>1 DEF Batched
<1>9. Acked(q, Q)
  <2>1. ASSUME NEW a \in DOMAIN q.verdict, q.verdict[a]
        PROVE  <<a, q.batch_of[a]>> \in Q /\ q.batch_of[a] \in OwnedBatches
    <3>1. CASE a = f.addr
      <4>1. ok /\ f.batch \in OwnedBatches /\ f.batch = x.batch_of[a]
        BY Zenon, <1>1, <1>2, <2>1, <3>1 DEF Batched
      <4> QED
        BY Zenon, <3>1, <4>1
    <3>2. CASE a # f.addr
      BY Zenon, <1>1, <1>5, <2>1, <3>2 DEF Acked
    <3> QED
      BY Zenon, <3>1, <3>2
  <2>2. x.uncached = {}
    BY Zenon, <1>1 DEF Placed
  <2> QED
    BY Zenon, <1>1, <2>1, <2>2 DEF Acked
<1> QED
  BY Zenon, <1>1, <1>6, <1>7, <1>8, <1>9 DEF Sound

\* A task that ends: what has no verdict gets its lines now.
LEMMA OverSound ==
  ASSUME NEW x \in TaskType, NEW P, Sound(x, P), x.st # "over", x.at = Len(x.body) + 1,
         NEW q \in TaskType, q.st = "over", q.body = x.body, q.at = x.at, q.batch = x.batch,
         \A a \in Addrs : q.lines[a] = x.lines[a] + IF a \in DOMAIN x.verdict THEN 0
                                                    ELSE Cardinality(Entries(x, a)),
         q.accepted = x.accepted, q.left = x.left, q.batch_of = x.batch_of,
         q.verdict = x.verdict, q.uncached = {}, q.deduped = x.deduped, q.tally = x.tally
  PROVE  Sound(q, P)
<1>1. /\ x.body \in Seq(Frame) /\ x.at \in Nat
      /\ Placed(x) /\ Lined(x) /\ Batched(x) /\ Acked(x, P) /\ TallyOK(x.tally)
  BY Zenon DEF TaskType, Sound
<1>2. Placed(q)
  BY Zenon, <1>1 DEF Placed
<1>3. Lined(q)
  <2> SUFFICES ASSUME NEW a \in Addrs
               PROVE  q.lines[a] <= Cardinality(Posted(q, a)) /\ (Posted(q, a) # {} => q.lines[a] > 0)
    BY Zenon DEF Lined
  <2>1. /\ x.lines[a] = Cardinality(Answered(x, a))
        /\ IF a \in DOMAIN x.verdict THEN Answered(x, a) # {} ELSE Entries(x, a) \subseteq x.left
    BY Zenon, <1>1 DEF Lined
  <2>2. /\ IsFiniteSet(Posted(x, a)) /\ IsFiniteSet(Answered(x, a)) /\ IsFiniteSet(Entries(x, a))
        /\ Cardinality(Posted(x, a)) \in Nat /\ Cardinality(Answered(x, a)) \in Nat
        /\ Answered(x, a) \subseteq Posted(x, a)
        /\ Cardinality(Answered(x, a)) <= Cardinality(Posted(x, a))
    BY Zenon, <1>1, FramesFinite
  <2>3. Posted(q, a) = Posted(x, a)
    BY Zenon DEF Posted
  <2>4. \A S : IsFiniteSet(S) => (Cardinality(S) = 0 <=> S = {})
    BY Zenon, FS_EmptySet
  <2>5. CASE a \in DOMAIN x.verdict
    <3>1. Cardinality(Answered(x, a)) # 0
      BY Zenon, <2>1, <2>2, <2>4, <2>5
    <3>2. q.lines[a] = Cardinality(Answered(x, a)) + 0
      BY Zenon, <2>1, <2>5
    <3> QED
      BY <2>2, <2>3, <3>1, <3>2
  <2>6. CASE a \notin DOMAIN x.verdict
    <3>1. Answered(x, a) \cup Entries(x, a) = Posted(x, a) /\ Answered(x, a) \cap Entries(x, a) = {}
      BY <1>1, <2>1, <2>6 DEF Answered, Entries, Posted, Placed
    <3>2. Cardinality(Answered(x, a) \cup Entries(x, a))
            = Cardinality(Answered(x, a)) + Cardinality(Entries(x, a))
              - Cardinality(Answered(x, a) \cap Entries(x, a))
      BY Zenon, <2>2, FS_Union
    <3>3. Cardinality(Answered(x, a) \cap Entries(x, a)) = 0 /\ Cardinality(Entries(x, a)) \in Nat
      BY Zenon, <2>2, <3>1, FS_EmptySet, FS_CardinalityType
    <3>4. q.lines[a] = Cardinality(Answered(x, a)) + Cardinality(Entries(x, a))
      BY Zenon, <2>1, <2>6
    <3>5. Posted(x, a) # {} => Cardinality(Posted(x, a)) # 0
      BY Zenon, <2>2, <2>4
    <3>6. Cardinality(Posted(x, a)) = Cardinality(Answered(x, a)) + Cardinality(Entries(x, a)) - 0
      BY Zenon, <3>1, <3>2, <3>3
    <3> QED
      BY <2>2, <2>3, <3>3, <3>4, <3>5, <3>6
  <2> QED
    BY Zenon, <2>5, <2>6
<1>4. Batched(q)
  BY Zenon, <1>1 DEF Batched
<1>5. Acked(q, P)
  BY Zenon, <1>1 DEF Acked
<1> QED
  BY Zenon, <1>1, <1>2, <1>3, <1>4, <1>5 DEF Sound

-----------------------------------------------------------------------------
\* Queues without repetition: one more member at the end, one queue after
\* another, and the oldest members gone.
LEMMA QueueAppend ==
  ASSUME NEW T, NEW s \in Seq(T), IsInjective(s), NEW e \in T, e \notin Range(s)
  PROVE  /\ Append(s, e) \in Seq(T) /\ IsInjective(Append(s, e))
         /\ Range(Append(s, e)) = Range(s) \cup {e}
<1> DEFINE u == Append(s, e)
<1>1. u \in Seq(T) /\ Len(u) = Len(s) + 1 /\ DOMAIN u = 1..(Len(s) + 1) /\ DOMAIN s = 1..Len(s)
  OBVIOUS
<1>2. \A i \in 1..(Len(s) + 1) : u[i] = IF i <= Len(s) THEN s[i] ELSE e
  OBVIOUS
<1> HIDE DEF u
<1>3. \A i \in 1..Len(s) : s[i] # e
  BY Zenon, <1>1 DEF Range
<1>4. IsInjective(u)
  BY <1>1, <1>2, <1>3 DEF IsInjective
<1>5. Range(u) = Range(s) \cup {e}
  BY <1>1, <1>2 DEF Range
<1> QED
  BY Zenon, <1>1, <1>4, <1>5 DEF u

\* Two orders without repetition and with nothing in common, one after the other.
LEMMA QueueConcat ==
  ASSUME NEW T, NEW s \in Seq(T), IsInjective(s), NEW u \in Seq(T), IsInjective(u),
         Range(s) \cap Range(u) = {}
  PROVE  /\ s \o u \in Seq(T) /\ IsInjective(s \o u)
         /\ Range(s \o u) = Range(s) \cup Range(u)
<1> DEFINE v == s \o u
<1>1. /\ v \in Seq(T) /\ DOMAIN v = 1..(Len(s) + Len(u)) /\ DOMAIN s = 1..Len(s)
      /\ DOMAIN u = 1..Len(u) /\ Len(s) \in Nat /\ Len(u) \in Nat
  OBVIOUS
<1>2. \A i \in 1..(Len(s) + Len(u)) : v[i] = IF i <= Len(s) THEN s[i] ELSE u[i - Len(s)]
  OBVIOUS
<1> HIDE DEF v
<1>3. \A i \in 1..Len(s), j \in 1..Len(u) : s[i] # u[j]
  BY Zenon, <1>1 DEF Range
<1>4. IsInjective(v)
  <2> SUFFICES ASSUME NEW i \in DOMAIN v, NEW j \in DOMAIN v, v[i] = v[j] PROVE i = j
    BY Zenon DEF IsInjective
  <2>1. /\ i \in Int
        /\ i <= Len(s) => i \in 1..Len(s) /\ v[i] = s[i]
        /\ ~(i <= Len(s)) => i - Len(s) \in 1..Len(u) /\ v[i] = u[i - Len(s)]
    BY <1>1, <1>2
  <2>2. /\ j \in Int
        /\ j <= Len(s) => j \in 1..Len(s) /\ v[j] = s[j]
        /\ ~(j <= Len(s)) => j - Len(s) \in 1..Len(u) /\ v[j] = u[j - Len(s)]
    BY <1>1, <1>2
  <2>3. CASE i <= Len(s) /\ j <= Len(s)
    BY Zenon, <1>1, <2>1, <2>2, <2>3 DEF IsInjective
  <2>4. CASE ~(i <= Len(s)) /\ ~(j <= Len(s))
    <3>1. i - Len(s) = j - Len(s)
      BY Zenon, <1>1, <2>1, <2>2, <2>4 DEF IsInjective
    <3> QED
      BY <1>1, <2>1, <2>2, <3>1
  <2>5. CASE i <= Len(s) /\ ~(j <= Len(s))
    BY Zenon, <1>3, <2>1, <2>2, <2>5
  <2>6. CASE ~(i <= Len(s)) /\ j <= Len(s)
    BY Zenon, <1>3, <2>1, <2>2, <2>6
  <2> QED
    BY Zenon, <2>3, <2>4, <2>5, <2>6
<1>5. Range(v) = Range(s) \cup Range(u)
  <2>1. ASSUME NEW i \in DOMAIN v PROVE v[i] \in Range(s) \cup Range(u)
    <3>1. \/ i \in DOMAIN s /\ v[i] = s[i]
          \/ i - Len(s) \in DOMAIN u /\ v[i] = u[i - Len(s)]
      BY <1>1, <1>2
    <3> QED
      BY Zenon, <3>1 DEF Range
  <2>2. ASSUME NEW i \in 1..Len(s) PROVE s[i] \in Range(v)
    <3>1. i \in DOMAIN v /\ v[i] = s[i]
      BY <1>1, <1>2
    <3> QED
      BY Zenon, <3>1 DEF Range
  <2>3. ASSUME NEW i \in 1..Len(u) PROVE u[i] \in Range(v)
    <3>1. i + Len(s) \in DOMAIN v /\ v[i + Len(s)] = u[i]
      BY <1>1, <1>2
    <3> QED
      BY Zenon, <3>1 DEF Range
  <2> QED
    BY Zenon, <1>1, <2>1, <2>2, <2>3 DEF Range
<1> QED
  BY Zenon, <1>1, <1>4, <1>5 DEF v

\* An order cut to its cap from the front: what stays and what leaves.
LEMMA QueueTrim ==
  ASSUME NEW T, NEW s \in Seq(T), IsInjective(s), NEW cap \in Nat, NEW n, n = Over(Len(s), cap)
  PROVE  LET k == SubSeq(s, n + 1, Len(s))
         IN  /\ k \in Seq(T) /\ IsInjective(k) /\ Len(k) <= cap /\ Range(k) \subseteq Range(s)
             /\ Range(k) = Range(s) \ Range(SubSeq(s, 1, n))
             /\ Range(SubSeq(s, 1, n)) \subseteq Range(s)
<1> DEFINE k == SubSeq(s, n + 1, Len(s))
           o == SubSeq(s, 1, n)
<1>1. n \in 0..Len(s) /\ Len(s) \in Nat /\ Len(s) - n <= cap
  BY DEF Over
<1>2. /\ k \in Seq(T) /\ Len(k) = Len(s) - n /\ DOMAIN k = 1..(Len(s) - n)
      /\ \A i \in 1..(Len(s) - n) : k[i] = s[i + n]
  BY <1>1
<1>3. DOMAIN o = 1..n /\ \A i \in 1..n : o[i] = s[i]
  BY <1>1
<1>4. DOMAIN s = 1..Len(s)
  OBVIOUS
<1> HIDE DEF k, o
<1>5. IsInjective(k)
  <2> SUFFICES ASSUME NEW i \in DOMAIN k, NEW j \in DOMAIN k, k[i] = k[j] PROVE i = j
    BY Zenon DEF IsInjective
  <2>0. ASSUME NEW m \in 1..(Len(s) - n) PROVE m + n \in 1..Len(s)
    BY <1>1
  <2>1. i + n \in DOMAIN s /\ j + n \in DOMAIN s /\ s[i + n] = s[j + n]
    BY Zenon, <1>2, <1>4, <2>0
  <2>2. i + n = j + n
    BY Zenon, <2>1 DEF IsInjective
  <2> QED
    BY <1>1, <1>2, <2>2
<1>6. Range(o) \subseteq Range(s)
  BY <1>1, <1>3, <1>4 DEF Range
<1>7. Range(k) \subseteq Range(s) \ Range(o)
  <2> SUFFICES ASSUME NEW i \in DOMAIN k PROVE k[i] \in Range(s) /\ k[i] \notin Range(o)
    BY Zenon DEF Range
  <2>1. i + n \in DOMAIN s /\ k[i] = s[i + n] /\ i + n \notin 1..n
    BY <1>1, <1>2, <1>4
  <2>2. ASSUME NEW j \in 1..n PROVE o[j] # k[i]
    <3>1. j \in DOMAIN s /\ o[j] = s[j] /\ j # i + n
      BY <1>1, <1>3, <1>4, <2>1
    <3> QED
      BY Zenon, <2>1, <3>1 DEF IsInjective
  <2> QED
    BY Zenon, <1>3, <2>1, <2>2 DEF Range
<1>8. Range(s) \ Range(o) \subseteq Range(k)
  <2> SUFFICES ASSUME NEW i \in DOMAIN s, s[i] \notin Range(o) PROVE s[i] \in Range(k)
    BY Zenon DEF Range
  <2>1. i \notin 1..n
    BY Zenon, <1>3 DEF Range
  <2>2. i - n \in DOMAIN k /\ k[i - n] = s[i]
    BY <1>1, <1>2, <1>4, <2>1
  <2> QED
    BY Zenon, <2>2 DEF Range
<1>9. Len(k) <= cap
  BY Zenon, <1>1, <1>2
<1> QED
  BY Zenon, <1>2, <1>5, <1>6, <1>7, <1>8, <1>9 DEF k, o

-----------------------------------------------------------------------------
\* Functions on part of a set.
LEMMA PartialFunction ==
  ASSUME NEW D, NEW S, NEW f
  PROVE  f \in Partial(D, S) <=> DOMAIN f \in SUBSET D /\ f \in [DOMAIN f -> S]
BY Zenon DEF Partial

\* A tally with one frame more.
LEMMA TalliedOK ==
  ASSUME NEW m \in TallyType, TallyOK(m), NEW b \in OwnedBatches, NEW adm \in Nat, NEW ded \in Nat
  PROVE  LET n == Tallied(m, b, adm, ded)
             old == IF b \in DOMAIN m.rows THEN m.rows[b] ELSE Row(0, 0)
         IN  /\ n \in TallyType /\ TallyOK(n)
             /\ DOMAIN n.rows = DOMAIN m.rows \cup {b}
             /\ n.rows[b] = Row(old.adm + adm, old.ded + ded)
             /\ \A x \in DOMAIN m.rows \ {b} : n.rows[x] = m.rows[x]
<1> DEFINE old == IF b \in DOMAIN m.rows THEN m.rows[b] ELSE Row(0, 0)
           new == Row(old.adm + adm, old.ded + ded)
           rows == [x \in DOMAIN m.rows \cup {b} |-> IF x = b THEN new ELSE m.rows[x]]
           order == IF b \in DOMAIN m.rows THEN m.order ELSE Append(m.order, b)
           n == [rows |-> rows, order |-> order]
<1>1. /\ m.order \in Seq(OwnedBatches) /\ m.rows \in Partial(OwnedBatches, [adm : Nat, ded : Nat])
      /\ Range(m.order) = DOMAIN m.rows /\ IsInjective(m.order)
  BY Zenon DEF TallyType, TallyOK
<1>2. DOMAIN m.rows \subseteq OwnedBatches /\ m.rows \in [DOMAIN m.rows -> [adm : Nat, ded : Nat]]
  BY Zenon, <1>1, PartialFunction
<1>3. old.adm \in Nat /\ old.ded \in Nat
  BY Zenon, <1>2 DEF Row
<1> HIDE DEF old
<1>4. new \in [adm : Nat, ded : Nat]
  BY <1>3 DEF Row
<1> HIDE DEF new
<1>5. rows \in [DOMAIN m.rows \cup {b} -> [adm : Nat, ded : Nat]] /\ DOMAIN rows = DOMAIN m.rows \cup {b}
  BY Zenon, <1>2, <1>4
<1>6. rows[b] = new /\ \A x \in DOMAIN m.rows \ {b} : rows[x] = m.rows[x]
  BY Zenon
<1> HIDE DEF rows
<1>7. rows \in Partial(OwnedBatches, [adm : Nat, ded : Nat])
  BY Zenon, <1>2, <1>5, PartialFunction
<1>8. order \in Seq(OwnedBatches) /\ IsInjective(order) /\ Range(order) = DOMAIN m.rows \cup {b}
  <2>1. CASE b \in DOMAIN m.rows
    BY Zenon, <1>1, <2>1
  <2>2. CASE b \notin DOMAIN m.rows
    <3>1. order = Append(m.order, b)
      BY Zenon, <2>2
    <3>2. b \notin Range(m.order)
      BY Zenon, <1>1, <2>2
    <3>3. /\ Append(m.order, b) \in Seq(OwnedBatches) /\ IsInjective(Append(m.order, b))
          /\ Range(Append(m.order, b)) = Range(m.order) \cup {b}
      <4> HIDE DEF order
      <4> QED
        BY SMTT(30), <1>1, <3>2, QueueAppend
    <3> QED
      BY Zenon, <1>1, <3>1, <3>3
  <2> QED
    BY Zenon, <2>1, <2>2
<1> HIDE DEF order
<1>9. n \in TallyType /\ n.rows = rows /\ n.order = order
  BY Zenon, <1>7, <1>8 DEF TallyType
<1>10. Tallied(m, b, adm, ded) = n
  BY Zenon DEF Tallied, n, rows, order, new, old
<1> HIDE DEF n
<1> QED
  BY Zenon, <1>5, <1>6, <1>8, <1>9, <1>10 DEF TallyOK, new, old

\* A frame is refused, answered from the cache of acks, or accepted.
LEMMA FramedSound ==
  ASSUME PushInv, NEW t \in Tasks, DoFrame(t)
  PROVE  Framed(t) \in TaskType /\ Sound(Framed(t), pushed)
<1> DEFINE x == task[t]
           f == x.body[x.at]
           line == [x.lines EXCEPT ![f.addr] = @ + 1]
<1>1. x \in TaskType /\ Sound(x, pushed) /\ x.st = "frames" /\ x.at <= Len(x.body)
  BY Zenon DEF PushInv, PTyped, TasksSound, DoFrame
<1>2. /\ x.body \in Seq(Frame) /\ x.at \in Nat /\ x.lines \in [Addrs -> Nat] /\ x.tally \in TallyType
      /\ x.accepted \in SUBSET Nat /\ x.left \in SUBSET Nat /\ x.bytes \in Nat
      /\ x.batch_of \in [Addrs -> OwnedBatches \cup {"none"}]
      /\ x.deduped \in SUBSET (Addrs \X OwnedBatches) /\ x.batch \in OwnedBatches \cup {"none"}
  BY Zenon, <1>1 DEF TaskType
<1>3. Placed(x) /\ TallyOK(x.tally) /\ x.deduped \subseteq pushed
  BY Zenon, <1>1 DEF Sound, Acked
<1>4. f \in Frame /\ x.at + 1 \in Nat
  BY <1>1, <1>2, <1>3 DEF Placed
<1>5. f.addr \in Addrs /\ f.batch \in OwnedBatches \cup {"bad"}
  BY Zenon, <1>4 DEF Frame
<1>6. Size[f.addr] \in Nat
  BY Zenon, <1>5, PushAssumption
<1>7. line \in [Addrs -> Nat]
  <2>1. \A k \in Nat : k + 1 \in Nat
    OBVIOUS
  <2> QED
    BY Zenon, <1>2, <1>5, <2>1
<1>8. CASE Refused(t, f)
  <2> DEFINE q == [x EXCEPT !.at = x.at + 1, !.lines = line]
  <2>1. Framed(t) = q
    BY Zenon, <1>8 DEF Framed
  <2>2. q \in TaskType
    BY Zenon, <1>1, <1>4, <1>7 DEF TaskType
  <2>3. /\ q.st = x.st /\ q.body = x.body /\ q.at = x.at + 1 /\ q.batch = x.batch
        /\ q.lines = line /\ q.accepted = x.accepted /\ q.left = x.left
        /\ q.batch_of = x.batch_of /\ q.verdict = x.verdict /\ q.uncached = x.uncached
        /\ q.deduped = x.deduped /\ q.tally = x.tally
    BY Zenon, <1>1 DEF TaskType
  <2> HIDE DEF q
  <2>4. Sound(q, pushed)
    BY Zenon, <1>1, <1>3, <2>2, <2>3, LineSound
  <2> QED
    BY Zenon, <2>1, <2>2, <2>4
<1>9. CASE ~Refused(t, f) /\ contains(f.addr, f.batch)
  <2> DEFINE d == x.deduped \cup {<<f.addr, f.batch>>}
             m == TallyDedup(x.tally, f.batch, Size[f.addr])
             q == [x EXCEPT !.at = x.at + 1, !.lines = line, !.deduped = d, !.tally = m]
  <2>1. Framed(t) = q
    BY Zenon, <1>9 DEF Framed
  <2>2. f.batch \in OwnedBatches
    BY Zenon, <1>5, <1>9 DEF Refused
  <2>3. d \in SUBSET (Addrs \X OwnedBatches) /\ d \subseteq pushed
    <3>1. <<f.addr, f.batch>> \in Addrs \X OwnedBatches
      BY Zenon, <1>5, <2>2
    <3>2. <<f.addr, f.batch>> \in DOMAIN recent.seen
      BY Zenon, <1>9 DEF contains
    <3>3. <<f.addr, f.batch>> \in pushed
      BY Zenon, <3>2 DEF PushInv, RecentOK
    <3> HIDE DEF f
    <3> QED
      BY Zenon, <1>2, <1>3, <3>1, <3>3
  <2>4. m \in TallyType /\ TallyOK(m)
    BY Zenon, <1>2, <1>3, <1>6, <2>2, TalliedOK DEF TallyDedup
  <2> HIDE DEF d, m
  <2>5. q \in TaskType
    BY Zenon, <1>1, <1>4, <1>7, <2>3, <2>4 DEF TaskType
  <2>6. /\ q.st = x.st /\ q.body = x.body /\ q.at = x.at + 1 /\ q.batch = x.batch
        /\ q.lines = line /\ q.accepted = x.accepted /\ q.left = x.left
        /\ q.batch_of = x.batch_of /\ q.verdict = x.verdict /\ q.uncached = x.uncached
        /\ q.deduped = d /\ q.tally = m
    BY Zenon, <1>1 DEF TaskType
  <2> HIDE DEF q
  <2>7. Sound(q, pushed)
    BY Zenon, <1>1, <2>3, <2>4, <2>5, <2>6, LineSound
  <2> QED
    BY Zenon, <2>1, <2>5, <2>7
<1>10. CASE ~Refused(t, f) /\ ~contains(f.addr, f.batch)
  <2> DEFINE m == Tallied(x.tally, f.batch, Size[f.addr], 0)
             bo == [x.batch_of EXCEPT ![f.addr] = f.batch]
             q == [x EXCEPT !.at = x.at + 1, !.accepted = x.accepted \cup {x.at},
                            !.left = x.left \cup {x.at}, !.batch_of = bo,
                            !.bytes = x.bytes + Size[f.addr], !.tally = m]
  <2>1. Framed(t) = q
    BY Zenon, <1>10 DEF Framed
  <2>2. f.batch \in OwnedBatches /\ f.batch # "bad" /\ x.batch \in {"none", f.batch}
    BY Zenon, <1>5, <1>10 DEF Refused
  <2>3. bo \in [Addrs -> OwnedBatches \cup {"none"}]
    BY Zenon, <1>2, <2>2
  <2>4. m \in TallyType /\ TallyOK(m)
    BY Zenon, <1>2, <1>3, <1>6, <2>2, TalliedOK
  <2>5. x.bytes + Size[f.addr] \in Nat
    BY <1>2, <1>6
  <2> HIDE DEF m, bo
  <2>6. q \in TaskType
    BY Zenon, <1>1, <1>2, <1>4, <2>3, <2>4, <2>5 DEF TaskType
  <2>7. /\ q.st = x.st /\ q.body = x.body /\ q.at = x.at + 1 /\ q.batch = x.batch
        /\ q.lines = x.lines /\ q.accepted = x.accepted \cup {x.at} /\ q.left = x.left \cup {x.at}
        /\ q.batch_of = bo /\ q.verdict = x.verdict /\ q.uncached = x.uncached
        /\ q.deduped = x.deduped /\ q.tally = m
    BY Zenon, <1>1 DEF TaskType
  <2> HIDE DEF q
  <2>8. Sound(q, pushed)
    BY Zenon, <1>1, <2>2, <2>4, <2>6, <2>7, AcceptSound DEF bo
  <2> QED
    BY Zenon, <2>1, <2>6, <2>8
<1> QED
  BY Zenon, <1>8, <1>9, <1>10

-----------------------------------------------------------------------------
\* One task moves; the others stay sound, since pushes are never undone.
LEMMA TaskMoves ==
  ASSUME PTyped, TasksSound, NEW t \in Tasks, NEW P, pushed \subseteq P,
         NEW q \in TaskType, Sound(q, P)
  PROVE  /\ [task EXCEPT ![t] = q] \in [Tasks -> TaskType]
         /\ \A u \in Tasks : Sound([task EXCEPT ![t] = q][u], P)
<1>1. task \in [Tasks -> TaskType]
  BY Zenon DEF PTyped
<1>2. [task EXCEPT ![t] = q] \in [Tasks -> TaskType]
  BY Zenon, <1>1
<1>3. ASSUME NEW u \in Tasks PROVE Sound([task EXCEPT ![t] = q][u], P)
  <2>1. CASE u = t
    <3>1. [task EXCEPT ![t] = q][u] = q
      BY Zenon, <1>1, <2>1
    <3> QED
      BY Zenon, <3>1
  <2>2. CASE u # t
    <3>1. [task EXCEPT ![t] = q][u] = task[u]
      BY Zenon, <1>1, <2>2
    <3>2. Sound(task[u], P)
      BY Zenon DEF TasksSound, Sound, Acked
    <3> QED
      BY Zenon, <3>1, <3>2
  <2> QED
    BY Zenon, <2>1, <2>2
<1> QED
  BY Zenon, <1>2, <1>3

\* A task that has done nothing yet.
LEMMA PostedSound ==
  ASSUME NEW P, NEW body, NEW batch, NEW st \in {"idle", "reading"},
         \/ body = <<>> /\ batch = "none"
         \/ body \in Bodies /\ batch \in Challenges
  PROVE  LET q == NewTask(st, body, batch)
         IN  q \in TaskType /\ Sound(q, P)
<1> DEFINE zero == [a \in Addrs |-> 0]
           none == [a \in Addrs |-> "none"]
           quiet == [a \in {} |-> TRUE]
           q == NewTask(st, body, batch)
           r == [st |-> st, body |-> body, at |-> 1, batch |-> batch,
                 lines |-> zero, accepted |-> {}, left |-> {},
                 batch_of |-> none, verdict |-> quiet,
                 uncached |-> {}, deduped |-> {}, bytes |-> 0, tally |-> NoTally]
<1>1. q = r
  BY Zenon DEF NewTask
<1>2. body \in Seq(Frame) /\ batch \in OwnedBatches \cup {"none"}
  <2>1. <<>> \in Seq(Frame)
    OBVIOUS
  <2> QED
    BY Zenon, <2>1, PushAssumption DEF Frame
<1>3. NoTally \in TallyType /\ TallyOK(NoTally) /\ NoTally.order = <<>> /\ DOMAIN NoTally.rows = {}
  <2> DEFINE n == [b \in {} |-> 0]
  <2>1. n \in [DOMAIN n -> [adm : Nat, ded : Nat]] /\ DOMAIN n = {}
    BY Zenon
  <2>2. n \in Partial(OwnedBatches, [adm : Nat, ded : Nat])
    BY Zenon, <2>1, PartialFunction
  <2>3. <<>> \in Seq(OwnedBatches) /\ Range(<<>>) = {} /\ IsInjective(<<>>)
    BY DEF Range, IsInjective
  <2>4. NoTally.rows = n /\ NoTally.order = <<>> /\ NoTally = [rows |-> n, order |-> <<>>]
    BY Zenon DEF NoTally
  <2> HIDE DEF n
  <2> QED
    BY Zenon, <2>1, <2>2, <2>3, <2>4 DEF TallyType, TallyOK
<1>4. zero \in [Addrs -> Nat] /\ none \in [Addrs -> OwnedBatches \cup {"none"}]
      /\ \A a \in Addrs : zero[a] = 0
  BY Zenon
<1>5. quiet \in Partial(Addrs, BOOLEAN) /\ DOMAIN quiet = {}
  <2>1. quiet \in [DOMAIN quiet -> BOOLEAN] /\ DOMAIN quiet = {}
    BY Zenon
  <2> HIDE DEF quiet
  <2> QED
    BY Zenon, <2>1, PartialFunction
<1>6. 0 \in Nat /\ 1 \in Nat
  BY Zenon
<1> HIDE DEF zero, none, quiet
<1>7. r \in TaskType
  BY Zenon, <1>2, <1>3, <1>4, <1>5, <1>6 DEF TaskType, Stages
<1>8. /\ r.st = st /\ r.body = body /\ r.at = 1 /\ r.batch = batch /\ r.lines = zero
      /\ r.accepted = {} /\ r.left = {} /\ r.verdict = quiet /\ r.uncached = {}
      /\ r.deduped = {} /\ r.tally = NoTally
  BY Zenon
<1> HIDE DEF r
<1>9. Placed(r)
  BY <1>2, <1>5, <1>8 DEF Placed
<1>10. Lined(r)
  <2> SUFFICES ASSUME NEW a \in Addrs
               PROVE  /\ r.lines[a] = Cardinality(Answered(r, a))
                      /\ a \notin DOMAIN r.verdict /\ Entries(r, a) \subseteq r.left
    BY Zenon, <1>8 DEF Lined
  <2>1. Answered(r, a) = {}
    BY <1>8 DEF Answered
  <2>2. Entries(r, a) = {}
    BY Zenon, <1>8 DEF Entries
  <2>3. Cardinality({}) = 0
    BY Zenon, FS_EmptySet
  <2> QED
    BY Zenon, <1>4, <1>5, <1>8, <2>1, <2>2, <2>3
<1>11. Batched(r)
  BY Zenon, <1>8 DEF Batched
<1>12. Acked(r, P)
  BY Zenon, <1>5, <1>8 DEF Acked
<1> HIDE DEF q
<1> QED
  BY Zenon, <1>1, <1>3, <1>7, <1>8, <1>9, <1>10, <1>11, <1>12 DEF Sound, q

\* The cache of acks remembers one more.
LEMMA RememberOK ==
  ASSUME RecentOK, NEW k \in Addrs \X OwnedBatches, k \in pushed, recent' = Remember(k),
         UNCHANGED pushed
  PROVE  RecentOK'
<1> DEFINE T == Addrs \X OwnedBatches
           order == IF k \in DOMAIN recent.seen THEN recent.order ELSE Append(recent.order, k)
           n == Over(Len(order), RecentCap)
           kept == SubSeq(order, n + 1, Len(order))
           seen == [x \in Range(kept) |-> IF x = k THEN clock ELSE recent.seen[x]]
<1>1. /\ recent.order \in Seq(T) /\ IsInjective(recent.order)
      /\ DOMAIN recent.seen = Range(recent.order) /\ DOMAIN recent.seen \subseteq pushed
  BY Zenon DEF RecentOK
<1> k \in T
  BY Zenon
<1> HIDE DEF T
<1>2. /\ order \in Seq(T) /\ IsInjective(order)
      /\ Range(order) \subseteq pushed
  <2>1. CASE k \in DOMAIN recent.seen
    BY Zenon, <1>1, <2>1
  <2>2. CASE k \notin DOMAIN recent.seen
    <3>1. order = Append(recent.order, k)
      BY Zenon, <2>2
    <3>2. k \notin Range(recent.order)
      BY Zenon, <1>1, <2>2
    <3>3. /\ Append(recent.order, k) \in Seq(T)
          /\ IsInjective(Append(recent.order, k))
          /\ Range(Append(recent.order, k)) = Range(recent.order) \cup {k}
      <4>1. k \in T /\ recent.order \in Seq(T) /\ IsInjective(recent.order)
        BY Zenon, <1>1
      <4> HIDE DEF order
      <4> QED
        BY SMTT(30), <3>2, <4>1, QueueAppend
    <3> QED
      BY Zenon, <1>1, <3>1, <3>3
  <2> QED
    BY Zenon, <2>1, <2>2
<1> HIDE DEF order
<1>3. RecentCap \in Nat
  BY Zenon, PushAssumption
<1>4. /\ kept \in Seq(T) /\ IsInjective(kept) /\ Len(kept) <= RecentCap
      /\ Range(kept) \subseteq Range(order)
  <2> HIDE DEF n
  <2> QED
    BY Zenon, <1>2, <1>3, QueueTrim DEF n
<1> HIDE DEF kept, n
<1>5. DOMAIN seen = Range(kept)
  BY Zenon
<1>6. recent' = [seen |-> seen, order |-> kept]
  BY Zenon DEF Remember, order, kept, n
<1> HIDE DEF seen
<1>7. recent'.seen = seen /\ recent'.order = kept
  BY <1>6
<1> QED
  BY Zenon, <1>2, <1>4, <1>5, <1>7 DEF RecentOK, T

\* The rows of a tally that are new to the meter, each once.
LEMMA FreshRows ==
  ASSUME NEW m \in TallyType, TallyOK(m), NEW fresh \in Fresh(m)
  PROVE  /\ fresh \in Seq(OwnedBatches) /\ IsInjective(fresh)
         /\ Range(fresh) = DOMAIN m.rows \ DOMAIN meter.rows
<1> DEFINE new == {i \in DOMAIN m.order : m.order[i] \notin DOMAIN meter.rows}
           n == Cardinality(new)
<1>1. /\ m.order \in Seq(OwnedBatches) /\ Range(m.order) = DOMAIN m.rows /\ IsInjective(m.order)
  BY Zenon DEF TallyType, TallyOK
<1>2. DOMAIN m.order = 1..Len(m.order) /\ Len(m.order) \in Nat
  BY <1>1
<1>3. IsFiniteSet(new) /\ n \in Nat /\ new \subseteq Nat
  <2>1. IsFiniteSet(1..Len(m.order))
    <3>1. \A k \in Nat : 1 \in Int /\ k \in Int
      OBVIOUS
    <3> QED
      BY Zenon, <1>2, <3>1, FS_Interval
  <2>2. new \subseteq 1..Len(m.order)
    BY Zenon, <1>2
  <2>3. 1..Len(m.order) \subseteq Nat
    BY <1>2
  <2> HIDE DEF new
  <2> QED
    BY Zenon, <2>1, <2>2, <2>3, FS_Subset, FS_CardinalityType
<1>4. PICK s \in [1..n -> new] : /\ \A i, j \in DOMAIN s : i < j => s[i] < s[j]
                                 /\ fresh = [i \in DOMAIN s |-> m.order[s[i]]]
  BY Zenon DEF Fresh
<1>5. IsFiniteSet(1..n) /\ Cardinality(1..n) = n
  <2> HIDE DEF n
  <2> QED
    BY <1>3, FS_Interval
<1>6. s \in Injection(1..n, new)
  <2>1. DOMAIN s = 1..n /\ \A i \in 1..n : s[i] \in Nat
    <3> HIDE DEF new, n
    <3> QED
      BY Zenon, <1>3, <1>4
  <2>2. ASSUME NEW i \in 1..n, NEW j \in 1..n, s[i] = s[j] PROVE i = j
    <3> HIDE DEF new, n
    <3>1. ~ (i < j) /\ ~ (j < i)
      BY <1>4, <2>1, <2>2
    <3> QED
      BY <1>3, <3>1
  <2> HIDE DEF new, n
  <2> QED
    BY Zenon, <1>4, <2>1, <2>2 DEF Injection, IsInjective
<1>7. s \in Surjection(1..n, new)
  BY Zenon, <1>3, <1>5, <1>6, FS_Injection
<1>8. \A i \in new : \E j \in 1..n : s[j] = i
  <2> HIDE DEF new, n
  <2> QED
    BY Zenon, <1>7 DEF Surjection
<1>9. DOMAIN fresh = 1..n /\ \A i \in 1..n : fresh[i] = m.order[s[i]]
  <2> HIDE DEF new, n
  <2> QED
    BY Zenon, <1>4
<1>10. \A i \in 1..n : s[i] \in DOMAIN m.order /\ m.order[s[i]] \notin DOMAIN meter.rows
  BY Zenon, <1>4
<1>11. fresh \in Seq(OwnedBatches)
  <2>1. \A i \in 1..n : m.order[s[i]] \in OwnedBatches
    <3> HIDE DEF new, n
    <3> QED
      BY <1>1, <1>2, <1>10
  <2>2. fresh \in [1..n -> OwnedBatches]
    <3>1. fresh = [i \in 1..n |-> m.order[s[i]]]
      <4> HIDE DEF new, n
      <4> QED
        BY Zenon, <1>4
    <3> HIDE DEF new, n
    <3> QED
      BY Zenon, <2>1, <3>1
  <2> HIDE DEF new, n
  <2> QED
    BY <1>3, <2>2
<1>12. IsInjective(fresh)
  <2>1. \A i, j \in 1..n : s[i] = s[j] => i = j
    <3> HIDE DEF new, n
    <3> QED
      BY Zenon, <1>4, <1>6 DEF Injection, IsInjective
  <2>2. ASSUME NEW i \in 1..n, NEW j \in 1..n, fresh[i] = fresh[j] PROVE i = j
    <3> HIDE DEF new, n
    <3>1. m.order[s[i]] = m.order[s[j]]
      BY Zenon, <1>9, <2>2
    <3>2. s[i] = s[j]
      BY Zenon, <1>1, <1>10, <3>1 DEF IsInjective
    <3> QED
      BY Zenon, <2>1, <3>2
  <2> HIDE DEF new, n
  <2> QED
    BY Zenon, <1>9, <2>2 DEF IsInjective
<1>13. ASSUME NEW b \in Range(fresh) PROVE b \in DOMAIN m.rows \ DOMAIN meter.rows
  <2> HIDE DEF new, n
  <2>1. PICK i \in 1..n : b = m.order[s[i]]
    BY Zenon, <1>9 DEF Range
  <2> QED
    BY Zenon, <1>1, <1>10, <2>1 DEF Range
<1>14. ASSUME NEW b \in DOMAIN m.rows \ DOMAIN meter.rows PROVE b \in Range(fresh)
  <2>1. PICK i \in DOMAIN m.order : b = m.order[i]
    BY Zenon, <1>1 DEF Range
  <2>2. i \in new
    BY Zenon, <2>1
  <2> HIDE DEF new, n
  <2>3. PICK j \in 1..n : s[j] = i
    BY Zenon, <1>8, <2>2
  <2> QED
    BY Zenon, <1>9, <2>1, <2>3 DEF Range
<1> QED
  BY Zenon, <1>11, <1>12, <1>13, <1>14

\* The order of the meter's rows after a merge, and the rows there are.
LEMMA MergeOK ==
  ASSUME MeterOK, NEW m \in TallyType, TallyOK(m), NEW fresh \in Fresh(m)
  PROVE  LET n == Merge(m, fresh)
             order == meter.order \o fresh
             out == Range(SubSeq(order, 1, Over(Len(order), RowCap)))
         IN  /\ n.order \in Seq(OwnedBatches) /\ IsInjective(n.order) /\ Len(n.order) <= RowCap
             /\ DOMAIN n.rows = Range(n.order)
             /\ out \subseteq DOMAIN meter.rows \cup DOMAIN m.rows
<1> DEFINE D == DOMAIN meter.rows
           order == meter.order \o fresh
           over == Over(Len(order), RowCap)
           kept == SubSeq(order, over + 1, Len(order))
           out == Range(SubSeq(order, 1, over))
           rows == [b \in D \cup DOMAIN m.rows |->
                      IF b \notin DOMAIN m.rows THEN meter.rows[b]
                      ELSE IF b \notin DOMAIN meter.rows THEN KibOf(m.rows[b])
                      ELSE Plus(meter.rows[b], KibOf(m.rows[b]))]
<1>1. /\ meter.order \in Seq(OwnedBatches) /\ IsInjective(meter.order)
      /\ Range(meter.order) = D
  BY Zenon DEF MeterOK
<1>2. /\ fresh \in Seq(OwnedBatches) /\ IsInjective(fresh) /\ Range(fresh) = DOMAIN m.rows \ D
  BY Zenon, FreshRows
<1>3. Range(meter.order) \cap Range(fresh) = {}
  BY Zenon, <1>1, <1>2
<1>4. /\ order \in Seq(OwnedBatches) /\ IsInjective(order)
      /\ Range(order) = Range(meter.order) \cup Range(fresh)
  BY SMTT(30), <1>1, <1>2, <1>3, QueueConcat
<1>5. Range(order) = D \cup DOMAIN m.rows
  BY Zenon, <1>1, <1>2, <1>4
<1>6. RowCap \in Nat
  BY Zenon, PushAssumption
<1> HIDE DEF order
<1>7. /\ kept \in Seq(OwnedBatches) /\ IsInjective(kept) /\ Len(kept) <= RowCap
      /\ Range(kept) = Range(order) \ out /\ out \subseteq Range(order)
  <2> HIDE DEF over
  <2> QED
    BY Zenon, <1>4, <1>6, QueueTrim DEF over
<1>8. DOMAIN rows = D \cup DOMAIN m.rows
  BY Zenon
<1>9. /\ Merge(m, fresh).order = kept
      /\ Merge(m, fresh).rows = [b \in DOMAIN rows \ out |-> rows[b]]
  BY Zenon DEF Merge, order
<1> HIDE DEF rows, out, kept
<1>10. DOMAIN Merge(m, fresh).rows = DOMAIN rows \ out
  BY Zenon, <1>9
<1> QED
  BY Zenon, <1>5, <1>7, <1>8, <1>9, <1>10 DEF order, out, over

-----------------------------------------------------------------------------
\* Steps that leave the connections alone.
LEMMA ServeStep ==
  ASSUME PushInv, UNCHANGED conns, clock' \in 0..MaxClock, posts' \in 0..MaxPosts,
         pool' \in 0..PoolTarget, RecentOK', MeterOK',
         task' \in [Tasks -> TaskType], TasksSound'
  PROVE  PushInv'
<1>1. PTyped /\ PermitsConserved
  BY Zenon DEF PushInv
<1>2. free' = free /\ looping' = looping /\ open' = open
  BY Zenon DEF conns
<1>3. PTyped'
  BY Zenon, <1>1, <1>2 DEF PTyped
<1>4. PermitsConserved'
  BY Zenon, <1>1, <1>2 DEF PermitsConserved
<1> QED
  BY Zenon, <1>3, <1>4 DEF PushInv

\* A task moves, and nothing else changes but what the caller says.
LEMMA TaskStep ==
  ASSUME PushInv, UNCHANGED <<clock, conns>>, posts' \in 0..MaxPosts, pool' \in 0..PoolTarget,
         pushed \subseteq pushed', RecentOK', MeterOK', NEW t \in Tasks, NEW q \in TaskType,
         Sound(q, pushed'), task' = [task EXCEPT ![t] = q]
  PROVE  PushInv'
<1>1. PTyped /\ TasksSound
  BY Zenon DEF PushInv
<1>2. /\ [task EXCEPT ![t] = q] \in [Tasks -> TaskType]
      /\ \A u \in Tasks : Sound([task EXCEPT ![t] = q][u], pushed')
  BY Zenon, <1>1, TaskMoves
<1>3. task' \in [Tasks -> TaskType] /\ TasksSound'
  BY Zenon, <1>2 DEF TasksSound
<1>4. clock' \in 0..MaxClock
  BY Zenon, <1>1 DEF PTyped
<1> QED
  BY Zenon, <1>3, <1>4, ServeStep

\* The caches as they were.
LEMMA CachesStay ==
  ASSUME PushInv, UNCHANGED caches, pushed \subseteq pushed'
  PROVE  RecentOK' /\ MeterOK' /\ pool' \in 0..PoolTarget
<1>1. recent' = recent /\ meter' = meter /\ pool' = pool
  BY Zenon DEF caches
<1>2. RecentOK'
  BY Zenon, <1>1 DEF PushInv, RecentOK
<1>3. MeterOK'
  BY Zenon, <1>1 DEF PushInv, MeterOK
<1> QED
  BY Zenon, <1>1, <1>2, <1>3 DEF PushInv, PTyped

\* A task moves, and that is all.
LEMMA TaskAlone ==
  ASSUME PushInv, UNCHANGED <<clock, posts, conns, caches, history>>, NEW t \in Tasks,
         NEW q \in TaskType, Sound(q, pushed), task' = [task EXCEPT ![t] = q]
  PROVE  PushInv'
<1>1. pushed' = pushed
  BY Zenon DEF history
<1>2. RecentOK' /\ MeterOK' /\ pool' \in 0..PoolTarget
  BY Zenon, <1>1, CachesStay
<1>3. posts' \in 0..MaxPosts /\ pushed \subseteq pushed' /\ Sound(q, pushed')
  BY Zenon, <1>1 DEF PushInv, PTyped
<1> QED
  BY Zenon, <1>2, <1>3, TaskStep

\* The task's own facts.
LEMMA TaskFacts ==
  ASSUME PushInv, NEW t \in Tasks
  PROVE  /\ task \in [Tasks -> TaskType] /\ task[t] \in TaskType /\ Sound(task[t], pushed)
         /\ Placed(task[t])
BY Zenon DEF PushInv, PTyped, TasksSound, Sound

\* No task, and one that was just posted.
LEMMA NoTaskSound ==
  ASSUME NEW P PROVE NoTask \in TaskType /\ Sound(NoTask, P)
BY Zenon, PostedSound DEF NoTask

-----------------------------------------------------------------------------
\* The connections: permits.
LEMMA ConnStep ==
  ASSUME PushInv, UNCHANGED <<clock, posts, caches, history>>, free' \in Nat,
         looping' \in BOOLEAN, open' \subseteq Tasks, IsFiniteSet(open'), PermitsConserved',
         task' \in [Tasks -> TaskType], TasksSound'
  PROVE  PushInv'
<1>1. pushed' = pushed /\ clock' = clock /\ posts' = posts
  BY Zenon DEF history
<1>2. RecentOK' /\ MeterOK' /\ pool' \in 0..PoolTarget
  BY Zenon, <1>1, CachesStay
<1>3. PTyped'
  BY Zenon, <1>1, <1>2 DEF PushInv, PTyped
<1> QED
  BY Zenon, <1>2, <1>3 DEF PushInv

\* run() holds the permit it takes until a connection has it.
LEMMA AcquireStep == ASSUME PushInv, Acquire PROVE PushInv'
<1>1. /\ free \in Nat /\ open \subseteq Tasks /\ IsFiniteSet(open) /\ PermitsConserved
      /\ task \in [Tasks -> TaskType] /\ TasksSound
  BY Zenon DEF PushInv, PTyped
<1>2. Cardinality(open) \in Nat /\ MaxConns \in Nat
  BY Zenon, <1>1, FS_CardinalityType, PushAssumption
<1>3. /\ ~looping /\ free > 0 /\ looping' = TRUE /\ free' = free - 1 /\ open' = open
      /\ task' = task /\ pushed' = pushed /\ UNCHANGED <<clock, posts, caches, history>>
  BY Zenon DEF Acquire, history
<1>4. free' \in Nat /\ PermitsConserved'
  BY <1>1, <1>2, <1>3 DEF PermitsConserved
<1>5. task' \in [Tasks -> TaskType] /\ TasksSound'
  BY Zenon, <1>1, <1>3 DEF TasksSound
<1>6. looping' \in BOOLEAN /\ open' \subseteq Tasks /\ IsFiniteSet(open')
  BY Zenon, <1>1, <1>3
<1> QED
  BY Zenon, <1>3, <1>4, <1>5, <1>6, ConnStep

\* When accept() fails, the permit that run() held is free again.
LEMMA AcceptFailsStep == ASSUME PushInv, AcceptFails PROVE PushInv'
<1>1. /\ free \in Nat /\ open \subseteq Tasks /\ IsFiniteSet(open) /\ PermitsConserved
      /\ task \in [Tasks -> TaskType] /\ TasksSound
  BY Zenon DEF PushInv, PTyped
<1>2. Cardinality(open) \in Nat /\ MaxConns \in Nat
  BY Zenon, <1>1, FS_CardinalityType, PushAssumption
<1>3. /\ looping /\ looping' = FALSE /\ free' = free + 1 /\ open' = open
      /\ task' = task /\ pushed' = pushed /\ UNCHANGED <<clock, posts, caches, history>>
  BY Zenon DEF AcceptFails, history
<1>4. free' \in Nat /\ PermitsConserved'
  BY <1>1, <1>2, <1>3 DEF PermitsConserved
<1>5. task' \in [Tasks -> TaskType] /\ TasksSound'
  BY Zenon, <1>1, <1>3 DEF TasksSound
<1>6. looping' \in BOOLEAN /\ open' \subseteq Tasks /\ IsFiniteSet(open')
  BY Zenon, <1>1, <1>3
<1> QED
  BY Zenon, <1>3, <1>4, <1>5, <1>6, ConnStep

\* The permit goes to the connection, whose task starts empty.
LEMMA AcceptStep == ASSUME PushInv, NEW t \in Tasks, Accept(t) PROVE PushInv'
<1>1. /\ free \in Nat /\ open \subseteq Tasks /\ IsFiniteSet(open) /\ PermitsConserved
      /\ PTyped /\ TasksSound
  BY Zenon DEF PushInv, PTyped
<1>2. /\ Cardinality(open) \in Nat /\ MaxConns \in Nat /\ IsFiniteSet(open \cup {t})
      /\ t \notin open => Cardinality(open \cup {t}) = Cardinality(open) + 1
  BY Zenon, <1>1, FS_CardinalityType, FS_AddElement, PushAssumption
<1>3. /\ looping /\ t \notin open /\ looping' = FALSE /\ free' = free /\ open' = open \cup {t}
      /\ task' = [task EXCEPT ![t] = NoTask] /\ pushed' = pushed
      /\ UNCHANGED <<clock, posts, caches, history>>
  BY Zenon DEF Accept, history
<1>4. Cardinality(open') = Cardinality(open) + 1
  BY Zenon, <1>2, <1>3
<1>5. free' \in Nat /\ PermitsConserved'
  BY <1>1, <1>2, <1>3, <1>4 DEF PermitsConserved
<1>6. task' \in [Tasks -> TaskType] /\ TasksSound'
  <2>1. NoTask \in TaskType /\ Sound(NoTask, pushed)
    BY Zenon, NoTaskSound
  <2>2. /\ [task EXCEPT ![t] = NoTask] \in [Tasks -> TaskType]
        /\ \A u \in Tasks : Sound([task EXCEPT ![t] = NoTask][u], pushed)
    BY Zenon, <1>1, <2>1, TaskMoves
  <2> QED
    BY Zenon, <1>3, <2>2 DEF TasksSound
<1>7. looping' \in BOOLEAN /\ open' \subseteq Tasks /\ IsFiniteSet(open')
  BY Zenon, <1>1, <1>2, <1>3
<1> QED
  BY Zenon, <1>3, <1>5, <1>6, <1>7, ConnStep

\* A connection that ends frees its permit; a body still read has no line yet.
LEMMA CloseStep == ASSUME PushInv, NEW t \in Tasks, Close(t) PROVE PushInv'
<1> DEFINE q == IF task[t].st = "reading" THEN NoTask ELSE task[t]
<1>1. /\ free \in Nat /\ open \subseteq Tasks /\ IsFiniteSet(open) /\ PermitsConserved
      /\ looping \in BOOLEAN /\ PTyped /\ TasksSound
  BY Zenon DEF PushInv, PTyped
<1>2. /\ Cardinality(open) \in Nat /\ MaxConns \in Nat /\ IsFiniteSet(open \ {t})
      /\ t \in open => Cardinality(open \ {t}) = Cardinality(open) - 1
  BY Zenon, <1>1, FS_CardinalityType, FS_RemoveElement, PushAssumption
<1>3. /\ t \in open /\ looping' = looping /\ free' = free + 1 /\ open' = open \ {t}
      /\ task' = [task EXCEPT ![t] = q] /\ pushed' = pushed
      /\ UNCHANGED <<clock, posts, caches, history>>
  BY Zenon DEF Close, history
<1>4. Cardinality(open') = Cardinality(open) - 1
  BY Zenon, <1>2, <1>3
<1>5. free' \in Nat /\ PermitsConserved'
  BY <1>1, <1>2, <1>3, <1>4 DEF PermitsConserved
<1>6. task' \in [Tasks -> TaskType] /\ TasksSound'
  <2>1. q \in TaskType /\ Sound(q, pushed)
    BY Zenon, NoTaskSound, TaskFacts
  <2> HIDE DEF q
  <2>2. /\ [task EXCEPT ![t] = q] \in [Tasks -> TaskType]
        /\ \A u \in Tasks : Sound([task EXCEPT ![t] = q][u], pushed)
    BY Zenon, <1>1, <2>1, TaskMoves
  <2> QED
    BY Zenon, <1>3, <2>2 DEF TasksSound
<1>7. open' \subseteq Tasks /\ IsFiniteSet(open') /\ looping' \in BOOLEAN
  BY Zenon, <1>1, <1>2, <1>3
<1> QED
  BY Zenon, <1>3, <1>5, <1>6, <1>7, ConnStep

-----------------------------------------------------------------------------
\* The requests.
LEMMA PostStep ==
  ASSUME PushInv, NEW t \in Tasks, NEW body \in Bodies, NEW batch \in Challenges,
         Post(t, body, batch)
  PROVE  PushInv'
<1> DEFINE q == NewTask("reading", body, batch)
<1>1. /\ posts < MaxPosts /\ posts' = posts + 1 /\ task' = [task EXCEPT ![t] = q]
      /\ pushed' = pushed /\ UNCHANGED <<clock, conns>> /\ UNCHANGED caches
  BY Zenon DEF Post, history
<1>2. q \in TaskType /\ Sound(q, pushed)
  BY Zenon, PostedSound
<1> HIDE DEF q
<1>3. RecentOK' /\ MeterOK' /\ pool' \in 0..PoolTarget
  BY Zenon, <1>1, CachesStay
<1>4. posts' \in 0..MaxPosts
  <2>1. posts \in 0..MaxPosts /\ MaxPosts \in Nat
    BY Zenon, PushAssumption DEF PushInv, PTyped
  <2> QED
    BY <1>1, <2>1
<1>5. pushed \subseteq pushed' /\ Sound(q, pushed')
  BY Zenon, <1>1, <1>2
<1> QED
  BY Zenon, <1>1, <1>2, <1>3, <1>4, <1>5, TaskStep

\* A body that cannot be read leaves no frame to answer.
LEMMA ReadFailsStep == ASSUME PushInv, NEW t \in Tasks, ReadFails(t) PROVE PushInv'
BY Zenon, NoTaskSound, TaskAlone DEF ReadFails

\* A body that was read is at its first frame, with no line.
LEMMA ReadBodyStep == ASSUME PushInv, NEW t \in Tasks, ReadBody(t) PROVE PushInv'
<1> DEFINE x == task[t]
           q == [x EXCEPT !.st = "frames"]
<1>1. /\ x.st = "reading" /\ task' = [task EXCEPT ![t] = q]
      /\ UNCHANGED <<clock, posts, conns, caches, history>>
  BY Zenon DEF ReadBody
<1>2. x \in TaskType /\ Sound(x, pushed) /\ Placed(x)
  BY Zenon, TaskFacts
<1> HIDE DEF x
<1>3. q \in TaskType
  BY Zenon, <1>2 DEF TaskType, Stages
<1>4. /\ q.st = "frames" /\ q.body = x.body /\ q.at = x.at /\ q.batch = x.batch
      /\ q.lines = x.lines /\ q.accepted = x.accepted /\ q.left = x.left
      /\ q.batch_of = x.batch_of /\ q.verdict = x.verdict /\ q.uncached = x.uncached
      /\ q.deduped = x.deduped /\ q.tally = x.tally
  BY Zenon, <1>2 DEF TaskType
<1> HIDE DEF q
<1>5. Placed(q) /\ q.uncached = {} /\ x.st # "over" /\ q.st # "over"
  BY Zenon, <1>1, <1>2, <1>4 DEF Placed
<1>6. Sound(q, pushed)
  BY Zenon, <1>2, <1>3, <1>4, <1>5, StageSound
<1> QED
  BY Zenon, <1>1, <1>3, <1>6, TaskAlone

\* A frame gets its line, or is left for the dispatcher (FramedSound).
LEMMA DoFrameStep == ASSUME PushInv, NEW t \in Tasks, DoFrame(t) PROVE PushInv'
<1>1. Framed(t) \in TaskType /\ Sound(Framed(t), pushed)
  BY Zenon, FramedSound
<1>2. /\ task' = [task EXCEPT ![t] = Framed(t)]
      /\ UNCHANGED <<clock, posts, conns, caches, history>>
  BY Zenon DEF DoFrame
<1> QED
  BY Zenon, <1>1, <1>2, TaskAlone

\* Commit changes no line; with nothing to push, every frame has its line.
LEMMA CommitStep ==
  ASSUME PushInv, NEW t \in Tasks, NEW fresh \in Fresh(task[t].tally), Commit(t, fresh)
  PROVE  PushInv'
<1> DEFINE x == task[t]
           st == IF x.accepted = {} THEN "over" ELSE "pool"
           q == [x EXCEPT !.st = st]
<1>1. /\ x.st = "frames" /\ x.at > Len(x.body) /\ task' = [task EXCEPT ![t] = q]
      /\ meter' = IF DOMAIN x.tally.rows = {} THEN meter ELSE Merge(x.tally, fresh)
      /\ recent' = recent /\ pool' = pool /\ pushed' = pushed /\ posts' = posts
      /\ UNCHANGED <<clock, conns>>
  BY Zenon DEF Commit
<1>2. /\ x \in TaskType /\ Sound(x, pushed) /\ Placed(x) /\ x.tally \in TallyType
      /\ TallyOK(x.tally) /\ x.body \in Seq(Frame) /\ x.at \in Nat /\ x.lines \in [Addrs -> Nat]
  BY Zenon, TaskFacts DEF TaskType, Sound
<1>3. fresh \in Fresh(x.tally)
  BY Zenon
<1> HIDE DEF x
<1>4. x.at = Len(x.body) + 1
  BY <1>1, <1>2 DEF Placed
<1>5. st \in {"over", "pool"} /\ (st = "over" <=> x.accepted = {})
  BY Zenon
<1> HIDE DEF st
<1>6. q \in TaskType
  BY Zenon, <1>2, <1>5 DEF TaskType, Stages
<1>7. /\ q.st = st /\ q.body = x.body /\ q.at = x.at /\ q.batch = x.batch
      /\ q.lines = x.lines /\ q.accepted = x.accepted /\ q.left = x.left
      /\ q.batch_of = x.batch_of /\ q.verdict = x.verdict /\ q.uncached = x.uncached
      /\ q.deduped = x.deduped /\ q.tally = x.tally
  BY Zenon, <1>2 DEF TaskType
<1> HIDE DEF q
<1>8. x.uncached = {} /\ DOMAIN x.verdict = {} /\ x.st # "over"
  BY Zenon, <1>1, <1>2 DEF Placed
<1>9. Sound(q, pushed)
  <2>1. CASE st = "pool"
    <3>1. Placed(q)
      BY Zenon, <1>2, <1>4, <1>7, <1>8, <2>1 DEF Placed
    <3> QED
      BY Zenon, <1>2, <1>6, <1>7, <1>8, <2>1, <3>1, StageSound
  <2>2. CASE st = "over"
    <3>1. ASSUME NEW a \in Addrs
          PROVE  q.lines[a] = x.lines[a] + IF a \in DOMAIN x.verdict THEN 0
                                           ELSE Cardinality(Entries(x, a))
      <4>1. Entries(x, a) = {}
        BY Zenon, <1>5, <2>2 DEF Entries
      <4>2. Cardinality(Entries(x, a)) = 0
        BY Zenon, <4>1, FS_EmptySet
      <4>3. q.lines[a] = x.lines[a] /\ x.lines[a] \in Nat
        BY Zenon, <1>2, <1>7
      <4> QED
        BY <4>2, <4>3
    <3> QED
      BY Zenon, <1>2, <1>4, <1>6, <1>7, <1>8, <2>2, <3>1, OverSound
  <2> QED
    BY Zenon, <1>5, <2>1, <2>2
<1>10. MeterOK'
  <2>1. MeterOK
    BY Zenon DEF PushInv
  <2>2. CASE DOMAIN x.tally.rows = {}
    <3>1. meter' = meter
      BY Zenon, <1>1, <2>2
    <3> QED
      BY Zenon, <2>1, <3>1 DEF MeterOK
  <2>3. CASE DOMAIN x.tally.rows # {}
    <3>1. meter' = Merge(x.tally, fresh)
      BY Zenon, <1>1, <2>3
    <3>2. LET n == Merge(x.tally, fresh)
          IN  /\ n.order \in Seq(OwnedBatches) /\ IsInjective(n.order)
              /\ Len(n.order) <= RowCap /\ DOMAIN n.rows = Range(n.order)
      BY Zenon, <1>2, <1>3, <2>1, MergeOK
    <3> QED
      BY Zenon, <3>1, <3>2 DEF MeterOK
  <2> QED
    BY Zenon, <2>2, <2>3
<1>11. RecentOK' /\ pool' \in 0..PoolTarget /\ posts' \in 0..MaxPosts
  BY Zenon, <1>1 DEF PushInv, PTyped, RecentOK
<1>12. pushed \subseteq pushed' /\ Sound(q, pushed')
  BY Zenon, <1>1, <1>9
<1> QED
  BY Zenon, <1>1, <1>6, <1>10, <1>11, <1>12, TaskStep

\* The pool.
LEMMA GetPoolStep == ASSUME PushInv, NEW t \in Tasks, GetPool(t) PROVE PushInv'
<1> DEFINE x == task[t]
           st == IF pool > 0 THEN "pushing" ELSE "dialing"
           q == [x EXCEPT !.st = st]
<1>1. /\ x.st = "pool" /\ task' = [task EXCEPT ![t] = q]
      /\ UNCHANGED <<clock, posts, conns, caches, history>>
  BY Zenon DEF GetPool
<1>2. x \in TaskType /\ Sound(x, pushed) /\ Placed(x)
  BY Zenon, TaskFacts
<1>3. st \in {"pushing", "dialing"}
  BY Zenon
<1> HIDE DEF x, st
<1>4. q \in TaskType
  BY Zenon, <1>2, <1>3 DEF TaskType, Stages
<1>5. /\ q.st = st /\ q.body = x.body /\ q.at = x.at /\ q.batch = x.batch
      /\ q.lines = x.lines /\ q.accepted = x.accepted /\ q.left = x.left
      /\ q.batch_of = x.batch_of /\ q.verdict = x.verdict /\ q.uncached = x.uncached
      /\ q.deduped = x.deduped /\ q.tally = x.tally
  BY Zenon, <1>2 DEF TaskType
<1> HIDE DEF q
<1>6. Placed(q) /\ q.uncached = {} /\ x.st # "over" /\ q.st # "over"
  BY Zenon, <1>1, <1>2, <1>3, <1>5 DEF Placed
<1>7. Sound(q, pushed)
  BY Zenon, <1>2, <1>4, <1>5, <1>6, StageSound
<1> QED
  BY Zenon, <1>1, <1>4, <1>7, TaskAlone

\* With no session after the dials, the accepted frames get the lines they lack.
LEMMA DialledStep == ASSUME PushInv, NEW t \in Tasks, NEW n \in 0..1, Dialled(t, n) PROVE PushInv'
<1> DEFINE x == task[t]
           lines == [a \in Addrs |-> x.lines[a] + Cardinality(Entries(x, a))]
           q == IF pool + n > 0 THEN [x EXCEPT !.st = "pushing"]
                ELSE [x EXCEPT !.st = "over", !.lines = lines]
<1>1. /\ x.st = "dialing" /\ pool + n <= PoolTarget /\ pool' = pool + n
      /\ task' = [task EXCEPT ![t] = q] /\ pushed' = pushed /\ recent' = recent /\ meter' = meter
      /\ posts' = posts /\ UNCHANGED <<clock, conns>>
  BY Zenon DEF Dialled, history
<1>2. /\ x \in TaskType /\ Sound(x, pushed) /\ Placed(x) /\ x.body \in Seq(Frame)
      /\ x.at \in Nat /\ x.lines \in [Addrs -> Nat]
  BY Zenon, TaskFacts DEF TaskType
<1> HIDE DEF x
<1>3. x.uncached = {} /\ DOMAIN x.verdict = {} /\ x.st # "over" /\ x.at = Len(x.body) + 1
  BY Zenon, <1>1, <1>2 DEF Placed
<1>4. q \in TaskType /\ Sound(q, pushed)
  <2>1. CASE pool + n > 0
    <3> DEFINE p == [x EXCEPT !.st = "pushing"]
    <3>1. q = p
      BY Zenon, <2>1
    <3>2. p \in TaskType
      BY Zenon, <1>2 DEF TaskType, Stages
    <3>3. /\ p.st = "pushing" /\ p.body = x.body /\ p.at = x.at /\ p.batch = x.batch
          /\ p.lines = x.lines /\ p.accepted = x.accepted /\ p.left = x.left
          /\ p.batch_of = x.batch_of /\ p.verdict = x.verdict /\ p.uncached = x.uncached
          /\ p.deduped = x.deduped /\ p.tally = x.tally
      BY Zenon, <1>2 DEF TaskType
    <3> HIDE DEF p, q
    <3>4. Placed(p) /\ p.st # "over"
      BY Zenon, <1>1, <1>2, <1>3, <3>3 DEF Placed
    <3>5. Sound(p, pushed)
      BY Zenon, <1>2, <1>3, <3>2, <3>3, <3>4, StageSound
    <3> QED
      BY Zenon, <3>1, <3>2, <3>5
  <2>2. CASE ~ (pool + n > 0)
    <3> DEFINE p == [x EXCEPT !.st = "over", !.lines = lines]
    <3>1. q = p
      BY Zenon, <2>2
    <3>2. lines \in [Addrs -> Nat] /\ \A a \in Addrs : lines[a] = x.lines[a] + Cardinality(Entries(x, a))
      <4>1. ASSUME NEW a \in Addrs PROVE x.lines[a] + Cardinality(Entries(x, a)) \in Nat
        <5>1. Cardinality(Entries(x, a)) \in Nat /\ x.lines[a] \in Nat
          BY Zenon, <1>2, FramesFinite, FS_CardinalityType
        <5> QED
          BY <5>1
      <4> QED
        BY Zenon, <4>1
    <3> HIDE DEF lines
    <3>3. p \in TaskType
      BY Zenon, <1>2, <3>2 DEF TaskType, Stages
    <3>4. /\ p.st = "over" /\ p.body = x.body /\ p.at = x.at /\ p.batch = x.batch
          /\ p.lines = lines /\ p.accepted = x.accepted /\ p.left = x.left
          /\ p.batch_of = x.batch_of /\ p.verdict = x.verdict /\ p.uncached = x.uncached
          /\ p.deduped = x.deduped /\ p.tally = x.tally
      BY Zenon, <1>2 DEF TaskType
    <3> HIDE DEF p, q
    <3>5. \A a \in Addrs : p.lines[a] = x.lines[a] + IF a \in DOMAIN x.verdict THEN 0
                                                     ELSE Cardinality(Entries(x, a))
      BY Zenon, <1>3, <3>2, <3>4
    <3>6. Sound(p, pushed)
      BY Zenon, <1>2, <1>3, <3>3, <3>4, <3>5, OverSound
    <3> QED
      BY Zenon, <3>1, <3>3, <3>6
  <2> QED
    BY Zenon, <2>1, <2>2
<1> HIDE DEF q
<1>5. pool' \in 0..PoolTarget
  <2>1. pool \in 0..PoolTarget /\ PoolTarget \in Nat
    BY Zenon, PushAssumption DEF PushInv, PTyped
  <2> QED
    BY <1>1, <2>1
<1>6. RecentOK' /\ MeterOK' /\ posts' \in 0..MaxPosts
  BY Zenon, <1>1 DEF PushInv, PTyped, RecentOK, MeterOK
<1>7. pushed \subseteq pushed' /\ Sound(q, pushed')
  BY Zenon, <1>1, <1>4
<1> QED
  BY Zenon, <1>1, <1>4, <1>5, <1>6, <1>7, TaskStep

\* The dispatcher.
LEMMA ResolveStep ==
  ASSUME PushInv, NEW t \in Tasks, NEW i \in task[t].left, NEW ok \in BOOLEAN, Resolve(t, i, ok)
  PROVE  PushInv'
<1> DEFINE x == task[t]
           f == x.body[i]
           lines == [x.lines EXCEPT ![f.addr] = @ + 1]
           verdict == [a \in DOMAIN x.verdict \cup {f.addr} |->
                         IF a = f.addr THEN ok ELSE x.verdict[a]]
           q == [x EXCEPT !.left = x.left \ {i}, !.lines = lines, !.verdict = verdict]
<1>1. /\ x.st = "pushing" /\ i \in x.left /\ task' = [task EXCEPT ![t] = q]
      /\ pushed' = (IF ok THEN pushed \cup {<<f.addr, f.batch>>} ELSE pushed)
      /\ UNCHANGED caches /\ posts' = posts /\ UNCHANGED <<clock, conns>>
  BY Zenon DEF Resolve
<1>2. /\ x \in TaskType /\ Sound(x, pushed) /\ Placed(x) /\ x.body \in Seq(Frame)
      /\ x.at \in Nat /\ x.lines \in [Addrs -> Nat] /\ x.left \in SUBSET Nat
      /\ x.verdict \in Partial(Addrs, BOOLEAN)
  BY Zenon, TaskFacts DEF TaskType
<1> HIDE DEF x
<1>3. f \in Frame
  BY <1>1, <1>2 DEF Placed
<1>4. f.addr \in Addrs
  BY Zenon, <1>3 DEF Frame
<1> HIDE DEF f
<1>5. lines \in [Addrs -> Nat]
  <2>1. \A k \in Nat : k + 1 \in Nat
    OBVIOUS
  <2> QED
    BY Zenon, <1>2, <1>4, <2>1
<1>6. verdict \in Partial(Addrs, BOOLEAN)
  <2>1. DOMAIN x.verdict \in SUBSET Addrs /\ x.verdict \in [DOMAIN x.verdict -> BOOLEAN]
    BY Zenon, <1>2, PartialFunction
  <2>2. DOMAIN verdict = DOMAIN x.verdict \cup {f.addr}
    BY Zenon
  <2>3. verdict \in [DOMAIN x.verdict \cup {f.addr} -> BOOLEAN]
    BY Zenon, <2>1
  <2> HIDE DEF verdict
  <2> QED
    BY Zenon, <1>4, <2>1, <2>2, <2>3, PartialFunction
<1> HIDE DEF lines, verdict
<1>7. q \in TaskType
  BY Zenon, <1>2, <1>5, <1>6 DEF TaskType
<1>8. /\ q.st = x.st /\ q.body = x.body /\ q.at = x.at /\ q.batch = x.batch
      /\ q.lines = lines /\ q.accepted = x.accepted /\ q.left = x.left \ {i}
      /\ q.batch_of = x.batch_of /\ q.verdict = verdict /\ q.uncached = x.uncached
      /\ q.deduped = x.deduped /\ q.tally = x.tally
  BY Zenon, <1>2 DEF TaskType
<1> HIDE DEF q
<1>9. pushed \subseteq pushed' /\ (ok => <<f.addr, f.batch>> \in pushed')
  BY Zenon, <1>1
<1>10. Sound(q, pushed')
  <2>1. Resolved(q, x, i, ok)
    BY Zenon, <1>8 DEF Resolved, lines, verdict, f
  <2>2. ok => <<x.body[i].addr, x.body[i].batch>> \in pushed'
    BY Zenon, <1>9 DEF f
  <2> QED
    BY Zenon, <1>1, <1>2, <1>7, <1>9, <2>1, <2>2, ResolveSound
<1>11. RecentOK' /\ MeterOK' /\ pool' \in 0..PoolTarget
  BY Zenon, <1>1, <1>9, CachesStay
<1>12. posts' \in 0..MaxPosts
  BY Zenon, <1>1 DEF PushInv, PTyped
<1> QED
  BY Zenon, <1>1, <1>7, <1>9, <1>10, <1>11, <1>12, TaskStep

\* What is to be remembered after the dispatcher returned are its successes.
LEMMA ReturnStep == ASSUME PushInv, NEW t \in Tasks, Return(t) PROVE PushInv'
<1> DEFINE x == task[t]
           acks == {a \in DOMAIN x.verdict : x.verdict[a]}
           q == [x EXCEPT !.st = "caching", !.uncached = acks]
<1>1. /\ x.st = "pushing" /\ task' = [task EXCEPT ![t] = q]
      /\ UNCHANGED <<clock, posts, conns, caches, history>>
  BY Zenon DEF Return
<1>2. x \in TaskType /\ Sound(x, pushed) /\ Placed(x) /\ x.verdict \in Partial(Addrs, BOOLEAN)
  BY Zenon, TaskFacts DEF TaskType
<1> HIDE DEF x
<1>3. acks \subseteq Addrs /\ \A a \in acks : a \in DOMAIN x.verdict /\ x.verdict[a]
  BY Zenon, <1>2, PartialFunction
<1> HIDE DEF acks
<1>4. q \in TaskType
  BY Zenon, <1>2, <1>3 DEF TaskType, Stages
<1>5. /\ q.st = "caching" /\ q.body = x.body /\ q.at = x.at /\ q.batch = x.batch
      /\ q.lines = x.lines /\ q.accepted = x.accepted /\ q.left = x.left
      /\ q.batch_of = x.batch_of /\ q.verdict = x.verdict /\ q.uncached = acks
      /\ q.deduped = x.deduped /\ q.tally = x.tally
  BY Zenon, <1>2 DEF TaskType
<1> HIDE DEF q
<1>6. Placed(q) /\ x.st # "over" /\ q.st # "over"
  BY Zenon, <1>1, <1>2, <1>5 DEF Placed
<1>7. Sound(q, pushed)
  BY Zenon, <1>2, <1>3, <1>4, <1>5, <1>6, StageSound
<1> QED
  BY Zenon, <1>1, <1>4, <1>7, TaskAlone

\* The ack that is remembered is of a push that was made.
LEMMA CacheAckStep ==
  ASSUME PushInv, NEW t \in Tasks, NEW a \in task[t].uncached, CacheAck(t, a)
  PROVE  PushInv'
<1> DEFINE x == task[t]
           k == <<a, x.batch_of[a]>>
           u == x.uncached \ {a}
           q == [x EXCEPT !.uncached = u]
<1>1. /\ x.st = "caching" /\ a \in x.uncached /\ task' = [task EXCEPT ![t] = q]
      /\ recent' = Remember(k) /\ meter' = meter /\ pool' = pool /\ pushed' = pushed
      /\ posts' = posts /\ UNCHANGED <<clock, conns>>
  BY Zenon DEF CacheAck, history
<1>2. /\ x \in TaskType /\ Sound(x, pushed) /\ Placed(x) /\ Acked(x, pushed)
      /\ x.uncached \subseteq Addrs
  BY Zenon, TaskFacts DEF TaskType, Sound
<1> HIDE DEF x
<1>3. u \subseteq Addrs /\ \A b \in u : b \in DOMAIN x.verdict /\ x.verdict[b]
  BY Zenon, <1>2 DEF Acked
<1>4. k \in Addrs \X OwnedBatches /\ k \in pushed
  <2>1. a \in DOMAIN x.verdict /\ x.verdict[a]
    BY Zenon, <1>1, <1>2 DEF Acked
  <2>2. <<a, x.batch_of[a]>> \in pushed /\ x.batch_of[a] \in OwnedBatches
    BY Zenon, <1>2, <2>1 DEF Acked
  <2> QED
    BY Zenon, <1>1, <1>2, <2>2
<1> HIDE DEF u, k
<1>5. q \in TaskType
  BY Zenon, <1>2, <1>3 DEF TaskType
<1>6. /\ q.st = x.st /\ q.body = x.body /\ q.at = x.at /\ q.batch = x.batch
      /\ q.lines = x.lines /\ q.accepted = x.accepted /\ q.left = x.left
      /\ q.batch_of = x.batch_of /\ q.verdict = x.verdict /\ q.uncached = u
      /\ q.deduped = x.deduped /\ q.tally = x.tally
  BY Zenon, <1>2 DEF TaskType
<1> HIDE DEF q
<1>7. Placed(q) /\ x.st # "over" /\ q.st # "over"
  BY Zenon, <1>1, <1>2, <1>6 DEF Placed
<1>8. Sound(q, pushed)
  BY Zenon, <1>2, <1>3, <1>5, <1>6, <1>7, StageSound
<1>9. RecentOK'
  <2>1. RecentOK /\ UNCHANGED pushed
    BY Zenon, <1>1 DEF PushInv
  <2> QED
    BY Zenon, <1>1, <1>4, <2>1, RememberOK
<1>10. MeterOK' /\ pool' \in 0..PoolTarget /\ posts' \in 0..MaxPosts
  BY Zenon, <1>1 DEF PushInv, PTyped, MeterOK
<1>11. pushed \subseteq pushed' /\ Sound(q, pushed')
  BY Zenon, <1>1, <1>8
<1> QED
  BY Zenon, <1>1, <1>5, <1>9, <1>10, <1>11, TaskStep

\* After the error lines of run_push every address of the body has a line.
LEMMA FinishStep == ASSUME PushInv, NEW t \in Tasks, Finish(t) PROVE PushInv'
<1> DEFINE x == task[t]
           more(a) == IF a \in DOMAIN x.verdict THEN 0 ELSE Cardinality(Entries(x, a))
           lines == [a \in Addrs |-> x.lines[a] + more(a)]
           q == [x EXCEPT !.st = "over", !.lines = lines]
<1>1. /\ x.st = "caching" /\ x.uncached = {} /\ task' = [task EXCEPT ![t] = q]
      /\ UNCHANGED <<clock, posts, conns, caches, history>>
  BY Zenon DEF Finish
<1>2. /\ x \in TaskType /\ Sound(x, pushed) /\ Placed(x) /\ x.lines \in [Addrs -> Nat]
  BY Zenon, TaskFacts DEF TaskType
<1> HIDE DEF x
<1>3. x.st # "over" /\ x.at = Len(x.body) + 1
  BY Zenon, <1>1, <1>2 DEF Placed
<1>4. lines \in [Addrs -> Nat] /\ \A a \in Addrs : lines[a] = x.lines[a] + more(a)
  <2>1. ASSUME NEW a \in Addrs PROVE x.lines[a] + more(a) \in Nat
    <3>1. Cardinality(Entries(x, a)) \in Nat /\ x.lines[a] \in Nat
      BY Zenon, <1>2, FramesFinite, FS_CardinalityType
    <3> QED
      BY <3>1
  <2> HIDE DEF more
  <2> QED
    BY Zenon, <2>1
<1> HIDE DEF lines
<1>5. q \in TaskType
  BY Zenon, <1>2, <1>4 DEF TaskType, Stages
<1>6. /\ q.st = "over" /\ q.body = x.body /\ q.at = x.at /\ q.batch = x.batch
      /\ q.lines = lines /\ q.accepted = x.accepted /\ q.left = x.left
      /\ q.batch_of = x.batch_of /\ q.verdict = x.verdict /\ q.uncached = x.uncached
      /\ q.deduped = x.deduped /\ q.tally = x.tally
  BY Zenon, <1>2 DEF TaskType
<1> HIDE DEF q
<1>7. \A a \in Addrs : q.lines[a] = x.lines[a] + IF a \in DOMAIN x.verdict THEN 0
                                                 ELSE Cardinality(Entries(x, a))
  BY Zenon, <1>4, <1>6
<1>8. Sound(q, pushed)
  BY Zenon, <1>1, <1>2, <1>3, <1>5, <1>6, <1>7, OverSound
<1> QED
  BY Zenon, <1>1, <1>5, <1>8, TaskAlone

-----------------------------------------------------------------------------
\* The clock and the pool's maintenance.
LEMMA IdleStep ==
  ASSUME PushInv, PTick \/ (\E n \in 0..1 : Maintain(n)) \/ UNCHANGED pvars PROVE PushInv'
<1>1. /\ clock \in 0..MaxClock /\ MaxClock \in Nat /\ pool \in 0..PoolTarget /\ PoolTarget \in Nat
      /\ posts \in 0..MaxPosts /\ task \in [Tasks -> TaskType] /\ TasksSound /\ RecentOK /\ MeterOK
  BY Zenon, PushAssumption DEF PushInv, PTyped
<1>2. /\ recent' = recent /\ meter' = meter /\ pushed' = pushed /\ posts' = posts /\ task' = task
      /\ UNCHANGED conns
  BY Zenon DEF PTick, Maintain, pvars, conns, caches, history
<1>3. clock' \in 0..MaxClock
  <2>1. clock' = clock \/ (clock < MaxClock /\ clock' = clock + 1)
    BY Zenon DEF PTick, Maintain, pvars
  <2> QED
    BY <1>1, <2>1
<1>4. pool' \in 0..PoolTarget
  <2>1. pool' = pool \/ \E n \in 0..1 : pool + n <= PoolTarget /\ pool' = pool + n
    BY Zenon DEF PTick, Maintain, pvars, caches
  <2> QED
    BY <1>1, <2>1
<1>5. RecentOK' /\ MeterOK' /\ TasksSound' /\ task' \in [Tasks -> TaskType] /\ posts' \in 0..MaxPosts
  BY Zenon, <1>1, <1>2 DEF RecentOK, MeterOK, TasksSound
<1> QED
  BY Zenon, <1>2, <1>3, <1>4, <1>5, ServeStep

\* The invariant holds when the relay starts.
LEMMA PushInit == ASSUME PInit PROVE PushInv
<1>1. /\ clock = 0 /\ posts = 0 /\ free = MaxConns /\ looping = FALSE /\ open = {} /\ pool = 0
      /\ task = [t \in Tasks |-> NoTask]
  BY Zenon DEF PInit
<1>2. NoTask \in TaskType /\ Sound(NoTask, pushed)
  BY Zenon, NoTaskSound
<1>3. task \in [Tasks -> TaskType] /\ TasksSound
  BY Zenon, <1>1, <1>2 DEF TasksSound
<1>4. {RecentCap, RowCap, MaxConns, PoolTarget, MaxClock, MaxPosts} \subseteq Nat
  BY Zenon, PushAssumption
<1>5. IsFiniteSet(open) /\ Cardinality(open) = 0
  BY Zenon, <1>1, FS_EmptySet
<1>6. PTyped
  <2>1. clock \in 0..MaxClock /\ posts \in 0..MaxPosts /\ pool \in 0..PoolTarget
    BY <1>1, <1>4
  <2> QED
    BY Zenon, <1>1, <1>3, <1>4, <1>5, <2>1 DEF PTyped
<1>7. PermitsConserved
  BY <1>1, <1>4, <1>5 DEF PermitsConserved
<1>8. RecentOK /\ MeterOK
  <2>1. /\ recent.order = <<>> /\ meter.order = <<>>
        /\ DOMAIN recent.seen = {} /\ DOMAIN meter.rows = {}
    BY Zenon DEF PInit
  <2>2. /\ <<>> \in Seq(Addrs \X OwnedBatches) /\ <<>> \in Seq(OwnedBatches) /\ Len(<<>>) = 0
        /\ Range(<<>>) = {} /\ IsInjective(<<>>)
    BY DEF Range, IsInjective
  <2>3. 0 <= RecentCap /\ 0 <= RowCap
    BY <1>4
  <2> QED
    BY Zenon, <2>1, <2>2, <2>3 DEF RecentOK, MeterOK
<1> QED
  BY Zenon, <1>3, <1>6, <1>7, <1>8 DEF PushInv

\* Every step of the push endpoint keeps the invariant.
LEMMA PushNext == ASSUME PushInv, [PNext]_pvars PROVE PushInv'
<1>1. CASE PTick \/ (\E n \in 0..1 : Maintain(n)) \/ UNCHANGED pvars
  BY Zenon, <1>1, IdleStep
<1>2. CASE Acquire \/ AcceptFails
  BY Zenon, <1>2, AcquireStep, AcceptFailsStep
<1>3. ASSUME NEW t \in Tasks, Accept(t) \/ Close(t) PROVE PushInv'
  BY Zenon, <1>3, AcceptStep, CloseStep
<1>4. ASSUME NEW t \in Tasks, \E body \in Bodies, batch \in Challenges : Post(t, body, batch)
      PROVE  PushInv'
  BY Zenon, <1>4, PostStep
<1>5. ASSUME NEW t \in Tasks, ReadFails(t) \/ ReadBody(t) \/ DoFrame(t) \/ GetPool(t)
      PROVE  PushInv'
  BY Zenon, <1>5, ReadFailsStep, ReadBodyStep, DoFrameStep, GetPoolStep
<1>6. ASSUME NEW t \in Tasks, \E fresh \in Fresh(task[t].tally) : Commit(t, fresh) PROVE PushInv'
  BY Zenon, <1>6, CommitStep
<1>7. ASSUME NEW t \in Tasks, \E n \in 0..1 : Dialled(t, n) PROVE PushInv'
  BY Zenon, <1>7, DialledStep
<1>8. ASSUME NEW t \in Tasks, \E i \in task[t].left, ok \in BOOLEAN : Resolve(t, i, ok)
      PROVE  PushInv'
  BY Zenon, <1>8, ResolveStep
<1>9. ASSUME NEW t \in Tasks, Return(t) \/ Finish(t) PROVE PushInv'
  BY Zenon, <1>9, ReturnStep, FinishStep
<1>10. ASSUME NEW t \in Tasks, \E a \in task[t].uncached : CacheAck(t, a) PROVE PushInv'
  BY Zenon, <1>10, CacheAckStep
<1> QED
  BY Zenon, <1>1, <1>2, <1>3, <1>4, <1>5, <1>6, <1>7, <1>8, <1>9, <1>10 DEF PNext

\* What the invariant says of the lines, the acks and the permits.
LEMMA PushInvServes == ASSUME PushInv PROVE PushServed
<1>1. /\ PTyped /\ RecentOK /\ MeterOK /\ TasksSound /\ PermitsConserved
  BY Zenon DEF PushInv
<1>2. PTypeOK
  <2>1. free \in 0..MaxConns
    <3>1. free \in Nat /\ Cardinality(open) \in Nat /\ MaxConns \in Nat
      BY Zenon, <1>1, FS_CardinalityType, PushAssumption DEF PTyped
    <3> QED
      BY <1>1, <3>1 DEF PermitsConserved
  <2>2. DOMAIN recent.seen \subseteq Addrs \X OwnedBatches
    <3> DEFINE T == Addrs \X OwnedBatches
    <3>1. recent.order \in Seq(T) /\ DOMAIN recent.seen = Range(recent.order)
      BY Zenon, <1>1 DEF RecentOK
    <3> HIDE DEF T
    <3>2. Range(recent.order) \subseteq T
      BY <3>1 DEF Range
    <3> QED
      BY Zenon, <3>1, <3>2 DEF T
  <2>3. \A t \in Tasks : task[t].st \in Stages
    BY Zenon, <1>1 DEF PTyped, TaskType
  <2>4. /\ clock \in 0..MaxClock /\ posts \in 0..MaxPosts /\ looping \in BOOLEAN /\ open \subseteq Tasks
        /\ pool \in 0..PoolTarget
    BY Zenon, <1>1 DEF PTyped
  <2> QED
    BY Zenon, <1>1, <2>1, <2>2, <2>3, <2>4 DEF PTypeOK, Stages, RecentOK, MeterOK
<1>3. EveryFrameAnswered
  <2> SUFFICES ASSUME NEW t \in Tasks, NEW a \in Addrs
               PROVE  /\ task[t].lines[a] <= Cardinality(Posted(task[t], a))
                      /\ task[t].st = "over" /\ Posted(task[t], a) # {} => task[t].lines[a] > 0
    BY Zenon DEF EveryFrameAnswered, Posted
  <2> DEFINE x == task[t]
  <2>1. x \in TaskType /\ Placed(x) /\ Lined(x)
    BY Zenon, <1>1, TaskFacts DEF Sound, PushInv
  <2> HIDE DEF x
  <2>2. Cardinality(Answered(x, a)) <= Cardinality(Posted(x, a))
    BY Zenon, <2>1, FramesFinite
  <2>3. /\ x.lines[a] <= Cardinality(Posted(x, a))
        /\ x.st = "over" /\ Posted(x, a) # {} => x.lines[a] > 0
    BY Zenon, <2>1, <2>2 DEF Lined
  <2> QED
    BY Zenon, <2>3 DEF x
<1>4. DedupWasPushed
  BY Zenon, <1>1 DEF DedupWasPushed, TasksSound, Sound, Acked
<1> QED
  BY Zenon, <1>1, <1>2, <1>3, <1>4 DEF PushServed

\* The push endpoint serves its POSTs (run, run_push): with any number of
\* connections, frames and batches and for every cap, each address of a body
\* that was read is answered, with no more lines than it has frames, an ack from
\* the cache stands for a push of that address under that batch, the caches stay
\* within their caps, and no permit is lost.
THEOREM PushesAreServed == PSpec => []PushServed
<1>1. PInit => PushInv
  BY Zenon, PushInit
<1>2. PushInv /\ [PNext]_pvars => PushInv'
  BY Zenon, PushNext
<1>3. PushInv => PushServed
  BY Zenon, PushInvServes
<1> QED
  BY <1>1, <1>2, <1>3, PTL DEF PSpec

-----------------------------------------------------------------------------
\* Sums over the rows of the meter.

\* A sum, in two parts.
LEMMA SumSplit ==
  ASSUME NEW f, NEW S, IsFiniteSet(S), \A x \in S : f[x] \in Nat, NEW R \in SUBSET S
  PROVE  SumOver(f, S) = SumOver(f, R) + SumOver(f, S \ R)
<1> DEFINE F == {Q \in SUBSET S : R \subseteq Q /\ SumOver(f, Q) # SumOver(f, R) + SumOver(f, Q \ R)}
<1>0. \A Q \in SUBSET S : IsFiniteSet(Q) /\ SumOver(f, Q) \in Nat
  <2> SUFFICES ASSUME NEW Q \in SUBSET S PROVE IsFiniteSet(Q) /\ SumOver(f, Q) \in Nat
    BY Zenon
  <2>1. IsFiniteSet(Q) /\ \A x \in Q : f[x] \in Nat
    BY Zenon, FS_Subset
  <2> QED
    BY Zenon, <2>1, SumNat
<1>1. F = {}
  <2> SUFFICES ASSUME F # {} PROVE FALSE
    BY Zenon
  <2>1. PICK Q \in F : \A x \in Q : Q \ {x} \notin F
    <3> HIDE DEF F
    <3>1. F \subseteq SUBSET S
      BY Zenon DEF F
    <3> QED
      BY <3>1, MinimalSubset, Zenon
  <2>2. /\ Q \in SUBSET S /\ R \subseteq Q /\ Q \ R \in SUBSET S
        /\ SumOver(f, Q) # SumOver(f, R) + SumOver(f, Q \ R)
    BY Zenon
  <2>3. Q # R
    <3> SUFFICES ASSUME Q = R PROVE FALSE
      BY Zenon
    <3>1. Q \ R = {}
      BY Zenon
    <3>2. SumOver(f, Q \ R) = 0
      BY Zenon, <3>1, SumEmpty
    <3>3. SumOver(f, R) \in Nat
      BY Zenon, <1>0
    <3> QED
      BY <2>2, <3>2, <3>3
  <2>4. PICK e \in Q : e \notin R
    BY Zenon, <2>2, <2>3
  <2>5. SumOver(f, Q) = f[e] + SumOver(f, Q \ {e})
    BY <1>0, <2>2, <2>4, SumRemove
  <2>6. SumOver(f, Q \ R) = f[e] + SumOver(f, (Q \ R) \ {e})
    BY <1>0, <2>2, <2>4, SumRemove
  <2>7. (Q \ R) \ {e} = (Q \ {e}) \ R /\ R \subseteq Q \ {e} /\ Q \ {e} \in SUBSET S
    BY Zenon, <2>2, <2>4
  <2>8. SumOver(f, Q \ {e}) = SumOver(f, R) + SumOver(f, (Q \ R) \ {e})
    BY Zenon, <2>1, <2>4, <2>7
  <2>9. /\ SumOver(f, R) \in Nat /\ SumOver(f, Q \ {e}) \in Nat
        /\ SumOver(f, (Q \ R) \ {e}) \in Nat /\ f[e] \in Nat
    BY Zenon, <1>0, <2>2, <2>4, <2>7
  <2> HIDE DEF F
  <2> QED
    BY <2>2, <2>5, <2>6, <2>8, <2>9
<1>2. S \notin F
  BY Zenon, <1>1
<1> QED
  BY Zenon, <1>2

\* The sum of two functions.
LEMMA SumPlus ==
  ASSUME NEW f, NEW g, NEW h, NEW S, IsFiniteSet(S),
         \A x \in S : f[x] \in Nat /\ g[x] \in Nat /\ h[x] = f[x] + g[x]
  PROVE  SumOver(h, S) = SumOver(f, S) + SumOver(g, S)
<1> DEFINE F == {R \in SUBSET S : SumOver(h, R) # SumOver(f, R) + SumOver(g, R)}
<1>0. \A R \in SUBSET S : IsFiniteSet(R) /\ SumOver(f, R) \in Nat /\ SumOver(g, R) \in Nat
  <2> SUFFICES ASSUME NEW R \in SUBSET S
               PROVE  IsFiniteSet(R) /\ SumOver(f, R) \in Nat /\ SumOver(g, R) \in Nat
    BY Zenon
  <2>1. IsFiniteSet(R) /\ \A x \in R : f[x] \in Nat /\ g[x] \in Nat
    BY Zenon, FS_Subset
  <2> QED
    BY Zenon, <2>1, SumNat
<1>1. F = {}
  <2> SUFFICES ASSUME F # {} PROVE FALSE
    BY Zenon
  <2>1. PICK R \in F : \A x \in R : R \ {x} \notin F
    <3> HIDE DEF F
    <3>1. F \subseteq SUBSET S
      BY Zenon DEF F
    <3> QED
      BY <3>1, MinimalSubset, Zenon
  <2>2. R # {}
    BY SumEmpty
  <2>3. Pick(R) \in R /\ Pick(R) \in S
    BY Zenon, <2>2, PickIn
  <2>4. IsFiniteSet(R)
    BY Zenon, FS_Subset
  <2>5. /\ SumOver(f, R) = f[Pick(R)] + SumOver(f, R \ {Pick(R)})
        /\ SumOver(g, R) = g[Pick(R)] + SumOver(g, R \ {Pick(R)})
        /\ SumOver(h, R) = h[Pick(R)] + SumOver(h, R \ {Pick(R)})
    BY Zenon, <2>2, <2>4, SumPick
  <2>6. SumOver(h, R \ {Pick(R)}) = SumOver(f, R \ {Pick(R)}) + SumOver(g, R \ {Pick(R)})
    BY Zenon, <2>1, <2>3
  <2>7. /\ f[Pick(R)] \in Nat /\ g[Pick(R)] \in Nat /\ h[Pick(R)] = f[Pick(R)] + g[Pick(R)]
        /\ SumOver(f, R \ {Pick(R)}) \in Nat /\ SumOver(g, R \ {Pick(R)}) \in Nat
    BY Zenon, <1>0, <2>3
  <2>8. SumOver(h, R) # SumOver(f, R) + SumOver(g, R)
    BY Zenon
  <2> HIDE DEF F
  <2> QED
    BY <2>5, <2>6, <2>7, <2>8
<1>2. S \notin F
  BY Zenon, <1>1
<1> QED
  BY Zenon, <1>2

\* A function that is 0 outside a part of the set.
Padded(f, D, S) == [x \in S |-> IF x \in D THEN f[x] ELSE 0]

\* Extending a function by 0 leaves its sum.
LEMMA SumWithin ==
  ASSUME NEW f, NEW S, IsFiniteSet(S), NEW D \in SUBSET S, \A x \in D : f[x] \in Nat
  PROVE  SumOver(Padded(f, D, S), S) = SumOver(f, D)
<1> DEFINE g == Padded(f, D, S)
<1>0. \A x \in S : g[x] = IF x \in D THEN f[x] ELSE 0
  BY Zenon DEF Padded
<1> HIDE DEF g
<1>1. IsFiniteSet(D) /\ IsFiniteSet(S \ D)
  BY Zenon, FS_Subset
<1>2. \A x \in S : g[x] \in Nat
  <2>1. 0 \in Nat
    OBVIOUS
  <2> QED
    BY Zenon, <1>0, <2>1
<1>3. SumOver(g, S) = SumOver(g, D) + SumOver(g, S \ D)
  BY <1>2, SumSplit
<1>4. SumOver(g, D) = SumOver(f, D)
  BY Zenon, <1>0, <1>1, SumEqual
<1>5. SumOver(g, S \ D) = 0
  <2> DEFINE z == [x \in S \ D |-> 0]
  <2>1. SumOver(z, S \ D) = 0
    BY Zenon, <1>1, SumZero
  <2>2. \A x \in S \ D : g[x] = z[x]
    BY Zenon, <1>0
  <2> HIDE DEF z
  <2>3. SumOver(g, S \ D) = SumOver(z, S \ D)
    BY Zenon, <1>1, <2>2, SumEqual
  <2> QED
    BY Zenon, <2>1, <2>3
<1>6. SumOver(f, D) \in Nat
  BY Zenon, <1>1, SumNat
<1> QED
  BY <1>3, <1>4, <1>5, <1>6 DEF g

\* Two functions are added on the union of their domains, and a part is moved out.
Joined(h, f, D, g, T) ==
  /\ \A x \in D : f[x] \in Nat
  /\ \A x \in T : g[x] \in Nat
  /\ \A x \in D \cup T : h[x] = (IF x \in D THEN f[x] ELSE 0) + (IF x \in T THEN g[x] ELSE 0)

\* The sums of two functions are the sum of what is moved out and what stays.
LEMMA SumMoved ==
  ASSUME NEW D, NEW T, IsFiniteSet(D), IsFiniteSet(T), NEW f, NEW g, NEW h,
         Joined(h, f, D, g, T), NEW R \in SUBSET (D \cup T)
  PROVE  /\ SumOver(h, R) + SumOver(h, (D \cup T) \ R) = SumOver(f, D) + SumOver(g, T)
         /\ SumOver(h, R) \in Nat /\ SumOver(h, (D \cup T) \ R) \in Nat
<1> USE DEF Joined
<1> DEFINE S == D \cup T
           f0 == Padded(f, D, S)
           g0 == Padded(g, T, S)
<1>1. IsFiniteSet(S)
  BY Zenon, FS_Union
<1>2. \A x \in S : f0[x] \in Nat /\ g0[x] \in Nat /\ h[x] = f0[x] + g0[x]
  <2>1. 0 \in Nat
    OBVIOUS
  <2>2. \A x \in S : f0[x] \in Nat /\ g0[x] \in Nat
    BY Zenon, <2>1 DEF Padded
  <2>3. \A x \in S : h[x] = f0[x] + g0[x]
    BY Zenon DEF Padded
  <2> QED
    BY Zenon, <2>2, <2>3
<1>3. SumOver(f0, S) = SumOver(f, D) /\ SumOver(g0, S) = SumOver(g, T)
  <2>1. D \in SUBSET S /\ T \in SUBSET S
    BY Zenon
  <2> HIDE DEF S
  <2>2. SumOver(f0, S) = SumOver(f, D)
    BY SMTT(30), <1>1, <2>1, SumWithin
  <2>3. SumOver(g0, S) = SumOver(g, T)
    BY SMTT(30), <1>1, <2>1, SumWithin
  <2> QED
    BY Zenon, <2>2, <2>3
<1> HIDE DEF f0, g0
<1>5. SumOver(h, S) = SumOver(f0, S) + SumOver(g0, S)
  <2> HIDE DEF S
  <2> QED
    BY <1>1, <1>2, SumPlus
<1>6. \A x \in S : h[x] \in Nat
  <2> HIDE DEF S
  <2> QED
    BY <1>2
<1>7. SumOver(h, S) = SumOver(h, R) + SumOver(h, S \ R)
  <2>1. R \in SUBSET S
    BY Zenon
  <2> HIDE DEF S
  <2> QED
    BY <1>1, <1>6, <2>1, SumSplit
<1>8. SumOver(h, R) \in Nat /\ SumOver(h, S \ R) \in Nat
  <2>1. /\ IsFiniteSet(R) /\ IsFiniteSet(S \ R)
        /\ \A x \in R : h[x] \in Nat
        /\ \A x \in S \ R : h[x] \in Nat
    BY Zenon, <1>1, <1>6, FS_Subset
  <2> HIDE DEF S
  <2> QED
    BY Zenon, <2>1, SumNat
<1>9. SumOver(h, R) + SumOver(h, S \ R) = SumOver(f, D) + SumOver(g, T)
  BY Zenon, <1>3, <1>5, <1>7
<1> QED
  BY Zenon, <1>8, <1>9

-----------------------------------------------------------------------------
\* The meter and the bills.

\* What a challenged POST counts is on the row of its batch, and what of it is
\* not a dedup hit is what it will be billed for.
Priced(x) ==
  x.batch # "none" =>
    /\ DOMAIN x.tally.rows \subseteq {x.batch}
    /\ IF x.batch \in DOMAIN x.tally.rows
       THEN x.tally.rows[x.batch].adm = x.tally.rows[x.batch].ded + x.bytes
       ELSE x.bytes = 0

AllPriced == \A t \in Tasks : Priced(task[t])

RowOK(r) == r.kib \in Nat /\ r.dedup \in Nat /\ r.dedup <= r.kib

\* The sums of the rows M, and what a tally adds to them.
KibSum(M) == SumOver([b \in DOMAIN M |-> M[b].kib], DOMAIN M)
DedSum(M) == SumOver([b \in DOMAIN M |-> M[b].dedup], DOMAIN M)
AddKib(m) == SumOver([b \in DOMAIN m.rows |-> KibOf(m.rows[b]).kib], DOMAIN m.rows)
AddDed(m) == SumOver([b \in DOMAIN m.rows |-> KibOf(m.rows[b]).dedup], DOMAIN m.rows)

\* Nothing that was merged is missing from the rows and the evicted totals.
MeterRows ==
  /\ \A b \in DOMAIN meter.rows : RowOK(meter.rows[b])
  /\ meter.kib \in Nat /\ meter.dedup \in Nat /\ RowOK(merged)
  /\ KibSum(meter.rows) + meter.kib = merged.kib
  /\ DedSum(meter.rows) + meter.dedup = merged.dedup

\* The rounding: up to a KiB for each POST.
Rounded ==
  /\ bills \in [kib : Nat, posts : Nat, open : Nat]
  /\ bills.open = 0 => /\ merged.kib - merged.dedup <= bills.kib
                       /\ bills.kib <= merged.kib - merged.dedup + bills.posts

BillInv == AllPriced /\ MeterRows /\ Rounded

\* KiB, rounded up.
LEMMA KibRounds ==
  ASSUME NEW d \in Nat, NEW n \in Nat
  PROVE  /\ Kib(d) \in Nat /\ Kib(n) \in Nat /\ Kib(d + n) \in Nat /\ Kib(d) <= Kib(d + n)
         /\ Kib(d + n) - Kib(d) <= Kib(n) /\ Kib(n) <= Kib(d + n) - Kib(d) + 1
         /\ Kib(0) = 0
BY DEF Kib

\* A row of a tally in KiB: no more deduplicated than admitted.
LEMMA KibOfOK == ASSUME NEW r \in [adm : Nat, ded : Nat] PROVE RowOK(KibOf(r))
<1> DEFINE a == Kib(r.adm)
           d == Kib(r.ded)
<1>1. r.adm \in Nat /\ r.ded \in Nat
  BY Zenon
<1>2. a \in Nat /\ d \in Nat
  BY Zenon, <1>1, KibRounds
<1> HIDE DEF a, d
<1>3. KibOf(r) = [kib |-> a, dedup |-> IF d < a THEN d ELSE a]
  BY Zenon DEF KibOf, a, d
<1> QED
  BY <1>2, <1>3 DEF RowOK

\* The rows of a queue are finitely many.
LEMMA QueueFinite ==
  ASSUME NEW T, NEW s \in Seq(T) PROVE IsFiniteSet(Range(s))
<1>1. DOMAIN s = 1..Len(s) /\ Len(s) \in Nat /\ s \in [1..Len(s) -> T]
  OBVIOUS
<1>2. IsFiniteSet(1..Len(s))
  BY <1>1, FS_Interval
<1>3. s \in Surjection(1..Len(s), Range(s))
  BY Zenon, <1>1 DEF Surjection, Range
<1> QED
  BY Zenon, <1>2, <1>3, FS_Surjection

\* The rows of a tally, and what it adds.
LEMMA TallySums ==
  ASSUME NEW m \in TallyType, TallyOK(m)
  PROVE  /\ IsFiniteSet(DOMAIN m.rows) /\ \A b \in DOMAIN m.rows : RowOK(KibOf(m.rows[b]))
         /\ AddKib(m) \in Nat /\ AddDed(m) \in Nat /\ AddDed(m) <= AddKib(m)
<1> DEFINE T == DOMAIN m.rows
           k == [b \in T |-> KibOf(m.rows[b]).kib]
           d == [b \in T |-> KibOf(m.rows[b]).dedup]
<1>1. m.rows \in [T -> [adm : Nat, ded : Nat]]
  BY Zenon, PartialFunction DEF TallyType
<1>2. IsFiniteSet(T)
  BY Zenon, QueueFinite DEF TallyType, TallyOK
<1>3. \A b \in T : RowOK(KibOf(m.rows[b]))
  BY Zenon, <1>1, KibOfOK
<1>4. \A b \in T : k[b] \in Nat /\ d[b] \in Nat /\ d[b] <= k[b]
  BY Zenon, <1>3 DEF RowOK
<1>5. SumOver(k, T) = AddKib(m) /\ SumOver(d, T) = AddDed(m)
  BY Zenon DEF AddKib, AddDed
<1> HIDE DEF k, d, T
<1>6. SumOver(k, T) \in Nat /\ SumOver(d, T) \in Nat
  BY Zenon, <1>2, <1>4, SumNat
<1>7. SumOver(d, T) <= SumOver(k, T)
  BY Zenon, <1>2, <1>4, SumMonotone
<1> QED
  BY Zenon, <1>2, <1>3, <1>5, <1>6, <1>7 DEF T

\* The rows the meter has before any leaves.
LEMMA MergedRows ==
  ASSUME NEW r, RowOK(r), NEW s, RowOK(s)
  PROVE  RowOK(Plus(r, s)) /\ Plus(r, s).kib = r.kib + s.kib /\ Plus(r, s).dedup = r.dedup + s.dedup
<1>1. Plus(r, s).kib = r.kib + s.kib /\ Plus(r, s).dedup = r.dedup + s.dedup
  BY Zenon DEF Plus
<1> QED
  BY <1>1 DEF RowOK

\* A merge adds the tally, and what leaves the rows is in the totals.
LEMMA MergeSums ==
  ASSUME MeterOK, MeterRows, NEW m \in TallyType, TallyOK(m), NEW fresh \in Fresh(m)
  PROVE  LET n == Merge(m, fresh)
         IN  /\ \A b \in DOMAIN n.rows : RowOK(n.rows[b])
             /\ n.kib \in Nat /\ n.dedup \in Nat
             /\ KibSum(n.rows) + n.kib = KibSum(meter.rows) + meter.kib + AddKib(m)
             /\ DedSum(n.rows) + n.dedup = DedSum(meter.rows) + meter.dedup + AddDed(m)
<1> DEFINE D == DOMAIN meter.rows
           T == DOMAIN m.rows
           S == D \cup T
           order == meter.order \o fresh
           over == Over(Len(order), RowCap)
           out == Range(SubSeq(order, 1, over))
           rows == [b \in S |->
                      IF b \notin T THEN meter.rows[b]
                      ELSE IF b \notin D THEN KibOf(m.rows[b])
                      ELSE Plus(meter.rows[b], KibOf(m.rows[b]))]
           kept == [b \in S \ out |-> rows[b]]
           hk == [b \in S |-> rows[b].kib]
           hd == [b \in S |-> rows[b].dedup]
           fk == [b \in D |-> meter.rows[b].kib]
           fd == [b \in D |-> meter.rows[b].dedup]
           gk == [b \in T |-> KibOf(m.rows[b]).kib]
           gd == [b \in T |-> KibOf(m.rows[b]).dedup]
           n == Merge(m, fresh)
<1>1. out \in SUBSET S
  BY Zenon, MergeOK
<1>2. DOMAIN rows = S /\ DOMAIN kept = S \ out
  BY Zenon
<1>3. /\ n.rows = kept /\ n.kib = meter.kib + SumOver(hk, out)
      /\ n.dedup = meter.dedup + SumOver(hd, out)
  <2>1. n = [rows |-> kept, order |-> SubSeq(order, over + 1, Len(order)),
             kib |-> meter.kib + SumOver(hk, out), dedup |-> meter.dedup + SumOver(hd, out)]
    BY Zenon DEF Merge
  <2> HIDE DEF kept, hk, hd, out, n, order, over
  <2> QED
    BY Zenon, <2>1
<1> HIDE DEF out, n, order, over
<1>4. /\ IsFiniteSet(D) /\ IsFiniteSet(T)
      /\ \A b \in D : RowOK(meter.rows[b])
      /\ \A b \in T : RowOK(KibOf(m.rows[b]))
  <2>1. IsFiniteSet(D)
    BY Zenon, QueueFinite DEF MeterOK
  <2> QED
    BY Zenon, <2>1, TallySums DEF MeterRows
<1>5. ASSUME NEW b \in S
      PROVE  /\ RowOK(rows[b])
             /\ rows[b].kib = (IF b \in D THEN meter.rows[b].kib ELSE 0)
                                + (IF b \in T THEN KibOf(m.rows[b]).kib ELSE 0)
             /\ rows[b].dedup = (IF b \in D THEN meter.rows[b].dedup ELSE 0)
                                  + (IF b \in T THEN KibOf(m.rows[b]).dedup ELSE 0)
  <2> DEFINE r == meter.rows[b]
             s == KibOf(m.rows[b])
  <2>1. rows[b] = IF b \notin T THEN r ELSE IF b \notin D THEN s ELSE Plus(r, s)
    BY Zenon
  <2>2. (b \in D => RowOK(r)) /\ (b \in T => RowOK(s)) /\ (b \in D \/ b \in T)
    BY Zenon, <1>4
  <2> HIDE DEF r, s, rows, D, T
  <2>3. CASE b \notin T
    <3>1. rows[b] = r /\ RowOK(r) /\ b \in D
      BY Zenon, <2>1, <2>2, <2>3
    <3> QED
      BY <2>3, <3>1 DEF RowOK, r, s
  <2>4. CASE b \in T /\ b \notin D
    <3>1. rows[b] = s /\ RowOK(s)
      BY Zenon, <2>1, <2>2, <2>4
    <3> QED
      BY <2>4, <3>1 DEF RowOK, r, s
  <2>5. CASE b \in T /\ b \in D
    <3>1. rows[b] = Plus(r, s) /\ RowOK(r) /\ RowOK(s)
      BY Zenon, <2>1, <2>2, <2>5
    <3>2. RowOK(Plus(r, s)) /\ Plus(r, s).kib = r.kib + s.kib /\ Plus(r, s).dedup = r.dedup + s.dedup
      BY Zenon, <3>1, MergedRows
    <3> QED
      BY Zenon, <2>5, <3>1, <3>2 DEF r, s
  <2> QED
    BY Zenon, <2>3, <2>4, <2>5
<1>6. \A b \in S : /\ hk[b] = (IF b \in D THEN fk[b] ELSE 0) + (IF b \in T THEN gk[b] ELSE 0)
                   /\ hd[b] = (IF b \in D THEN fd[b] ELSE 0) + (IF b \in T THEN gd[b] ELSE 0)
  <2> HIDE DEF rows
  <2> SUFFICES ASSUME NEW b \in S
               PROVE  /\ hk[b] = (IF b \in D THEN fk[b] ELSE 0) + (IF b \in T THEN gk[b] ELSE 0)
                      /\ hd[b] = (IF b \in D THEN fd[b] ELSE 0) + (IF b \in T THEN gd[b] ELSE 0)
    BY Zenon
  <2>1. /\ hk[b] = rows[b].kib /\ hd[b] = rows[b].dedup
        /\ b \in D => fk[b] = meter.rows[b].kib /\ fd[b] = meter.rows[b].dedup
        /\ b \in T => gk[b] = KibOf(m.rows[b]).kib /\ gd[b] = KibOf(m.rows[b]).dedup
    BY Zenon
  <2> HIDE DEF hk, hd, fk, fd, gk, gd, D, T
  <2> QED
    BY Zenon, <1>5, <2>1
<1>7. /\ \A b \in D : fk[b] \in Nat /\ fd[b] \in Nat
      /\ \A b \in T : gk[b] \in Nat /\ gd[b] \in Nat
  BY Zenon, <1>4 DEF RowOK
<1>8. /\ SumOver(fk, D) = KibSum(meter.rows) /\ SumOver(fd, D) = DedSum(meter.rows)
      /\ SumOver(gk, T) = AddKib(m) /\ SumOver(gd, T) = AddDed(m)
  BY Zenon DEF KibSum, DedSum, AddKib, AddDed
<1> HIDE DEF fk, fd, gk, gd
<1>9. /\ SumOver(hk, out) + SumOver(hk, S \ out) = SumOver(fk, D) + SumOver(gk, T)
      /\ SumOver(hk, out) \in Nat /\ SumOver(hk, S \ out) \in Nat
  <2> HIDE DEF hk, D, T
  <2>1. Joined(hk, fk, D, gk, T)
    BY Zenon, <1>6, <1>7 DEF Joined
  <2> QED
    BY Zenon, <1>1, <1>4, <2>1, SumMoved
<1>10. /\ SumOver(hd, out) + SumOver(hd, S \ out) = SumOver(fd, D) + SumOver(gd, T)
       /\ SumOver(hd, out) \in Nat /\ SumOver(hd, S \ out) \in Nat
  <2> HIDE DEF hd, D, T
  <2>1. Joined(hd, fd, D, gd, T)
    BY Zenon, <1>6, <1>7 DEF Joined
  <2> QED
    BY Zenon, <1>1, <1>4, <2>1, SumMoved
<1>11. KibSum(kept) = SumOver(hk, S \ out) /\ DedSum(kept) = SumOver(hd, S \ out)
  <2> DEFINE kk == [b \in DOMAIN kept |-> kept[b].kib]
             kd == [b \in DOMAIN kept |-> kept[b].dedup]
  <2>1. IsFiniteSet(S \ out)
    <3>1. IsFiniteSet(S)
      BY Zenon, <1>4, FS_Union
    <3> HIDE DEF S
    <3> QED
      BY Zenon, <3>1, FS_Subset
  <2> HIDE DEF rows
  <2>2. \A b \in S \ out : kk[b] = hk[b] /\ kd[b] = hd[b]
    BY Zenon
  <2>3. KibSum(kept) = SumOver(kk, S \ out) /\ DedSum(kept) = SumOver(kd, S \ out)
    BY Zenon, <1>2 DEF KibSum, DedSum
  <2> HIDE DEF kk, kd, hk, hd, S
  <2>4. SumOver(kk, S \ out) = SumOver(hk, S \ out)
    BY Zenon, <2>1, <2>2, SumEqual
  <2>5. SumOver(kd, S \ out) = SumOver(hd, S \ out)
    BY Zenon, <2>1, <2>2, SumEqual
  <2> QED
    BY Zenon, <2>3, <2>4, <2>5
<1>12. \A b \in DOMAIN kept : RowOK(kept[b])
  <2> HIDE DEF rows
  <2> QED
    BY Zenon, <1>5
<1>13. meter.kib \in Nat /\ meter.dedup \in Nat
  BY Zenon DEF MeterRows
<1>14. /\ KibSum(meter.rows) \in Nat /\ DedSum(meter.rows) \in Nat
       /\ AddKib(m) \in Nat /\ AddDed(m) \in Nat
  <2> HIDE DEF D, T
  <2> QED
    BY Zenon, <1>4, <1>7, <1>8, SumNat
<1> HIDE DEF kept, hk, hd, S, D, T
<1>15. n.kib \in Nat /\ KibSum(kept) + n.kib = KibSum(meter.rows) + meter.kib + AddKib(m)
  BY <1>3, <1>8, <1>9, <1>11, <1>13, <1>14
<1>16. n.dedup \in Nat /\ DedSum(kept) + n.dedup = DedSum(meter.rows) + meter.dedup + AddDed(m)
  BY <1>3, <1>8, <1>10, <1>11, <1>13, <1>14
<1> QED
  BY Zenon, <1>3, <1>12, <1>15, <1>16 DEF n

-----------------------------------------------------------------------------
\* A challenged POST's tally: what it adds, less the hits, is its bill but for
\* the rounding.
LEMMA PricedTally ==
  ASSUME NEW x \in TaskType, TallyOK(x.tally), Priced(x), x.batch # "none"
  PROVE  LET billed == Kib(x.bytes)
             added == AddKib(x.tally) - AddDed(x.tally)
         IN  added <= billed /\ billed <= added + 1 /\ billed \in Nat
<1> DEFINE T == DOMAIN x.tally.rows
           b == x.batch
           row == x.tally.rows[b]
           k == [c \in T |-> KibOf(x.tally.rows[c]).kib]
           d == [c \in T |-> KibOf(x.tally.rows[c]).dedup]
<1>1. x.bytes \in Nat /\ x.tally \in TallyType
  BY Zenon DEF TaskType
<1>2. x.tally.rows \in [T -> [adm : Nat, ded : Nat]]
  BY Zenon, <1>1, PartialFunction DEF TallyType
<1>3. /\ T \subseteq {b}
      /\ b \in T => row.adm = row.ded + x.bytes
      /\ b \notin T => x.bytes = 0
  BY Zenon DEF Priced
<1>4. SumOver(k, T) = AddKib(x.tally) /\ SumOver(d, T) = AddDed(x.tally)
  BY Zenon DEF AddKib, AddDed
<1>5. CASE b \notin T
  <2>1. T = {} /\ x.bytes = 0
    BY Zenon, <1>3, <1>5
  <2> HIDE DEF k, d, T
  <2>2. AddKib(x.tally) = 0 /\ AddDed(x.tally) = 0
    BY Zenon, <1>4, <2>1, SumEmpty
  <2>3. Kib(x.bytes) = 0
    BY Zenon, <1>1, <2>1, KibRounds
  <2> QED
    BY <2>2, <2>3
<1>6. CASE b \in T
  <2>1. row \in [adm : Nat, ded : Nat] /\ row.adm = row.ded + x.bytes
    BY Zenon, <1>2, <1>3, <1>6
  <2>2. k[b] = KibOf(row).kib /\ d[b] = KibOf(row).dedup
    BY Zenon, <1>6
  <2>3. RowOK(KibOf(row))
    BY Zenon, <2>1, KibOfOK
  <2>4. T = {b}
    BY Zenon, <1>3, <1>6
  <2> HIDE DEF row, k, d, T
  <2>5. SumOver(k, T) = k[b] /\ SumOver(d, T) = d[b]
    <3>1. IsFiniteSet({}) /\ b \notin {} /\ {} \cup {b} = T
      BY Zenon, <2>4, FS_EmptySet
    <3>2. k[b] \in Nat /\ d[b] \in Nat
      BY Zenon, <2>2, <2>3 DEF RowOK
    <3>3. \A c \in {} \cup {b} : k[c] \in Nat /\ d[c] \in Nat
      BY Zenon, <3>2
    <3>4. SumOver(k, {} \cup {b}) = k[b] + SumOver(k, {})
      BY Zenon, <3>1, <3>3, SumAdd
    <3>5. SumOver(d, {} \cup {b}) = d[b] + SumOver(d, {})
      BY Zenon, <3>1, <3>3, SumAdd
    <3>6. SumOver(k, {}) = 0 /\ SumOver(d, {}) = 0
      BY Zenon, SumEmpty
    <3>7. SumOver(k, T) = k[b] + 0 /\ SumOver(d, T) = d[b] + 0
      BY Zenon, <3>1, <3>4, <3>5, <3>6
    <3> QED
      BY <3>2, <3>7
  <2>6. /\ row.ded \in Nat /\ row.adm \in Nat
    BY Zenon, <2>1
  <2>7. /\ Kib(row.ded) \in Nat /\ Kib(x.bytes) \in Nat /\ Kib(row.ded + x.bytes) \in Nat
        /\ Kib(row.ded) <= Kib(row.ded + x.bytes)
        /\ Kib(row.ded + x.bytes) - Kib(row.ded) <= Kib(x.bytes)
        /\ Kib(x.bytes) <= Kib(row.ded + x.bytes) - Kib(row.ded) + 1
    BY Zenon, <1>1, <2>6, KibRounds
  <2>8. Kib(row.adm) = Kib(row.ded + x.bytes)
    BY Zenon, <2>1
  <2>9. KibOf(row).kib = Kib(row.adm) /\ KibOf(row).dedup = Kib(row.ded)
    BY <2>7, <2>8 DEF KibOf
  <2> QED
    BY Zenon, <1>4, <2>2, <2>5, <2>7, <2>8, <2>9
<1> QED
  BY Zenon, <1>5, <1>6

\* A frame on the tally.
LEMMA FramedPriced ==
  ASSUME PushInv, NEW t \in Tasks, DoFrame(t), Priced(task[t])
  PROVE  Priced(Framed(t))
<1> DEFINE x == task[t]
           f == x.body[x.at]
           n == Size[f.addr]
           line == [x.lines EXCEPT ![f.addr] = @ + 1]
<1>1. x \in TaskType /\ Placed(x) /\ x.at <= Len(x.body) /\ TallyOK(x.tally)
  BY Zenon, TaskFacts DEF DoFrame, Sound
<1>2. x.body \in Seq(Frame) /\ x.at \in Nat /\ x.tally \in TallyType /\ x.bytes \in Nat
  BY Zenon, <1>1 DEF TaskType
<1>3. f \in Frame
  BY <1>1, <1>2 DEF Placed
<1>4. f.addr \in Addrs /\ f.batch \in OwnedBatches \cup {"bad"}
  BY Zenon, <1>3 DEF Frame
<1>5. n \in Nat
  BY Zenon, <1>4, PushAssumption
<1>6. CASE Refused(t, f)
  <2> DEFINE q == [x EXCEPT !.at = x.at + 1, !.lines = line]
  <2>1. Framed(t) = q
    BY Zenon, <1>6 DEF Framed
  <2>2. q.batch = x.batch /\ q.tally = x.tally /\ q.bytes = x.bytes
    BY Zenon, <1>1 DEF TaskType
  <2> HIDE DEF q
  <2>3. Priced(q)
    BY Zenon, <2>2 DEF Priced
  <2> QED
    BY Zenon, <2>1, <2>3
<1>7. CASE ~Refused(t, f)
  <2> DEFINE hit == contains(f.addr, f.batch)
             ded == IF hit THEN n ELSE 0
             m == Tallied(x.tally, f.batch, n, ded)
             old == IF f.batch \in DOMAIN x.tally.rows THEN x.tally.rows[f.batch] ELSE Row(0, 0)
  <2>1. f.batch \in OwnedBatches /\ x.batch \in {"none", f.batch}
    BY Zenon, <1>4, <1>7 DEF Refused
  <2>2. ded \in Nat /\ (hit => ded = n) /\ (~hit => ded = 0)
    BY Zenon, <1>5
  <2>3. /\ DOMAIN m.rows = DOMAIN x.tally.rows \cup {f.batch}
        /\ m.rows[f.batch] = Row(old.adm + n, old.ded + ded)
    <3> DEFINE l == x.tally
               b == f.batch
    <3>1. l \in TallyType /\ TallyOK(l) /\ b \in OwnedBatches /\ n \in Nat /\ ded \in Nat
      BY Zenon, <1>1, <1>2, <1>5, <2>1, <2>2
    <3> HIDE DEF ded, n, l, b
    <3>2. /\ DOMAIN Tallied(l, b, n, ded).rows = DOMAIN l.rows \cup {b}
          /\ LET o == IF b \in DOMAIN l.rows THEN l.rows[b] ELSE Row(0, 0)
             IN  Tallied(l, b, n, ded).rows[b] = Row(o.adm + n, o.ded + ded)
      BY SMTT(30), <3>1, TalliedOK
    <3> QED
      BY Zenon, <3>2 DEF l, b
  <2>4. Framed(t).batch = x.batch /\ Framed(t).tally = m
        /\ Framed(t).bytes = IF hit THEN x.bytes ELSE x.bytes + n
    <3>1. CASE hit
      <4> DEFINE e == x.deduped \cup {<<f.addr, f.batch>>}
                 q == [x EXCEPT !.at = x.at + 1, !.lines = line, !.deduped = e, !.tally = m]
      <4>1. Framed(t) = q
        <5>1. m = TallyDedup(x.tally, f.batch, n)
          BY Zenon, <3>1 DEF TallyDedup
        <5> HIDE DEF m
        <5> QED
          BY Zenon, <1>7, <3>1, <5>1 DEF Framed
      <4> HIDE DEF m
      <4>2. q.batch = x.batch /\ q.tally = m /\ q.bytes = x.bytes
        BY Zenon, <1>1 DEF TaskType
      <4> HIDE DEF q
      <4> QED
        BY Zenon, <3>1, <4>1, <4>2
    <3>2. CASE ~hit
      <4> DEFINE bo == [x.batch_of EXCEPT ![f.addr] = f.batch]
                 q == [x EXCEPT !.at = x.at + 1, !.accepted = x.accepted \cup {x.at},
                                !.left = x.left \cup {x.at}, !.batch_of = bo,
                                !.bytes = x.bytes + n, !.tally = m]
      <4>1. Framed(t) = q
        <5>1. m = Tallied(x.tally, f.batch, n, 0)
          BY Zenon, <3>2
        <5> HIDE DEF m
        <5> QED
          BY Zenon, <1>7, <3>2, <5>1 DEF Framed
      <4> HIDE DEF m
      <4>2. q.batch = x.batch /\ q.tally = m /\ q.bytes = x.bytes + n
        BY Zenon, <1>1 DEF TaskType
      <4> HIDE DEF q
      <4> QED
        BY Zenon, <3>2, <4>1, <4>2
    <3> QED
      BY Zenon, <3>1, <3>2
  <2>5. ASSUME x.batch # "none"
        PROVE  /\ DOMAIN m.rows \subseteq {x.batch} /\ x.batch \in DOMAIN m.rows
               /\ m.rows[x.batch].adm = m.rows[x.batch].ded + Framed(t).bytes
    <3>1. x.batch = f.batch
      BY Zenon, <2>1, <2>5
    <3>2. DOMAIN m.rows = {x.batch}
      <4>1. DOMAIN x.tally.rows \subseteq {x.batch}
        BY Zenon, <2>5 DEF Priced
      <4> HIDE DEF m
      <4> QED
        BY Zenon, <2>3, <3>1, <4>1
    <3>3. old.adm = old.ded + x.bytes /\ old.adm \in Nat /\ old.ded \in Nat
      <4>1. CASE f.batch \in DOMAIN x.tally.rows
        <5>1. x.tally.rows \in [DOMAIN x.tally.rows -> [adm : Nat, ded : Nat]]
          BY Zenon, <1>2, PartialFunction DEF TallyType
        <5>2. x.tally.rows[f.batch] \in [adm : Nat, ded : Nat] /\ old = x.tally.rows[f.batch]
          BY Zenon, <4>1, <5>1
        <5>3. old.adm = old.ded + x.bytes
          BY Zenon, <2>5, <3>1, <4>1, <5>2 DEF Priced
        <5> HIDE DEF old
        <5> QED
          BY Zenon, <5>2, <5>3
      <4>2. CASE f.batch \notin DOMAIN x.tally.rows
        <5>1. old = Row(0, 0) /\ x.bytes = 0
          BY Zenon, <2>5, <3>1, <4>2 DEF Priced
        <5> HIDE DEF old
        <5> QED
          BY <5>1 DEF Row
      <4> QED
        BY Zenon, <4>1, <4>2
    <3> HIDE DEF old, m, ded, n, hit, x, f
    <3>4. m.rows[x.batch] = Row(old.adm + n, old.ded + ded)
      BY Zenon, <2>3, <3>1
    <3>5. m.rows[x.batch].adm = old.adm + n /\ m.rows[x.batch].ded = old.ded + ded
      BY <3>4 DEF Row
    <3>6. old.adm + n = old.ded + ded + Framed(t).bytes
      BY <1>2, <1>5, <2>2, <2>4, <3>3
    <3> QED
      BY Zenon, <3>2, <3>5, <3>6
  <2> HIDE DEF m, x
  <2> QED
    BY Zenon, <2>4, <2>5 DEF Priced
<1> QED
  BY Zenon, <1>6, <1>7

\* One task moves.
LEMMA PricedMoves ==
  ASSUME PushInv, AllPriced, NEW t \in Tasks, NEW q, task' = [task EXCEPT ![t] = q], Priced(q)
  PROVE  AllPriced'
<1>1. task \in [Tasks -> TaskType]
  BY Zenon, TaskFacts
<1>2. ASSUME NEW u \in Tasks PROVE Priced(task'[u])
  <2>1. CASE u = t
    <3>1. task'[u] = q
      BY Zenon, <1>1, <2>1
    <3> QED
      BY Zenon, <3>1
  <2>2. CASE u # t
    <3>1. task'[u] = task[u] /\ Priced(task[u])
      BY Zenon, <1>1, <2>2 DEF AllPriced
    <3> QED
      BY Zenon, <3>1
  <2> QED
    BY Zenon, <2>1, <2>2
<1> QED
  BY Zenon, <1>2 DEF AllPriced

\* A task that keeps its batch, its tally and its bytes.
LEMMA PricedStays ==
  ASSUME PushInv, AllPriced, NEW t \in Tasks, NEW q, task' = [task EXCEPT ![t] = q],
         q.batch = task[t].batch, q.tally = task[t].tally, q.bytes = task[t].bytes
  PROVE  AllPriced'
<1>1. Priced(task[t])
  BY Zenon DEF AllPriced
<1>2. Priced(q)
  BY Zenon, <1>1 DEF Priced
<1> QED
  BY Zenon, <1>2, PricedMoves

\* A task that starts.
LEMMA PricedNew == ASSUME NEW st, NEW body, NEW batch PROVE Priced(NewTask(st, body, batch))
<1> DEFINE q == NewTask(st, body, batch)
<1>1. q.tally = NoTally /\ q.bytes = 0
  BY Zenon DEF NewTask
<1>2. DOMAIN NoTally.rows = {}
  BY Zenon DEF NoTally
<1> HIDE DEF q
<1>3. Priced(q)
  BY Zenon, <1>1, <1>2 DEF Priced
<1> QED
  BY Zenon, <1>3 DEF q

\* Every step keeps the tallies priced.
LEMMA PricedNext == ASSUME PushInv, AllPriced, [PNext]_pvars PROVE AllPriced'
<1>0. \A t \in Tasks : task[t] \in TaskType
  BY Zenon, TaskFacts
<1>1. CASE UNCHANGED task
  BY Zenon, <1>1 DEF AllPriced
<1>2. ASSUME NEW t \in Tasks,
             \/ Accept(t) \/ ReadFails(t)
             \/ \E body \in Bodies, batch \in Challenges : Post(t, body, batch)
      PROVE  AllPriced'
  <2>1. PICK st, body, batch : task' = [task EXCEPT ![t] = NewTask(st, body, batch)]
    BY Zenon, <1>2 DEF Accept, ReadFails, Post, NoTask
  <2> QED
    BY Zenon, <2>1, PricedNew, PricedMoves
<1>3. ASSUME NEW t \in Tasks, Close(t) PROVE AllPriced'
  <2> DEFINE q == IF task[t].st = "reading" THEN NoTask ELSE task[t]
  <2>1. task' = [task EXCEPT ![t] = q]
    BY Zenon, <1>3 DEF Close
  <2>2. Priced(q)
    BY Zenon, PricedNew DEF AllPriced, NoTask
  <2> HIDE DEF q
  <2> QED
    BY Zenon, <2>1, <2>2, PricedMoves
<1>4. ASSUME NEW t \in Tasks, DoFrame(t) PROVE AllPriced'
  <2>1. task' = [task EXCEPT ![t] = Framed(t)]
    BY Zenon, <1>4 DEF DoFrame
  <2>2. Priced(Framed(t))
    BY Zenon, <1>4, FramedPriced DEF AllPriced
  <2> QED
    BY Zenon, <2>1, <2>2, PricedMoves
<1>5. ASSUME NEW t \in Tasks,
             ReadBody(t) \/ GetPool(t) \/ \E fresh \in Fresh(task[t].tally) : Commit(t, fresh)
      PROVE  AllPriced'
  <2> DEFINE q(st) == [task[t] EXCEPT !.st = st]
  <2>1. PICK st : task' = [task EXCEPT ![t] = q(st)]
    BY Zenon, <1>5 DEF ReadBody, GetPool, Commit
  <2>2. /\ q(st).batch = task[t].batch /\ q(st).tally = task[t].tally
        /\ q(st).bytes = task[t].bytes
    BY Zenon, <1>0 DEF TaskType
  <2> HIDE DEF q
  <2> QED
    BY Zenon, <2>1, <2>2, PricedStays
<1>6. ASSUME NEW t \in Tasks, (\E n \in 0..1 : Dialled(t, n)) \/ Finish(t) PROVE AllPriced'
  <2> DEFINE q(st, lines) == [task[t] EXCEPT !.st = st, !.lines = lines]
             p(st) == [task[t] EXCEPT !.st = st]
  <2>1. \/ \E st : task' = [task EXCEPT ![t] = p(st)]
        \/ \E st, lines : task' = [task EXCEPT ![t] = q(st, lines)]
    BY Zenon, <1>6 DEF Dialled, Finish
  <2>2. \A st, lines : /\ q(st, lines).batch = task[t].batch /\ q(st, lines).tally = task[t].tally
                       /\ q(st, lines).bytes = task[t].bytes
                       /\ p(st).batch = task[t].batch /\ p(st).tally = task[t].tally
                       /\ p(st).bytes = task[t].bytes
    BY Zenon, <1>0 DEF TaskType
  <2> HIDE DEF q, p
  <2> QED
    BY Zenon, <2>1, <2>2, PricedStays
<1>7. ASSUME NEW t \in Tasks, \E i \in task[t].left, ok \in BOOLEAN : Resolve(t, i, ok)
      PROVE  AllPriced'
  <2> DEFINE q(left, lines, verdict) == [task[t] EXCEPT !.left = left, !.lines = lines,
                                                        !.verdict = verdict]
  <2>1. PICK left, lines, verdict : task' = [task EXCEPT ![t] = q(left, lines, verdict)]
    BY Zenon, <1>7 DEF Resolve
  <2>2. /\ q(left, lines, verdict).batch = task[t].batch
        /\ q(left, lines, verdict).tally = task[t].tally
        /\ q(left, lines, verdict).bytes = task[t].bytes
    BY Zenon, <1>0 DEF TaskType
  <2> HIDE DEF q
  <2> QED
    BY Zenon, <2>1, <2>2, PricedStays
<1>8. ASSUME NEW t \in Tasks, Return(t) \/ \E a \in task[t].uncached : CacheAck(t, a)
      PROVE  AllPriced'
  <2> DEFINE q(st, acks) == [task[t] EXCEPT !.st = st, !.uncached = acks]
             p(acks) == [task[t] EXCEPT !.uncached = acks]
  <2>1. \/ \E st, acks : task' = [task EXCEPT ![t] = q(st, acks)]
        \/ \E acks : task' = [task EXCEPT ![t] = p(acks)]
    BY Zenon, <1>8 DEF Return, CacheAck
  <2>2. \A st, acks : /\ q(st, acks).batch = task[t].batch /\ q(st, acks).tally = task[t].tally
                      /\ q(st, acks).bytes = task[t].bytes
                      /\ p(acks).batch = task[t].batch /\ p(acks).tally = task[t].tally
                      /\ p(acks).bytes = task[t].bytes
    BY Zenon, <1>0 DEF TaskType
  <2> HIDE DEF q, p
  <2> QED
    BY Zenon, <2>1, <2>2, PricedStays
<1>9. ASSUME PTick \/ Acquire \/ AcceptFails \/ (\E n \in 0..1 : Maintain(n)) \/ UNCHANGED pvars
      PROVE  UNCHANGED task
  BY Zenon, <1>9 DEF PTick, Acquire, AcceptFails, Maintain, pvars
<1> QED
  BY Zenon, <1>1, <1>2, <1>3, <1>4, <1>5, <1>6, <1>7, <1>8, <1>9 DEF PNext

\* A merge and its bill.
LEMMA CommitBills ==
  ASSUME PushInv, BillInv, NEW t \in Tasks, NEW fresh \in Fresh(task[t].tally), Commit(t, fresh)
  PROVE  MeterRows' /\ Rounded'
<1> DEFINE x == task[t]
           m == x.tally
           K == AddKib(m)
           E == AddDed(m)
<1>1. /\ meter' = (IF DOMAIN m.rows = {} THEN meter ELSE Merge(m, fresh))
      /\ merged' = [kib |-> merged.kib + K, dedup |-> merged.dedup + E]
      /\ bills' = (IF x.batch = "none" THEN [bills EXCEPT !.open = @ + 1]
                   ELSE [bills EXCEPT !.kib = @ + Kib(x.bytes), !.posts = @ + 1])
  BY Zenon DEF Commit, AddKib, AddDed
<1>2. x \in TaskType /\ m \in TallyType /\ TallyOK(m) /\ Priced(x) /\ fresh \in Fresh(m)
  BY Zenon, TaskFacts DEF Sound, TaskType, BillInv, AllPriced
<1>3. K \in Nat /\ E \in Nat /\ E <= K
  BY Zenon, <1>2, TallySums
<1>4. MeterOK /\ MeterRows /\ Rounded
  BY Zenon DEF PushInv, BillInv
<1>5. /\ merged.kib \in Nat /\ merged.dedup \in Nat /\ merged.dedup <= merged.kib
      /\ meter.kib \in Nat /\ meter.dedup \in Nat
      /\ KibSum(meter.rows) + meter.kib = merged.kib /\ DedSum(meter.rows) + meter.dedup = merged.dedup
      /\ \A b \in DOMAIN meter.rows : RowOK(meter.rows[b])
  BY Zenon, <1>4 DEF MeterRows, RowOK
<1>6. x.batch # "none" => /\ Kib(x.bytes) \in Nat /\ K - E <= Kib(x.bytes)
                          /\ Kib(x.bytes) <= K - E + 1
  BY Zenon, <1>2, PricedTally
<1>7. DOMAIN m.rows = {} => K = 0 /\ E = 0
  BY Zenon, SumEmpty DEF AddKib, AddDed
<1>8. DOMAIN m.rows # {} =>
        LET n == Merge(m, fresh)
        IN  /\ \A b \in DOMAIN n.rows : RowOK(n.rows[b])
            /\ n.kib \in Nat /\ n.dedup \in Nat
            /\ KibSum(n.rows) + n.kib = KibSum(meter.rows) + meter.kib + K
            /\ DedSum(n.rows) + n.dedup = DedSum(meter.rows) + meter.dedup + E
  BY Zenon, <1>2, <1>4, MergeSums
<1> HIDE DEF K, E, m, x
<1>9. merged'.kib = merged.kib + K /\ merged'.dedup = merged.dedup + E
  BY Zenon, <1>1
<1>10. RowOK(merged')
  BY <1>3, <1>5, <1>9 DEF RowOK
<1>11. MeterRows'
  <2>1. CASE DOMAIN m.rows = {}
    <3>1. meter' = meter /\ merged'.kib = merged.kib /\ merged'.dedup = merged.dedup
      BY <1>1, <1>5, <1>7, <1>9, <2>1
    <3> QED
      BY Zenon, <1>5, <1>10, <3>1 DEF MeterRows
  <2>2. CASE DOMAIN m.rows # {}
    <3> DEFINE n == Merge(m, fresh)
    <3>1. meter' = n
      BY Zenon, <1>1, <2>2
    <3>2. /\ \A b \in DOMAIN n.rows : RowOK(n.rows[b])
          /\ n.kib \in Nat /\ n.dedup \in Nat
          /\ KibSum(n.rows) + n.kib = merged'.kib
          /\ DedSum(n.rows) + n.dedup = merged'.dedup
      BY Zenon, <1>5, <1>8, <1>9, <2>2
    <3> HIDE DEF n
    <3> QED
      BY Zenon, <1>10, <3>1, <3>2 DEF MeterRows
  <2> QED
    BY Zenon, <2>1, <2>2
<1>12. Rounded'
  <2>1. bills \in [kib : Nat, posts : Nat, open : Nat]
    BY Zenon, <1>4 DEF Rounded
  <2>2. bills.kib \in Nat /\ bills.posts \in Nat /\ bills.open \in Nat
    BY Zenon, <2>1
  <2>3. CASE x.batch = "none"
    <3>1. bills' = [bills EXCEPT !.open = bills.open + 1]
      BY Zenon, <1>1, <2>3
    <3>2. bills' \in [kib : Nat, posts : Nat, open : Nat] /\ bills'.open = bills.open + 1
      BY <2>1, <2>2, <3>1
    <3>3. bills'.open # 0
      BY <2>2, <3>2
    <3> QED
      BY Zenon, <3>2, <3>3 DEF Rounded
  <2>4. CASE x.batch # "none"
    <3>1. bills' = [bills EXCEPT !.kib = bills.kib + Kib(x.bytes), !.posts = bills.posts + 1]
      BY Zenon, <1>1, <2>4
    <3>2. /\ bills' \in [kib : Nat, posts : Nat, open : Nat] /\ bills'.open = bills.open
          /\ bills'.kib = bills.kib + Kib(x.bytes) /\ bills'.posts = bills.posts + 1
      <4> DEFINE z == bills.kib + Kib(x.bytes)
                 p == bills.posts + 1
      <4>1. z \in Nat /\ p \in Nat
        BY <1>6, <2>2, <2>4
      <4> HIDE DEF z, p
      <4>2. bills' = [bills EXCEPT !.kib = z, !.posts = p]
        BY Zenon, <3>1 DEF z, p
      <4>3. /\ bills' \in [kib : Nat, posts : Nat, open : Nat] /\ bills'.open = bills.open
            /\ bills'.kib = z /\ bills'.posts = p
        BY Zenon, <2>1, <4>1, <4>2
      <4> QED
        BY Zenon, <4>3 DEF z, p
    <3>3. ASSUME bills.open = 0
          PROVE  /\ merged'.kib - merged'.dedup <= bills'.kib
                 /\ bills'.kib <= merged'.kib - merged'.dedup + bills'.posts
      <4>1. /\ merged.kib - merged.dedup <= bills.kib
            /\ bills.kib <= merged.kib - merged.dedup + bills.posts
        BY Zenon, <1>4, <3>3 DEF Rounded
      <4> QED
        BY <1>3, <1>5, <1>6, <1>9, <2>2, <2>4, <3>2, <4>1
    <3> QED
      BY Zenon, <3>2, <3>3 DEF Rounded
  <2> QED
    BY Zenon, <2>3, <2>4
<1> QED
  BY Zenon, <1>11, <1>12

\* Every step keeps what the meter is worth beside the bills.
LEMMA BillNext == ASSUME PushInv, BillInv, [PNext]_pvars PROVE BillInv'
<1>1. AllPriced'
  BY Zenon, PricedNext DEF BillInv
<1>2. CASE \E t \in Tasks : \E fresh \in Fresh(task[t].tally) : Commit(t, fresh)
  BY Zenon, <1>1, <1>2, CommitBills DEF BillInv
<1>3. CASE ~ \E t \in Tasks : \E fresh \in Fresh(task[t].tally) : Commit(t, fresh)
  <2>1. meter' = meter /\ merged' = merged /\ bills' = bills
    BY Zenon, <1>3 DEF PNext, PTick, Acquire, AcceptFails, Accept, Close, Post, ReadFails, ReadBody,
       DoFrame, GetPool, Dialled, Resolve, Return, Finish, CacheAck, Maintain, pvars, caches, history
  <2>2. MeterRows'
    BY Zenon, <2>1 DEF BillInv, MeterRows
  <2>3. Rounded'
    BY Zenon, <2>1 DEF BillInv, Rounded
  <2> QED
    BY Zenon, <1>1, <2>2, <2>3 DEF BillInv
<1> QED
  BY Zenon, <1>2, <1>3

\* Nothing is metered and nothing is billed when the relay starts.
LEMMA BillInit == ASSUME PInit PROVE BillInv
<1>1. /\ task = [t \in Tasks |-> NoTask]
      /\ meter = [rows |-> [b \in {} |-> 0], order |-> <<>>, kib |-> 0, dedup |-> 0]
      /\ merged = [kib |-> 0, dedup |-> 0] /\ bills = [kib |-> 0, posts |-> 0, open |-> 0]
  BY Zenon DEF PInit
<1>2. AllPriced
  BY Zenon, <1>1, PricedNew DEF AllPriced, NoTask
<1>3. /\ DOMAIN meter.rows = {} /\ meter.kib = 0 /\ meter.dedup = 0
      /\ merged.kib = 0 /\ merged.dedup = 0
  BY Zenon, <1>1
<1>4. KibSum(meter.rows) = 0 /\ DedSum(meter.rows) = 0
  BY Zenon, <1>3, SumEmpty DEF KibSum, DedSum
<1>5. MeterRows
  BY <1>3, <1>4 DEF MeterRows, RowOK
<1>6. Rounded
  <2>1. bills \in [kib : Nat, posts : Nat, open : Nat] /\ bills.kib = 0 /\ bills.posts = 0
    BY Zenon, <1>1
  <2> QED
    BY <1>3, <2>1 DEF Rounded
<1> QED
  BY Zenon, <1>2, <1>5, <1>6 DEF BillInv

\* What the invariant says of the report.
LEMMA BillInvTracks == ASSUME PushInv, BillInv PROVE ShadowTracksBill
<1> DEFINE D == DOMAIN meter.rows
           k == [b \in D |-> meter.rows[b].kib]
           d == [b \in D |-> meter.rows[b].dedup]
<1>1. LiveKib = KibSum(meter.rows) /\ LiveDedup = DedSum(meter.rows)
  BY Zenon DEF LiveKib, LiveDedup, KibSum, DedSum
<1>2. /\ meter.kib \in Nat /\ meter.dedup \in Nat /\ \A b \in D : RowOK(meter.rows[b])
      /\ merged.kib \in Nat /\ merged.dedup \in Nat /\ merged.dedup <= merged.kib
      /\ LiveKib + meter.kib = merged.kib /\ LiveDedup + meter.dedup = merged.dedup
  BY Zenon, <1>1 DEF BillInv, MeterRows, RowOK
<1>3. LiveKib \in Nat /\ LiveDedup \in Nat /\ LiveDedup <= LiveKib
  <2>1. IsFiniteSet(D)
    BY Zenon, QueueFinite DEF PushInv, MeterOK
  <2>2. \A b \in D : k[b] \in Nat /\ d[b] \in Nat /\ d[b] <= k[b]
    BY Zenon, <1>2 DEF RowOK
  <2>3. LiveKib = SumOver(k, D) /\ LiveDedup = SumOver(d, D)
    BY Zenon DEF LiveKib, LiveDedup
  <2> HIDE DEF k, d, D
  <2>4. SumOver(k, D) \in Nat /\ SumOver(d, D) \in Nat
    BY Zenon, <2>1, <2>2, SumNat
  <2>5. SumOver(d, D) <= SumOver(k, D)
    BY Zenon, <2>1, <2>2, SumMonotone
  <2> QED
    BY Zenon, <2>3, <2>4, <2>5
<1> HIDE DEF D, k, d
<1>4. kib_admitted = merged.kib /\ kib_dedup = merged.dedup
  BY <1>2, <1>3 DEF kib_admitted, kib_dedup
<1>5. billable = merged.kib - merged.dedup
  BY <1>2, <1>4 DEF billable
<1>6. bills.open = 0 => /\ merged.kib - merged.dedup <= bills.kib
                        /\ bills.kib <= merged.kib - merged.dedup + bills.posts
  BY Zenon DEF BillInv, Rounded
<1> QED
  BY Zenon, <1>4, <1>5, <1>6 DEF ShadowTracksBill, MeterConserves

\* The shadow meter (Meter::merge, summary) prices what the ledger bills:
\* whatever the caps and however many rows were evicted, its totals are those of
\* everything merged, and with every POST challenged it reports what was billed
\* but for the rounding.
THEOREM ShadowMeterTracks == PSpec => []ShadowTracksBill
<1>1. PInit => PushInv /\ BillInv
  BY Zenon, PushInit, BillInit
<1>2. PushInv /\ BillInv /\ [PNext]_pvars => PushInv' /\ BillInv'
  BY Zenon, PushNext, BillNext
<1>3. PushInv /\ BillInv => ShadowTracksBill
  BY Zenon, BillInvTracks
<1> QED
  BY <1>1, <1>2, <1>3, PTL DEF PSpec

=============================================================================
