---------------------------- MODULE PacingProofs ----------------------------
(***************************************************************************)
(* Proofs about what paces a push: the scheduler and the rate limiters.    *)
(*                                                                         *)
(* PushSched, for any number of chunks, lanes, batches, any capacities and *)
(* any attempt, hedge and backoff limits.                                  *)
(*                                                                         *)
(* Limiters, for every rate, burst, cost, capacity and budget of the       *)
(* callers: the inbound limiter never gives budget away, and the dialler's *)
(* slots are spaced.                                                       *)
(***************************************************************************)
EXTENDS PushSched, Limiters, FiniteSetTheorems, TLAPS

-----------------------------------------------------------------------------
\* The scheduler.

USE SetsAssumption, ConfigAssumption

\* A set of chunks has a natural number of elements: the counters that grow
\* by a cardinality stay natural numbers.
LEMMA ChunkSets ==
  ASSUME NEW S \in SUBSET Chunks
  PROVE  IsFiniteSet(S) /\ Cardinality(S) \in Nat
BY Zenon, FS_Subset, FS_CardinalityType

-----------------------------------------------------------------------------
\* A POST is sized in whole frames, and its picks are numbers of frames.
LEMMA PickType ==
  ASSUME NEW h, NEW l, NEW pick \in Picks(BatchSize(h, l))
  PROVE  pick \in [Chunks -> Nat]
BY DEF Picks, BatchSize

\* Expiring backoffs leaves every lane with a health.
LEMMA ExpireType ==
  ASSUME TypeOK, NEW expired
  PROVE  Expire(expired) \in [Lanes -> LaneHealth]
BY Zenon DEF TypeOK, Expire, LaneHealth

\* A dispatch leaves the bookkeeping of POSTs, slots and carriers well typed.
LEMMA DispatchType ==
  ASSUME TypeOK, NEW h \in [Lanes -> LaneHealth], NEW l \in Lanes,
         NEW b \in BatchIds, NEW pick \in [Chunks -> Nat], Dispatch(h, l, b, pick)
  PROVE  /\ outstanding' \in [BatchIds -> Lanes \cup {NoLane}]
         /\ frames' \in [BatchIds -> [Chunks -> Nat]]
         /\ unacked' \in [BatchIds -> [Chunks -> Nat]]
         /\ on' \in [Chunks -> SUBSET Lanes]
         /\ inflight' \in [Lanes -> Nat]
         /\ health' \in [Lanes -> LaneHealth]
BY DEF TypeOK, Dispatch, TakeSlot

\* An ack line takes one frame off the frames still to be answered.
LEMMA AckSeenType ==
  ASSUME TypeOK, NEW b \in BatchIds, NEW c \in Chunks, AckSeen(b, c)
  PROVE  /\ outstanding' \in [BatchIds -> Lanes \cup {NoLane}]
         /\ frames' \in [BatchIds -> [Chunks -> Nat]]
         /\ unacked' \in [BatchIds -> [Chunks -> Nat]]
         /\ outstanding[b] \in Lanes
BY DEF TypeOK, AckSeen

\* Setting a lane's health, streak and backoff keeps the lanes well typed.
LEMMA SetLaneType ==
  ASSUME TypeOK, NEW l \in Lanes, NEW STATE h, NEW STATE s, NEW STATE e,
         h \in LaneHealth, s \in Nat, e \in Nat, SetLane(l, h, s, e)
  PROVE  /\ health' \in [Lanes -> LaneHealth]
         /\ failStreak' \in [Lanes -> Nat]
         /\ backoffExp' \in [Lanes -> Nat]
BY Zenon DEF TypeOK, SetLane

\* Every outcome of a batch leaves its lane with a health and two counters.
LEMMA LaneAfterType ==
  ASSUME TypeOK, NEW l \in Lanes, NEW outcome, NEW STATE good,
         LaneAfter(l, outcome, good)
  PROVE  /\ health' \in [Lanes -> LaneHealth]
         /\ failStreak' \in [Lanes -> Nat]
         /\ backoffExp' \in [Lanes -> Nat]
<1>1. CASE outcome = "Answered" /\ good
  <2>1. SetLane(l, "Live", 0, 0)
    BY Zenon, <1>1 DEF LaneAfter
  <2> QED
    BY <2>1, SetLaneType DEF LaneHealth
<1>2. CASE outcome = "PaymentRequired"
  <2>1. SetLane(l, "Unfunded", failStreak[l], backoffExp[l])
    BY Zenon, <1>2 DEF LaneAfter
  <2>2. failStreak[l] \in Nat /\ backoffExp[l] \in Nat
    BY Zenon DEF TypeOK
  <2> QED
    BY <2>1, <2>2, SetLaneType DEF LaneHealth
<1>3. CASE ~(outcome = "Answered" /\ good) /\ outcome # "PaymentRequired"
  <2>1. LaneFailed(l)
    BY Zenon, <1>3 DEF LaneAfter
  <2>2. failStreak[l] \in Nat /\ backoffExp[l] \in Nat /\ health[l] \in LaneHealth
    BY Zenon DEF TypeOK
  <2> QED
    BY <2>1, <2>2, SetLaneType DEF LaneFailed, LaneHealth
<1> QED
  BY Zenon, <1>1, <1>2, <1>3

-----------------------------------------------------------------------------
\* Every action of the scheduler preserves the types of its state.
LEMMA TypeStep ==
  ASSUME TypeOK, [Next]_vars
  PROVE  TypeOK'
<1>1. ASSUME NEW S \in SUBSET Chunks, Admit(S)
      PROVE  TypeOK'
  BY <1>1 DEF TypeOK, Admit, Queue, ChunkPhase, laneVars, batchVars, countVars
<1>2. ASSUME NEW g \in Groups, AdmitGroup(g)
      PROVE  TypeOK'
  BY <1>2 DEF TypeOK, AdmitGroup, Queue, ChunkPhase, laneVars, batchVars, countVars
<1>3. ASSUME NEW l \in Lanes, RetireLane(l)
      PROVE  TypeOK'
  BY Zenon, <1>3 DEF TypeOK, RetireLane, LaneHealth, chunkVars, batchVars, countVars
<1>4. ASSUME NEW expired \in SUBSET BackedOff, NextNone(expired)
      PROVE  TypeOK'
  BY Zenon, <1>4, ExpireType DEF TypeOK, NextNone, chunkVars, batchVars, countVars
<1>5. ASSUME NEW expired \in SUBSET BackedOff, NEW l \in Lanes, NEW b \in BatchIds,
             NEW pick \in Picks(BatchSize(Expire(expired), l)),
             NextAssign(expired, l, b, pick)
      PROVE  TypeOK'
  <2>1. pick \in [Chunks -> Nat] /\ Expire(expired) \in [Lanes -> LaneHealth]
    BY Zenon, <1>5, PickType, ExpireType
  <2>2. Dispatch(Expire(expired), l, b, pick)
    BY Zenon, <1>5 DEF NextAssign
  <2>3. /\ phase' \in [Chunks -> ChunkPhase]
        /\ attempts' \in [Chunks -> Nat]
        /\ pending' \in [Chunks -> Nat]
    BY <1>5, <2>1 DEF NextAssign, TypeOK, ChunkPhase
  <2>4. UNCHANGED <<hedged, hedgesUsed, failStreak, backoffExp, served, acked,
                    failed, skipped, groupAcked, refusals>>
    BY Zenon, <1>5, <2>2 DEF NextAssign, Dispatch
  <2> QED
    BY Zenon, <2>1, <2>2, <2>3, <2>4, DispatchType DEF TypeOK
<1>6. ASSUME NEW expired \in SUBSET BackedOff, NEW l \in Lanes, NEW b \in BatchIds,
             NEW S \in SUBSET Chunks, NextHedge(expired, l, b, S)
      PROVE  TypeOK'
  <2> DEFINE pick == [c \in Chunks |-> IF c \in S THEN 1 ELSE 0]
  <2>1. pick \in [Chunks -> Nat] /\ Expire(expired) \in [Lanes -> LaneHealth]
    BY Zenon, ExpireType
  <2>2. Dispatch(Expire(expired), l, b, pick)
    BY Zenon, <1>6 DEF NextHedge
  <2>3. hedgesUsed' \in Nat
    <3>1. Cardinality(S) \in Nat
      BY Zenon, ChunkSets
    <3>2. hedgesUsed' = hedgesUsed + Cardinality(S)
      BY Zenon, <1>6 DEF NextHedge
    <3> QED
      BY <3>1, <3>2 DEF TypeOK
  <2>4. hedged' \in [Chunks -> BOOLEAN]
    BY Zenon, <1>6 DEF NextHedge, TypeOK
  <2>5. UNCHANGED <<phase, attempts, pending, failStreak, backoffExp, served,
                    acked, failed, skipped, groupAcked, refusals>>
    BY Zenon, <1>6, <2>2 DEF NextHedge, Dispatch
  <2> HIDE DEF pick
  <2> QED
    BY Zenon, <2>1, <2>2, <2>3, <2>4, <2>5, DispatchType DEF TypeOK
<1>7. ASSUME NEW b \in BatchIds, NEW c \in Chunks, AckIgnored(b, c)
      PROVE  TypeOK'
  BY Zenon, <1>7, AckSeenType DEF TypeOK, AckIgnored, chunkVars, laneVars, countVars
<1>8. ASSUME NEW b \in BatchIds, NEW c \in Chunks, AckOk(b, c)
      PROVE  TypeOK'
  <2>1. AckSeen(b, c)
    BY Zenon, <1>8 DEF AckOk
  <2>2. skipped' \in Nat
    <3>1. GroupRest(c) \in SUBSET Chunks
      BY Zenon DEF GroupRest
    <3> QED
      BY SMTT(60), <3>1, <1>8, ChunkSets DEF AckOk, TypeOK
  <2>3. groupAcked' \in [Groups -> Nat]
    BY <1>8 DEF AckOk, TypeOK, Grouped
  <2>4. /\ phase' \in [Chunks -> ChunkPhase]
        /\ on' \in [Chunks -> SUBSET Lanes]
        /\ pending' \in [Chunks -> Nat]
        /\ acked' \in Nat
    BY <1>8 DEF AckOk, TypeOK, ChunkPhase
  <2>5. served' \in [Lanes -> BOOLEAN]
    BY Zenon, <1>8 DEF AckOk, TypeOK
  <2>6. UNCHANGED <<attempts, hedged, health, failStreak, backoffExp, inflight,
                    hedgesUsed, failed, refusals>>
    BY Zenon, <1>8 DEF AckOk
  <2> QED
    BY Zenon, <2>1, <2>2, <2>3, <2>4, <2>5, <2>6, AckSeenType DEF TypeOK
<1>9. ASSUME NEW b \in BatchIds, NEW c \in Chunks, AckErr(b, c)
      PROVE  TypeOK'
  <2>1. AckSeen(b, c)
    BY Zenon, <1>9 DEF AckErr
  <2>2. /\ phase' \in [Chunks -> ChunkPhase]
        /\ on' \in [Chunks -> SUBSET Lanes]
        /\ pending' \in [Chunks -> Nat]
        /\ failed' \in Nat
    BY <1>9 DEF AckErr, TypeOK, ChunkPhase
  <2>3. hedged' \in [Chunks -> BOOLEAN]
    BY Zenon, <1>9 DEF AckErr, TypeOK
  <2>4. UNCHANGED <<attempts, laneVars, hedgesUsed, acked, skipped, groupAcked,
                    refusals>>
    BY Zenon, <1>9 DEF AckErr
  <2> QED
    BY Zenon, <2>1, <2>2, <2>3, <2>4, AckSeenType DEF TypeOK, laneVars
<1>10. ASSUME NEW b \in BatchIds, NEW outcome \in Outcomes, BatchResult(b, outcome)
       PROVE  TypeOK'
  <2>1. outstanding[b] \in Lanes
    BY Zenon, <1>10 DEF BatchResult, TypeOK
  <2>2. LaneAfter(outstanding[b], outcome, \E c \in Members(b) : phase[c] = "Done")
    BY Zenon, <1>10 DEF BatchResult
  <2>3. attempts' \in [Chunks -> Nat]
    BY SMTT(30), <1>10 DEF BatchResult, AttemptsAfter, TypeOK
  <2>4. /\ phase' \in [Chunks -> ChunkPhase]
        /\ on' \in [Chunks -> SUBSET Lanes]
        /\ pending' \in [Chunks -> Nat]
    <3> DEFINE dead == {c \in Dropped(b) : AttemptsAfter(b, outcome)[c] >= MaxAttempts}
               back == {c \in Dropped(b) \ dead : phase[c] # "Pending"}
    <3>1. /\ phase' = [c \in Chunks |-> IF c \in dead THEN "Failed"
                                        ELSE IF c \in back THEN "Pending" ELSE phase[c]]
          /\ pending' = [c \in Chunks |->
                           IF c \in back THEN pending[c] + 1 ELSE pending[c]]
      BY Zenon, <1>10 DEF BatchResult
    <3>2. on' = [c \in Chunks |-> IF c \in Members(b) /\ phase[c] \notin Resolved
                                  THEN on[c] \ {outstanding[b]} ELSE on[c]]
      BY Zenon, <1>10 DEF BatchResult
    <3> HIDE DEF dead, back
    <3>3. phase' \in [Chunks -> ChunkPhase]
      BY Zenon, <3>1 DEF TypeOK, ChunkPhase
    <3>4. pending' \in [Chunks -> Nat]
      BY <3>1 DEF TypeOK
    <3>5. on' \in [Chunks -> SUBSET Lanes]
      BY Zenon, <3>2 DEF TypeOK
    <3> QED
      BY Zenon, <3>3, <3>4, <3>5
  <2>5. hedged' \in [Chunks -> BOOLEAN]
    BY Zenon, <1>10 DEF BatchResult, TypeOK
  <2>6. failed' \in Nat
    <3> DEFINE given == {c \in {k \in Dropped(b) :
                                  AttemptsAfter(b, outcome)[k] >= MaxAttempts} :
                           phase[c] # "Failed"}
    <3>1. given \in SUBSET Chunks
      BY Zenon DEF Dropped, Members
    <3>2. failed' = failed + Cardinality(given)
      BY Zenon, <1>10 DEF BatchResult
    <3> QED
      BY <3>1, <3>2, ChunkSets DEF TypeOK
  <2>7. /\ outstanding' \in [BatchIds -> Lanes \cup {NoLane}]
        /\ frames' \in [BatchIds -> [Chunks -> Nat]]
        /\ unacked' \in [BatchIds -> [Chunks -> Nat]]
        /\ inflight' \in [Lanes -> Nat]
        /\ refusals' \in Nat
    <3>1. /\ outstanding' = [outstanding EXCEPT ![b] = NoLane]
          /\ frames' = [frames EXCEPT ![b] = NoFrames]
          /\ unacked' = [unacked EXCEPT ![b] = NoFrames]
          /\ ReleaseSlot(outstanding[b])
          /\ refusals' = IF outcome = "PaymentRequired" THEN refusals + 1 ELSE refusals
      BY Zenon, <1>10 DEF BatchResult
    <3>2. NoFrames \in [Chunks -> Nat]
      BY Zenon DEF NoFrames
    <3>3. inflight' \in [Lanes -> Nat]
      BY <2>1, <3>1 DEF ReleaseSlot, TypeOK
    <3>4. refusals' \in Nat
      BY <3>1 DEF TypeOK
    <3>5. outstanding' \in [BatchIds -> Lanes \cup {NoLane}]
      BY Zenon, <3>1 DEF TypeOK
    <3>6. /\ frames' \in [BatchIds -> [Chunks -> Nat]]
          /\ unacked' \in [BatchIds -> [Chunks -> Nat]]
      BY Zenon, <3>1, <3>2 DEF TypeOK
    <3> QED
      BY Zenon, <3>3, <3>4, <3>5, <3>6
  <2>8. UNCHANGED <<served, hedgesUsed, acked, skipped, groupAcked>>
    BY Zenon, <1>10 DEF BatchResult
  <2> QED
    BY Zenon, <2>1, <2>2, <2>3, <2>4, <2>5, <2>6, <2>7, <2>8, LaneAfterType DEF TypeOK
<1>11. ASSUME NEW l \in Lanes, FundLane(l)
       PROVE  TypeOK'
  BY Zenon, <1>11 DEF TypeOK, FundLane, LaneHealth, chunkVars, batchVars, countVars
<1>12. CASE UNCHANGED vars
  BY Zenon, <1>12 DEF TypeOK, vars, chunkVars, laneVars, batchVars, countVars
<1> QED
  BY Zenon, <1>1, <1>2, <1>3, <1>4, <1>5, <1>6, <1>7, <1>8, <1>9, <1>10, <1>11, <1>12
  DEF Next, NextCall, Ack, Result

\* Type correctness of the scheduler (the state of pushsched.rs).
THEOREM Typing == Spec => []TypeOK
<1>1. Init => TypeOK
  BY DEF Init, TypeOK, ChunkPhase, LaneHealth, NoFrames
<1> QED
  BY <1>1, TypeStep, PTL DEF Spec

-----------------------------------------------------------------------------
\* The concurrency accounting of a lane: dispatch takes a slot, the batch's
\* single result gives it back.

\* A dispatch on a free batch id adds one batch and one slot to its lane.
LEMMA TakeSlotCounts ==
  ASSUME TypeOK, InflightCountsBatches, NEW l \in Lanes, NEW b \in BatchIds,
         outstanding[b] = NoLane, outstanding' = [outstanding EXCEPT ![b] = l],
         TakeSlot(l)
  PROVE  InflightCountsBatches'
<1> SUFFICES ASSUME NEW k \in Lanes
             PROVE  inflight'[k] = Cardinality({x \in BatchIds : outstanding'[x] = k})
  BY Zenon DEF InflightCountsBatches
<1> DEFINE old == {x \in BatchIds : outstanding[x] = k}
           new == {x \in BatchIds : outstanding'[x] = k}
<1>1. inflight[k] = Cardinality(old)
  BY Zenon DEF InflightCountsBatches
<1>2. CASE k = l
  <2>1. new = old \cup {b} /\ b \notin old
    BY <1>2 DEF TypeOK
  <2>2. IsFiniteSet(old)
    BY Zenon, FS_Subset
  <2>3. Cardinality(new) = Cardinality(old) + 1
    BY Zenon, <2>1, <2>2, FS_AddElement
  <2>4. inflight'[k] = inflight[k] + 1
    BY Zenon, <1>2 DEF TakeSlot, TypeOK
  <2> QED
    BY Zenon, <1>1, <2>3, <2>4
<1>3. CASE k # l
  <2>1. new = old
    BY Zenon, <1>3 DEF TypeOK
  <2>2. inflight'[k] = inflight[k]
    BY Zenon, <1>3 DEF TakeSlot, TypeOK
  <2> QED
    BY Zenon, <1>1, <2>1, <2>2
<1> QED
  BY Zenon, <1>2, <1>3

\* A result removes one batch and one slot from its lane.
LEMMA ReleaseSlotCounts ==
  ASSUME TypeOK, InflightCountsBatches, NEW b \in BatchIds, outstanding[b] # NoLane,
         outstanding' = [outstanding EXCEPT ![b] = NoLane], ReleaseSlot(outstanding[b])
  PROVE  InflightCountsBatches'
<1> SUFFICES ASSUME NEW k \in Lanes
             PROVE  inflight'[k] = Cardinality({x \in BatchIds : outstanding'[x] = k})
  BY Zenon DEF InflightCountsBatches
<1> DEFINE old == {x \in BatchIds : outstanding[x] = k}
           new == {x \in BatchIds : outstanding'[x] = k}
<1>1. inflight[k] = Cardinality(old)
  BY Zenon DEF InflightCountsBatches
<1>2. CASE k = outstanding[b]
  <2>1. new = old \ {b} /\ b \in old
    BY Zenon, <1>2 DEF TypeOK
  <2>2. IsFiniteSet(old)
    BY Zenon, FS_Subset
  <2>3. Cardinality(new) = Cardinality(old) - 1
    <3> HIDE DEF old, new
    <3>1. Cardinality(old \ {b}) = Cardinality(old) - 1
      BY Zenon, <2>1, <2>2, FS_RemoveElement
    <3> QED
      BY Zenon, <2>1, <3>1
  <2>4. Cardinality(old) # 0
    BY Zenon, <2>1, <2>2, FS_EmptySet
  <2>5. inflight'[k] = inflight[k] - 1
    BY Zenon, <1>1, <1>2, <2>4 DEF ReleaseSlot, TypeOK
  <2> QED
    BY Zenon, <1>1, <2>3, <2>5
<1>3. CASE k # outstanding[b]
  <2>1. new = old
    BY Zenon, <1>3 DEF TypeOK
  <2>2. inflight'[k] = inflight[k]
    BY Zenon, <1>3 DEF ReleaseSlot, TypeOK
  <2> QED
    BY <1>1, <2>1, <2>2, SMTT(60)
<1> QED
  BY Zenon, <1>2, <1>3

\* Steps that touch no chunk, no batch's carriers and no counter but a lane's
\* health: retire_lane, fund_lane, a next() that returns None, an ack of a
\* resolved chunk, and stuttering.
Quiet ==
  \/ \E l \in Lanes : RetireLane(l) \/ FundLane(l)
  \/ \E expired \in SUBSET BackedOff : NextNone(expired)
  \/ \E b \in BatchIds, c \in Chunks : AckIgnored(b, c)
  \/ UNCHANGED vars

\* What a quiet step leaves alone.
LEMMA QuietFrame ==
  ASSUME Quiet
  PROVE  UNCHANGED <<phase, pending, on, outstanding, frames, inflight, acked,
                     failed, skipped>>
<1>1. ASSUME NEW l \in Lanes, RetireLane(l)
      PROVE  UNCHANGED <<phase, pending, on, outstanding, frames, inflight, acked,
                         failed, skipped>>
  BY Zenon, <1>1 DEF RetireLane, chunkVars, batchVars, countVars
<1>2. ASSUME NEW l \in Lanes, FundLane(l)
      PROVE  UNCHANGED <<phase, pending, on, outstanding, frames, inflight, acked,
                         failed, skipped>>
  BY Zenon, <1>2 DEF FundLane, chunkVars, batchVars, countVars
<1>3. ASSUME NEW expired \in SUBSET BackedOff, NextNone(expired)
      PROVE  UNCHANGED <<phase, pending, on, outstanding, frames, inflight, acked,
                         failed, skipped>>
  BY Zenon, <1>3 DEF NextNone, chunkVars, batchVars, countVars
<1>4. ASSUME NEW b \in BatchIds, NEW c \in Chunks, AckIgnored(b, c)
      PROVE  UNCHANGED <<phase, pending, on, outstanding, frames, inflight, acked,
                         failed, skipped>>
  BY Zenon, <1>4 DEF AckIgnored, AckSeen, chunkVars, laneVars, countVars
<1>5. ASSUME UNCHANGED vars
      PROVE  UNCHANGED <<phase, pending, on, outstanding, frames, inflight, acked,
                         failed, skipped>>
  BY Zenon, <1>5 DEF vars, chunkVars, laneVars, batchVars, countVars
<1> QED
  BY Zenon, <1>1, <1>2, <1>3, <1>4, <1>5 DEF Quiet

\* A hedge moves no chunk between phases and counts nothing.
LEMMA HedgeFrame ==
  ASSUME NEW expired, NEW l, NEW b, NEW S, NextHedge(expired, l, b, S)
  PROVE  UNCHANGED <<phase, acked, failed, skipped>>
BY Zenon DEF NextHedge, Dispatch, countVars

\* Admission and acks leave the batches and the slots alone.
LEMMA SlotFrame ==
  ASSUME \/ \E S : Queue(S)
         \/ \E b, c : AckOk(b, c) \/ AckErr(b, c)
  PROVE  UNCHANGED <<outstanding, inflight>>
<1>1. ASSUME NEW S, Queue(S)
      PROVE  UNCHANGED <<outstanding, inflight>>
  BY Zenon, <1>1 DEF Queue, laneVars, batchVars
<1>2. ASSUME NEW b, NEW c, AckOk(b, c)
      PROVE  UNCHANGED <<outstanding, inflight>>
  BY Zenon, <1>2 DEF AckOk, AckSeen, laneVars
<1>3. ASSUME NEW b, NEW c, AckErr(b, c)
      PROVE  UNCHANGED <<outstanding, inflight>>
  BY Zenon, <1>3 DEF AckErr, AckSeen, laneVars
<1> QED
  BY Zenon, <1>1, <1>2, <1>3

\* No other step touches the batches or the slots.
LEMMA InflightStep ==
  ASSUME TypeOK, InflightCountsBatches, [Next]_vars
  PROVE  InflightCountsBatches'
<1>1. ASSUME UNCHANGED <<outstanding, inflight>>
      PROVE  InflightCountsBatches'
  BY Zenon, <1>1 DEF InflightCountsBatches
<1>2. ASSUME NEW expired \in SUBSET BackedOff, NEW l \in Lanes, NEW b \in BatchIds,
             NEW pick, NextAssign(expired, l, b, pick)
      PROVE  InflightCountsBatches'
  BY Zenon, <1>2, TakeSlotCounts DEF NextAssign, Dispatch
<1>3. ASSUME NEW expired \in SUBSET BackedOff, NEW l \in Lanes, NEW b \in BatchIds,
             NEW S \in SUBSET Chunks, NextHedge(expired, l, b, S)
      PROVE  InflightCountsBatches'
  BY Zenon, <1>3, TakeSlotCounts DEF NextHedge, Dispatch
<1>4. ASSUME NEW b \in BatchIds, NEW outcome \in Outcomes, BatchResult(b, outcome)
      PROVE  InflightCountsBatches'
  BY Zenon, <1>4, ReleaseSlotCounts DEF BatchResult
<1>5. ASSUME Quiet
      PROVE  InflightCountsBatches'
  BY Zenon, <1>1, <1>5, QuietFrame
<1>6. ASSUME \/ \E S : Queue(S)
             \/ \E b, c : AckOk(b, c) \/ AckErr(b, c)
      PROVE  InflightCountsBatches'
  BY Zenon, <1>1, <1>6, SlotFrame
<1> QED
  BY Zenon, <1>2, <1>3, <1>4, <1>5, <1>6
  DEF Next, NextCall, Ack, Result, Admit, AdmitGroup, Quiet

\* For every number of lanes, batches and any concurrency limits, a lane's
\* POST counter is the number of its outstanding batches (pushsched.rs
\* dispatch and on_batch_result), so its saturating decrement never
\* saturates and its limit is the limit on real POSTs.
THEOREM InflightExact == Spec => []InflightCountsBatches
<1>1. Init => InflightCountsBatches
  <2> SUFFICES ASSUME Init, NEW l \in Lanes
               PROVE  inflight[l] = Cardinality({b \in BatchIds : outstanding[b] = l})
    BY Zenon DEF InflightCountsBatches
  <2>1. {b \in BatchIds : outstanding[b] = l} = {} /\ inflight[l] = 0
    BY Zenon DEF Init
  <2> QED
    BY Zenon, <2>1, FS_EmptySet
<1> QED
  BY <1>1, Typing, InflightStep, PTL DEF Spec

-----------------------------------------------------------------------------
\* No chunk is lost.  NothingLost is not inductive: a chunk that is acked,
\* given up or skipped must also have been taken off every lane, or the ack
\* that queues it again would leave it with a carrier.

OnlyInFlightCarried == \A c \in Chunks : phase[c] # "InFlight" => on[c] = {}

LostInv == TypeOK /\ NothingLost /\ OnlyInFlightCarried

\* What LostInv says of one chunk, before and after a step.
LEMMA LostChunk ==
  ASSUME LostInv, NEW c \in Chunks
  PROVE  /\ phase[c] = "Pending" => pending[c] > 0 /\ on[c] = {}
         /\ phase[c] = "InFlight" => on[c] # {}
         /\ phase[c] # "InFlight" => on[c] = {}
         /\ pending[c] \in Nat /\ on[c] \in SUBSET Lanes
BY DEF LostInv, NothingLost, OnlyInFlightCarried, TypeOK

\* A step that adds no carrier and leaves the batches alone keeps both
\* invariants if it keeps them for each chunk.
LEMMA LostPerChunk ==
  ASSUME LostInv, UNCHANGED <<outstanding, frames>>,
         \A c \in Chunks :
           /\ on'[c] \subseteq on[c]
           /\ phase'[c] = "Pending" => pending'[c] > 0 /\ on'[c] = {}
           /\ phase'[c] = "InFlight" => on'[c] # {}
           /\ phase'[c] # "InFlight" => on'[c] = {}
  PROVE  NothingLost' /\ OnlyInFlightCarried'
<1>1. ASSUME NEW c \in Chunks, NEW l \in on'[c]
      PROVE  \E b \in BatchIds : outstanding'[b] = l /\ frames'[b][c] > 0
  <2>1. l \in on[c]
    BY Zenon, <1>1
  <2>2. PICK b \in BatchIds : outstanding[b] = l /\ frames[b][c] > 0
    BY Zenon, <2>1 DEF LostInv, NothingLost
  <2> QED
    BY Zenon, <2>2
<1> QED
  BY Zenon, <1>1 DEF NothingLost, OnlyInFlightCarried

\* Newly admitted chunks are queued, and no lane carries them.
LEMMA QueueLosesNothing ==
  ASSUME LostInv, NEW S \in SUBSET Chunks, S \cap Admitted = {}, Queue(S)
  PROVE  NothingLost' /\ OnlyInFlightCarried'
<1>1. /\ phase' = [c \in Chunks |-> IF c \in S THEN "Pending" ELSE phase[c]]
      /\ pending' = [c \in Chunks |-> IF c \in S THEN pending[c] + 1 ELSE pending[c]]
      /\ UNCHANGED <<on, outstanding, frames>>
  BY Zenon DEF Queue, batchVars
<1>2. ASSUME NEW c \in Chunks
      PROVE  /\ on'[c] \subseteq on[c]
             /\ phase'[c] = "Pending" => pending'[c] > 0 /\ on'[c] = {}
             /\ phase'[c] = "InFlight" => on'[c] # {}
             /\ phase'[c] # "InFlight" => on'[c] = {}
  <2>1. c \in S => phase[c] = "Absent"
    BY Zenon DEF Admitted
  <2>2. /\ phase'[c] = IF c \in S THEN "Pending" ELSE phase[c]
        /\ pending'[c] = IF c \in S THEN pending[c] + 1 ELSE pending[c]
        /\ on'[c] = on[c]
    BY Zenon, <1>1
  <2> QED
    BY <2>1, <2>2, LostChunk
<1> QED
  BY Zenon, <1>1, <1>2, LostPerChunk

\* A dispatch adds a carrier whose batch holds the chunk, and disturbs no
\* other batch: the id it takes was free.
LEMMA DispatchCarries ==
  ASSUME LostInv, NEW h, NEW l \in Lanes, NEW b \in BatchIds,
         NEW pick \in [Chunks -> Nat], Dispatch(h, l, b, pick), NEW c \in Chunks
  PROVE  /\ \A k \in on'[c] : \E x \in BatchIds : outstanding'[x] = k /\ frames'[x][c] > 0
         /\ pick[c] > 0 => on'[c] # {}
         /\ ~(pick[c] > 0) => on'[c] = on[c]
<1>1. ASSUME NEW k \in on'[c]
      PROVE  \E x \in BatchIds : outstanding'[x] = k /\ frames'[x][c] > 0
  <2>1. CASE k \in on[c]
    <3>1. PICK x \in BatchIds : outstanding[x] = k /\ frames[x][c] > 0
      BY Zenon, <2>1 DEF LostInv, NothingLost
    <3>2. x # b
      BY Zenon, <2>1, <3>1 DEF Dispatch, LostInv, TypeOK
    <3> QED
      BY Zenon, <3>1, <3>2 DEF Dispatch, LostInv, TypeOK
  <2>2. CASE k = l /\ pick[c] > 0
    BY Zenon, <2>2 DEF Dispatch, LostInv, TypeOK
  <2> QED
    BY Zenon, <1>1, <2>1, <2>2 DEF Dispatch
<1> QED
  BY Zenon, <1>1 DEF Dispatch

\* The end of a batch takes its lane off the chunks it held; the other
\* carriers of a chunk have batches of their own.
LEMMA ResultCarries ==
  ASSUME LostInv, NEW b \in BatchIds, NEW outcome \in Outcomes, BatchResult(b, outcome),
         NEW c \in Chunks, NEW k \in on'[c]
  PROVE  \E x \in BatchIds : outstanding'[x] = k /\ frames'[x][c] > 0
<1>1. k \in on[c]
  BY Zenon DEF BatchResult
<1>2. PICK x \in BatchIds : outstanding[x] = k /\ frames[x][c] > 0
  BY Zenon, <1>1 DEF LostInv, NothingLost
<1>3. phase[c] = "InFlight"
  BY Zenon, <1>1 DEF LostInv, OnlyInFlightCarried
<1>4. x # b
  BY Zenon, <1>2, <1>3 DEF BatchResult, Members, Resolved, LostInv, TypeOK
<1>5. /\ outstanding' = [outstanding EXCEPT ![b] = NoLane]
      /\ frames' = [frames EXCEPT ![b] = NoFrames]
  BY Zenon DEF BatchResult
<1> QED
  BY Zenon, <1>2, <1>4, <1>5 DEF LostInv, TypeOK

\* Every member of the batch is queued, given up, resolved or still carried.
LEMMA ResultLosesNothing ==
  ASSUME LostInv, NEW b \in BatchIds, NEW outcome \in Outcomes, BatchResult(b, outcome)
  PROVE  NothingLost' /\ OnlyInFlightCarried'
<1> DEFINE left == AttemptsAfter(b, outcome)
           dead == {c \in Dropped(b) : left[c] >= MaxAttempts}
           back == {c \in Dropped(b) \ dead : phase[c] # "Pending"}
<1>1. /\ on' = [c \in Chunks |-> IF c \in Members(b) /\ phase[c] \notin Resolved
                                 THEN on[c] \ {outstanding[b]} ELSE on[c]]
      /\ phase' = [c \in Chunks |-> IF c \in dead THEN "Failed"
                                    ELSE IF c \in back THEN "Pending" ELSE phase[c]]
      /\ pending' = [c \in Chunks |-> IF c \in back THEN pending[c] + 1 ELSE pending[c]]
  BY Zenon DEF BatchResult
<1> HIDE DEF left
<1>2. ASSUME NEW c \in Chunks
      PROVE  /\ phase'[c] = "Pending" => pending'[c] > 0 /\ on'[c] = {}
             /\ phase'[c] = "InFlight" => on'[c] # {}
             /\ phase'[c] # "InFlight" => on'[c] = {}
  <2>0. /\ phase[c] = "Pending" => pending[c] > 0 /\ on[c] = {}
        /\ phase[c] = "InFlight" => on[c] # {}
        /\ phase[c] # "InFlight" => on[c] = {}
        /\ pending[c] \in Nat
    BY Zenon DEF LostInv, NothingLost, OnlyInFlightCarried, TypeOK
  <2>1. CASE c \in Dropped(b)
    <3>1. on'[c] = {}
      BY Zenon, <1>1, <2>1 DEF Dropped, Members
    <3>2. c \in dead \/ c \in back \/ phase[c] = "Pending"
      BY Zenon, <2>1
    <3>3. /\ phase'[c] = IF c \in dead THEN "Failed"
                         ELSE IF c \in back THEN "Pending" ELSE phase[c]
          /\ pending'[c] = IF c \in back THEN pending[c] + 1 ELSE pending[c]
      BY Zenon, <1>1
    <3> HIDE DEF dead, back
    <3>4. phase'[c] # "InFlight" /\ (phase'[c] = "Pending" => pending'[c] > 0)
      BY SMTT(30), <2>0, <3>2, <3>3
    <3> QED
      BY Zenon, <3>1, <3>4
  <2>2. CASE c \notin Dropped(b)
    <3>1. phase'[c] = phase[c] /\ pending'[c] = pending[c]
      BY Zenon, <1>1, <2>2
    <3>2. phase[c] = "InFlight" => on'[c] # {}
      BY Zenon, <1>1, <2>0, <2>2 DEF Dropped, Members
    <3>3. on'[c] \subseteq on[c]
      BY Zenon, <1>1
    <3> QED
      BY Zenon, <2>0, <3>1, <3>2, <3>3
  <2> QED
    BY Zenon, <2>1, <2>2
<1> QED
  BY Zenon, <1>2, ResultCarries DEF NothingLost, OnlyInFlightCarried

\* Every action of the scheduler preserves LostInv.
LEMMA LostStep ==
  ASSUME LostInv, [Next]_vars
  PROVE  LostInv'
<1>1. TypeOK'
  BY Zenon, TypeStep DEF LostInv
<1> SUFFICES NothingLost' /\ OnlyInFlightCarried'
  BY Zenon, <1>1 DEF LostInv
<1>2. ASSUME NEW S \in SUBSET Chunks, Admit(S)
      PROVE  NothingLost' /\ OnlyInFlightCarried'
  BY Zenon, <1>2, QueueLosesNothing DEF Admit
<1>3. ASSUME NEW g \in Groups, AdmitGroup(g)
      PROVE  NothingLost' /\ OnlyInFlightCarried'
  BY Zenon, <1>3, QueueLosesNothing DEF AdmitGroup
<1>4. ASSUME NEW expired \in SUBSET BackedOff, NEW l \in Lanes, NEW b \in BatchIds,
             NEW pick \in Picks(BatchSize(Expire(expired), l)),
             NextAssign(expired, l, b, pick)
      PROVE  NothingLost' /\ OnlyInFlightCarried'
  <2>1. pick \in [Chunks -> Nat]
    BY Zenon, PickType
  <2>2. /\ Dispatch(Expire(expired), l, b, pick)
        /\ phase' = [c \in Chunks |-> IF pick[c] > 0 THEN "InFlight" ELSE phase[c]]
        /\ pending' = [c \in Chunks |->
                         IF phase'[c] = "Pending" THEN pending[c] ELSE 0]
    BY Zenon, <1>4 DEF NextAssign
  <2>3. ASSUME NEW c \in Chunks
        PROVE  /\ phase'[c] = "Pending" => pending'[c] > 0 /\ on'[c] = {}
               /\ phase'[c] = "InFlight" => on'[c] # {}
               /\ phase'[c] # "InFlight" => on'[c] = {}
    BY Zenon, <2>1, <2>2, DispatchCarries DEF LostInv, NothingLost, OnlyInFlightCarried
  <2> QED
    BY Zenon, <2>1, <2>2, <2>3, DispatchCarries DEF NothingLost, OnlyInFlightCarried
<1>5. ASSUME NEW expired \in SUBSET BackedOff, NEW l \in Lanes, NEW b \in BatchIds,
             NEW S \in SUBSET Chunks, NextHedge(expired, l, b, S)
      PROVE  NothingLost' /\ OnlyInFlightCarried'
  <2> DEFINE pick == [c \in Chunks |-> IF c \in S THEN 1 ELSE 0]
  <2>1. /\ pick \in [Chunks -> Nat]
        /\ Dispatch(Expire(expired), l, b, pick)
        /\ phase' = phase /\ pending' = pending
        /\ \A c \in Chunks : pick[c] > 0 => phase[c] = "InFlight"
    <3>1. pick \in [Chunks -> Nat]
      BY Zenon
    <3>2. /\ Dispatch(Expire(expired), l, b, pick)
          /\ phase' = phase /\ pending' = pending
      BY Zenon, <1>5 DEF NextHedge
    <3>3. \A c \in S : phase[c] = "InFlight"
      BY Zenon, <1>5 DEF NextHedge, Straggler
    <3>4. \A c \in Chunks : pick[c] > 0 => c \in S
      OBVIOUS
    <3> QED
      BY Zenon, <3>1, <3>2, <3>3, <3>4
  <2> HIDE DEF pick
  <2>2. ASSUME NEW c \in Chunks
        PROVE  /\ phase'[c] = "Pending" => pending'[c] > 0 /\ on'[c] = {}
               /\ phase'[c] = "InFlight" => on'[c] # {}
               /\ phase'[c] # "InFlight" => on'[c] = {}
    BY ZenonT(60), <2>1, DispatchCarries DEF LostInv, NothingLost, OnlyInFlightCarried
  <2> QED
    BY Zenon, <2>1, <2>2, DispatchCarries DEF NothingLost, OnlyInFlightCarried
<1>6. ASSUME NEW b \in BatchIds, NEW c \in Chunks, AckOk(b, c)
      PROVE  NothingLost' /\ OnlyInFlightCarried'
  <2>1. /\ phase' = [k \in Chunks |->
                       IF k = c THEN "Done"
                       ELSE IF k \in GroupRest(c) THEN "Skipped" ELSE phase[k]]
        /\ on' = [on EXCEPT ![c] = {}]
        /\ pending' = [k \in Chunks |->
                         IF Completes(c) /\ phase'[k] # "Pending" THEN 0 ELSE pending[k]]
        /\ UNCHANGED <<outstanding, frames>>
    BY Zenon, <1>6 DEF AckOk, AckSeen
  <2>2. ASSUME NEW k \in Chunks
        PROVE  /\ on'[k] \subseteq on[k]
               /\ phase'[k] = "Pending" => pending'[k] > 0 /\ on'[k] = {}
               /\ phase'[k] = "InFlight" => on'[k] # {}
               /\ phase'[k] # "InFlight" => on'[k] = {}
    <3>1. k \in GroupRest(c) => phase[k] = "Pending"
      BY Zenon DEF GroupRest
    <3>2. /\ phase'[k] = IF k = c THEN "Done"
                         ELSE IF k \in GroupRest(c) THEN "Skipped" ELSE phase[k]
          /\ phase'[k] = "Pending" => pending'[k] = pending[k]
      BY Zenon, <2>1
    <3>3. on'[k] = IF k = c THEN {} ELSE on[k]
      BY Zenon, <2>1 DEF LostInv, TypeOK
    <3> QED
      BY Zenon, <3>1, <3>2, <3>3, LostChunk
  <2> QED
    BY Zenon, <2>1, <2>2, LostPerChunk
<1>7. ASSUME NEW b \in BatchIds, NEW c \in Chunks, AckErr(b, c)
      PROVE  NothingLost' /\ OnlyInFlightCarried'
  <2> DEFINE rest == on[c] \ {outstanding[b]}
             giveUp == rest = {} /\ attempts[c] >= MaxAttempts
             requeue == rest = {} /\ attempts[c] < MaxAttempts
  <2>1. /\ on' = [on EXCEPT ![c] = rest]
        /\ phase' = [phase EXCEPT ![c] = IF giveUp THEN "Failed"
                                         ELSE IF requeue THEN "Pending" ELSE @]
        /\ pending' = [pending EXCEPT ![c] = IF requeue THEN @ + 1 ELSE @]
        /\ UNCHANGED <<outstanding, frames>>
    BY Zenon, <1>7 DEF AckErr, AckSeen
  <2>2. rest = {} <=> giveUp \/ requeue
    BY DEF LostInv, TypeOK
  <2>3. rest \subseteq on[c]
    BY Zenon
  <2> HIDE DEF rest, giveUp, requeue
  <2>4. ASSUME NEW k \in Chunks
        PROVE  /\ on'[k] = IF k = c THEN rest ELSE on[k]
               /\ phase'[k] = IF k # c THEN phase[k] ELSE IF giveUp THEN "Failed"
                              ELSE IF requeue THEN "Pending" ELSE phase[c]
               /\ pending'[k] = IF k = c /\ requeue THEN pending[k] + 1 ELSE pending[k]
    BY Zenon, <2>1 DEF LostInv, TypeOK
  <2>5. ASSUME NEW k \in Chunks
        PROVE  /\ on'[k] \subseteq on[k]
               /\ phase'[k] = "Pending" => pending'[k] > 0 /\ on'[k] = {}
               /\ phase'[k] = "InFlight" => on'[k] # {}
               /\ phase'[k] # "InFlight" => on'[k] = {}
    BY <2>2, <2>3, <2>4, LostChunk DEF requeue, giveUp
  <2> QED
    BY Zenon, <2>1, <2>5, LostPerChunk
<1>8. ASSUME NEW b \in BatchIds, NEW outcome \in Outcomes, BatchResult(b, outcome)
      PROVE  NothingLost' /\ OnlyInFlightCarried'
  BY Zenon, <1>8, ResultLosesNothing
<1>9. ASSUME UNCHANGED <<phase, pending, on, outstanding, frames>>
      PROVE  NothingLost' /\ OnlyInFlightCarried'
  BY Zenon, <1>9 DEF LostInv, NothingLost, OnlyInFlightCarried
<1>10. ASSUME Quiet
       PROVE  NothingLost' /\ OnlyInFlightCarried'
  <2>1. UNCHANGED <<phase, pending, on, outstanding, frames>>
    BY Zenon, <1>10, QuietFrame
  <2> QED
    BY Zenon, <2>1 DEF LostInv, NothingLost, OnlyInFlightCarried
<1> QED
  BY Zenon, <1>2, <1>3, <1>4, <1>5, <1>6, <1>7, <1>8, <1>9, <1>10
  DEF Next, NextCall, Ack, Result, Quiet

\* A pending chunk is queued and a chunk in flight is in an outstanding batch
\* of every lane it is on (pushsched.rs next, on_ack and on_batch_result),
\* whatever the interleaving of acks, results, hedges and refusals.
THEOREM NoChunkLost == Spec => []NothingLost
<1>1. Init => LostInv
  BY DEF Init, LostInv, TypeOK, NothingLost, OnlyInFlightCarried, NoFrames,
         ChunkPhase, LaneHealth
<1>2. LostInv => NothingLost
  BY Zenon DEF LostInv
<1> QED
  BY <1>1, <1>2, LostStep, PTL DEF Spec

-----------------------------------------------------------------------------
\* A chunk acked or skipped stays so (the early returns of on_ack and
\* on_batch_result), in every run.
THEOREM ResolutionIsFinal == Spec => ResolvedForGood
<1>1. ASSUME LostInv, [Next]_vars, NEW c \in Chunks, phase[c] \in Resolved
      PROVE  phase'[c] = phase[c]
  <2>1. ASSUME NEW S \in SUBSET Chunks, S \cap Admitted = {}, Queue(S)
        PROVE  phase'[c] = phase[c]
    BY Zenon, <1>1, <2>1 DEF Queue, Admitted, Resolved
  <2>2. ASSUME NEW expired \in SUBSET BackedOff, NEW l \in Lanes, NEW b \in BatchIds,
               NEW pick, NextAssign(expired, l, b, pick)
        PROVE  phase'[c] = phase[c]
    <3>1. /\ phase'[c] = IF pick[c] > 0 THEN "InFlight" ELSE phase[c]
          /\ pick[c] > 0 => phase[c] = "Pending"
      BY Zenon, <1>1, <2>2 DEF NextAssign, Queued
    <3> QED
      BY Zenon, <1>1, <3>1 DEF Resolved
  <2>3. ASSUME NEW b \in BatchIds, NEW k \in Chunks, AckOk(b, k) \/ AckErr(b, k)
        PROVE  phase'[c] = phase[c]
    <3>1. phase[k] \notin Resolved /\ k # c
      BY Zenon, <1>1, <2>3 DEF AckOk, AckErr
    <3>2. CASE AckOk(b, k)
      <4>1. phase'[c] = IF c = k THEN "Done"
                        ELSE IF c \in GroupRest(k) THEN "Skipped" ELSE phase[c]
        BY Zenon, <3>2 DEF AckOk
      <4>2. c \notin GroupRest(k)
        BY Zenon, <1>1 DEF GroupRest, Resolved
      <4> QED
        BY Zenon, <3>1, <4>1, <4>2
    <3>3. CASE AckErr(b, k)
      <4>1. \E p : phase' = [phase EXCEPT ![k] = p]
        BY Zenon, <3>3 DEF AckErr
      <4> QED
        BY Zenon, <3>1, <4>1, <1>1 DEF LostInv, TypeOK
    <3> QED
      BY Zenon, <2>3, <3>2, <3>3
  <2>4. ASSUME NEW b \in BatchIds, NEW outcome \in Outcomes, BatchResult(b, outcome)
        PROVE  phase'[c] = phase[c]
    BY Zenon, <1>1, <2>4 DEF BatchResult, Dropped
  <2>5. ASSUME Quiet
        PROVE  phase' = phase
    BY Zenon, <2>5, QuietFrame
  <2>6. ASSUME NEW expired \in SUBSET BackedOff, NEW l \in Lanes, NEW b \in BatchIds,
               NEW S \in SUBSET Chunks, NextHedge(expired, l, b, S)
        PROVE  phase' = phase
    BY Zenon, <2>6, HedgeFrame
  <2> QED
    BY Zenon, <1>1, <2>1, <2>2, <2>3, <2>4, <2>5, <2>6
    DEF Next, NextCall, Ack, Result, Admit, AdmitGroup, Quiet
<1>2. LostInv /\ [Next]_vars
        => [\A c \in Chunks : phase[c] \in Resolved => phase'[c] = phase[c]]_vars
  BY Zenon, <1>1
<1>3. Init => LostInv
  BY DEF Init, LostInv, TypeOK, NothingLost, OnlyInFlightCarried, NoFrames,
         ChunkPhase, LaneHealth
<1> QED
  BY <1>2, <1>3, LostStep, PTL DEF Spec, ResolvedForGood

-----------------------------------------------------------------------------
\* The counters behind done() and the driver's verdict.

InPhase(p) == {c \in Chunks : phase[c] = p}

\* The size of a union of chunk sets, exact when they are disjoint.
LEMMA UnionSize ==
  ASSUME NEW S \in SUBSET Chunks, NEW T \in SUBSET Chunks
  PROVE  /\ Cardinality(S \cup T) <= Cardinality(S) + Cardinality(T)
         /\ S \cap T = {} => Cardinality(S \cup T) = Cardinality(S) + Cardinality(T)
<1>1. IsFiniteSet(S) /\ IsFiniteSet(T) /\ IsFiniteSet(S \cap T)
  BY Zenon, ChunkSets
<1>2. Cardinality(S \cup T) =
        Cardinality(S) + Cardinality(T) - Cardinality(S \cap T)
  BY Zenon, <1>1, FS_Union
<1>3. /\ Cardinality(S) \in Nat /\ Cardinality(T) \in Nat
      /\ Cardinality(S \cap T) \in Nat
  BY Zenon, ChunkSets
<1>4. S \cap T = {} => Cardinality(S \cap T) = 0
  BY Zenon, FS_EmptySet
<1> QED
  BY <1>2, <1>3, <1>4

\* Acks and skips are counted where a chunk becomes Done or Skipped, and
\* nowhere else.
LEMMA CountStep ==
  ASSUME LostInv, AcksCountedOnce, [Next]_vars
  PROVE  AcksCountedOnce'
<1>1. ASSUME acked' = acked, skipped' = skipped,
             InPhase("Done")' = InPhase("Done"), InPhase("Skipped")' = InPhase("Skipped")
      PROVE  AcksCountedOnce'
  BY <1>1, Zenon DEF AcksCountedOnce, InPhase
<1>2. ASSUME NEW b \in BatchIds, NEW c \in Chunks, AckOk(b, c)
      PROVE  AcksCountedOnce'
  <2>1. /\ InPhase("Done")' = InPhase("Done") \cup {c}
        /\ InPhase("Done") \cap {c} = {}
        /\ InPhase("Skipped")' = InPhase("Skipped") \cup GroupRest(c)
        /\ InPhase("Skipped") \cap GroupRest(c) = {}
    <3>1. /\ phase' = [k \in Chunks |->
                         IF k = c THEN "Done"
                         ELSE IF k \in GroupRest(c) THEN "Skipped" ELSE phase[k]]
          /\ phase[c] \notin Resolved
      BY Zenon, <1>2 DEF AckOk
    <3>2. \A k \in GroupRest(c) : k \in Chunks \ {c} /\ phase[k] = "Pending"
      BY Zenon DEF GroupRest
    <3> QED
      BY Zenon, <3>1, <3>2 DEF InPhase, Resolved
  <2>2. /\ InPhase("Done") \in SUBSET Chunks /\ {c} \in SUBSET Chunks
        /\ InPhase("Skipped") \in SUBSET Chunks /\ GroupRest(c) \in SUBSET Chunks
    BY Zenon DEF InPhase, GroupRest
  <2>3. Cardinality({c}) = 1
    BY Zenon, FS_Singleton
  <2>4. Cardinality(InPhase("Done")') = Cardinality(InPhase("Done")) + 1
    BY Zenon, <2>1, <2>2, <2>3, UnionSize
  <2>5. Cardinality(InPhase("Skipped")') =
          Cardinality(InPhase("Skipped")) + Cardinality(GroupRest(c))
    BY Zenon, <2>1, <2>2, UnionSize
  <2>6. acked' = acked + 1 /\ skipped' = skipped + Cardinality(GroupRest(c))
    BY Zenon, <1>2 DEF AckOk
  <2> QED
    BY Zenon, <2>4, <2>5, <2>6 DEF AcksCountedOnce, InPhase
<1>3. ASSUME NEW S \in SUBSET Chunks, S \cap Admitted = {}, Queue(S)
      PROVE  AcksCountedOnce'
  BY Zenon, <1>1, <1>3 DEF Queue, Admitted, InPhase, countVars
<1>4. ASSUME NEW expired \in SUBSET BackedOff, NEW l \in Lanes, NEW b \in BatchIds,
             NEW pick, NextAssign(expired, l, b, pick)
      PROVE  AcksCountedOnce'
  BY Zenon, <1>1, <1>4 DEF NextAssign, Dispatch, Queued, InPhase
<1>5. ASSUME NEW b \in BatchIds, NEW c \in Chunks, AckErr(b, c)
      PROVE  AcksCountedOnce'
  BY Zenon, <1>1, <1>5 DEF AckErr, InPhase, Resolved, LostInv, TypeOK
<1>6. ASSUME NEW b \in BatchIds, NEW outcome \in Outcomes, BatchResult(b, outcome)
      PROVE  AcksCountedOnce'
  BY Zenon, <1>1, <1>6 DEF BatchResult, Dropped, InPhase, Resolved
<1>7. ASSUME Quiet
      PROVE  AcksCountedOnce'
  <2>1. UNCHANGED <<phase, acked, skipped>>
    BY Zenon, <1>7, QuietFrame
  <2> QED
    BY Zenon, <1>1, <2>1 DEF InPhase
<1>8. ASSUME NEW expired \in SUBSET BackedOff, NEW l \in Lanes, NEW b \in BatchIds,
             NEW S \in SUBSET Chunks, NextHedge(expired, l, b, S)
      PROVE  AcksCountedOnce'
  <2>1. UNCHANGED <<phase, acked, skipped>>
    BY Zenon, <1>8, HedgeFrame
  <2> QED
    BY Zenon, <1>1, <2>1 DEF InPhase
<1> QED
  BY Zenon, <1>2, <1>3, <1>4, <1>5, <1>6, <1>7, <1>8
  DEF Next, NextCall, Ack, Result, Admit, AdmitGroup, Quiet

\* acked and skipped, which done() and the driver's success test compare with
\* the total (pushsched.rs on_ack, on_group_ack), count every chunk once
\* however many copies of it are answered.
THEOREM AcksExact == Spec => []AcksCountedOnce
<1>1. Init => LostInv
  BY DEF Init, LostInv, TypeOK, NothingLost, OnlyInFlightCarried, NoFrames,
         ChunkPhase, LaneHealth
<1>2. Init => AcksCountedOnce
  <2> SUFFICES ASSUME Init PROVE AcksCountedOnce
    BY Zenon
  <2>1. /\ {c \in Chunks : phase[c] = "Done"} = {}
        /\ {c \in Chunks : phase[c] = "Skipped"} = {}
        /\ acked = 0 /\ skipped = 0
    BY Zenon DEF Init
  <2> QED
    BY Zenon, <2>1, FS_EmptySet DEF AcksCountedOnce
<1> QED
  BY <1>1, <1>2, LostStep, CountStep, PTL DEF Spec

-----------------------------------------------------------------------------
\* An idle scheduler that is not done has work queued.  failed may count a
\* chunk twice (it is given up, queued again and given up again), but it
\* never counts too few.

FailedCovered == Cardinality(InPhase("Failed")) <= failed

\* Every chunk that becomes Failed is counted.
LEMMA FailedStep ==
  ASSUME LostInv, FailedCovered, [Next]_vars
  PROVE  FailedCovered'
<1>0. /\ InPhase("Failed") \in SUBSET Chunks /\ InPhase("Failed")' \in SUBSET Chunks
      /\ failed \in Nat
  BY Zenon DEF InPhase, LostInv, TypeOK
<1>1. ASSUME NEW new \in SUBSET Chunks,
             InPhase("Failed")' \subseteq InPhase("Failed") \cup new,
             failed' = failed + Cardinality(new)
      PROVE  FailedCovered'
  <2> DEFINE old == InPhase("Failed")
             after == InPhase("Failed")'
  <2>1. IsFiniteSet(old \cup new) /\ after \in SUBSET (old \cup new)
    BY Zenon, <1>0, <1>1, ChunkSets
  <2>2. old \in SUBSET Chunks /\ after \in SUBSET Chunks
    BY Zenon, <1>0
  <2> HIDE DEF old, after
  <2>3. Cardinality(after) <= Cardinality(old \cup new)
    BY Zenon, <2>1, FS_Subset
  <2>4. Cardinality(old \cup new) <= Cardinality(old) + Cardinality(new)
    BY Zenon, <2>2, UnionSize
  <2>5. /\ Cardinality(after) \in Nat /\ Cardinality(old) \in Nat
        /\ Cardinality(new) \in Nat /\ Cardinality(old \cup new) \in Nat
    BY Zenon, <2>2, ChunkSets
  <2>6. Cardinality(old) <= failed
    BY Zenon DEF FailedCovered, old
  <2>7. Cardinality(after) <= failed'
    BY <1>0, <1>1, <2>3, <2>4, <2>5, <2>6
  <2> QED
    BY Zenon, <2>7 DEF FailedCovered, after
<1>2. ASSUME InPhase("Failed")' \subseteq InPhase("Failed"), failed' = failed
      PROVE  FailedCovered'
  <2>1. Cardinality({}) = 0 /\ {} \in SUBSET Chunks
    BY Zenon, FS_EmptySet
  <2>2. failed' = failed + Cardinality({})
    BY <1>0, <1>2, <2>1
  <2> QED
    BY Zenon, <1>1, <1>2, <2>1, <2>2
<1>3. ASSUME NEW b \in BatchIds, NEW outcome \in Outcomes, BatchResult(b, outcome)
      PROVE  FailedCovered'
  <2> DEFINE dead == {c \in Dropped(b) : AttemptsAfter(b, outcome)[c] >= MaxAttempts}
             new == {c \in dead : phase[c] # "Failed"}
  <2>1. new \in SUBSET Chunks
    BY Zenon DEF Dropped, Members
  <2>2. failed' = failed + Cardinality(new)
    BY Zenon, <1>3 DEF BatchResult
  <2>3. InPhase("Failed")' \subseteq InPhase("Failed") \cup new
    BY Zenon, <1>3 DEF BatchResult, InPhase
  <2> QED
    BY Zenon, <1>1, <2>1, <2>2, <2>3
<1>4. ASSUME NEW b \in BatchIds, NEW c \in Chunks, AckErr(b, c)
      PROVE  FailedCovered'
  <2>1. CASE failed' = failed /\ phase'[c] # "Failed"
    BY Zenon, <1>2, <1>4, <2>1 DEF AckErr, InPhase, LostInv, TypeOK
  <2>2. CASE failed' = failed /\ phase'[c] = phase[c]
    BY Zenon, <1>2, <1>4, <2>2 DEF AckErr, InPhase, LostInv, TypeOK
  <2>3. CASE failed' = failed + 1
    <3>1. Cardinality({c}) = 1
      BY Zenon, FS_Singleton
    <3>2. InPhase("Failed")' \subseteq InPhase("Failed") \cup {c}
      BY Zenon, <1>4 DEF AckErr, InPhase, LostInv, TypeOK
    <3> QED
      BY <1>1, <2>3, <3>1, <3>2
  <2> QED
    BY Zenon, <1>4, <2>1, <2>2, <2>3 DEF AckErr, LostInv, TypeOK
<1>5. ASSUME NEW S \in SUBSET Chunks, Queue(S)
      PROVE  FailedCovered'
  BY Zenon, <1>2, <1>5 DEF Queue, InPhase, countVars
<1>6. ASSUME NEW expired \in SUBSET BackedOff, NEW l \in Lanes, NEW b \in BatchIds,
             NEW pick, NextAssign(expired, l, b, pick)
      PROVE  FailedCovered'
  BY Zenon, <1>2, <1>6 DEF NextAssign, Dispatch, InPhase
<1>7. ASSUME NEW b \in BatchIds, NEW c \in Chunks, AckOk(b, c)
      PROVE  FailedCovered'
  BY Zenon, <1>2, <1>7 DEF AckOk, InPhase
<1>8. ASSUME Quiet
      PROVE  FailedCovered'
  <2>1. UNCHANGED <<phase, failed>>
    BY Zenon, <1>8, QuietFrame
  <2> QED
    BY Zenon, <1>2, <2>1 DEF InPhase
<1>9. ASSUME NEW expired \in SUBSET BackedOff, NEW l \in Lanes, NEW b \in BatchIds,
             NEW S \in SUBSET Chunks, NextHedge(expired, l, b, S)
      PROVE  FailedCovered'
  <2>1. UNCHANGED <<phase, failed>>
    BY Zenon, <1>9, HedgeFrame
  <2> QED
    BY Zenon, <1>2, <2>1 DEF InPhase
<1> QED
  BY Zenon, <1>3, <1>4, <1>5, <1>6, <1>7, <1>8, <1>9
  DEF Next, NextCall, Ack, Result, Admit, AdmitGroup, Quiet

\* With no batch outstanding nothing is in flight; with nothing queued either,
\* every admitted chunk is acked, skipped or given up, and counted.
LEMMA IdleIsQueued ==
  ASSUME LostInv, AcksCountedOnce, FailedCovered
  PROVE  IdleMeansQueued
<1> SUFFICES ASSUME in_flight = {}, Queued = {} PROVE done
  BY Zenon DEF IdleMeansQueued
<1> DEFINE d == InPhase("Done")
           s == InPhase("Skipped")
           f == InPhase("Failed")
<1>1. ASSUME NEW c \in Admitted
      PROVE  c \in (d \cup s) \cup f
  <2>1. c \in Chunks /\ phase[c] \in ChunkPhase /\ phase[c] # "Absent"
    BY Zenon, <1>1 DEF Admitted, LostInv, TypeOK
  <2>2. phase[c] # "Pending"
    BY Zenon, <2>1 DEF Queued, LostInv, NothingLost
  <2>3. on[c] = {}
    BY SMTT(30), <2>1 DEF in_flight, LostInv, NothingLost, TypeOK
  <2>4. phase[c] # "InFlight"
    BY Zenon, <2>1, <2>3 DEF LostInv, NothingLost
  <2> QED
    BY Zenon, <2>1, <2>2, <2>4 DEF ChunkPhase, InPhase
<1>2. /\ Admitted \in SUBSET Chunks /\ d \in SUBSET Chunks /\ s \in SUBSET Chunks
      /\ f \in SUBSET Chunks
  BY Zenon DEF Admitted, InPhase
<1>3. /\ acked = Cardinality(d) /\ skipped = Cardinality(s) /\ Cardinality(f) <= failed
      /\ failed \in Nat
  BY Zenon DEF AcksCountedOnce, FailedCovered, InPhase, LostInv, TypeOK
<1> HIDE DEF d, s, f
<1>4. IsFiniteSet((d \cup s) \cup f) /\ Admitted \in SUBSET ((d \cup s) \cup f)
  BY Zenon, <1>1, <1>2, ChunkSets
<1>5. Cardinality(Admitted) <= Cardinality((d \cup s) \cup f)
  BY Zenon, <1>4, FS_Subset
<1>6. Cardinality((d \cup s) \cup f) <= Cardinality(d \cup s) + Cardinality(f)
  BY Zenon, <1>2, UnionSize
<1>7. Cardinality(d \cup s) <= Cardinality(d) + Cardinality(s)
  BY Zenon, <1>2, UnionSize
<1>8. /\ Cardinality(Admitted) \in Nat /\ Cardinality(d) \in Nat
      /\ Cardinality(s) \in Nat /\ Cardinality(f) \in Nat
      /\ Cardinality(d \cup s) \in Nat /\ Cardinality((d \cup s) \cup f) \in Nat
  BY Zenon, <1>2, ChunkSets
<1> QED
  BY <1>3, <1>5, <1>6, <1>7, <1>8 DEF done

\* When nothing is in flight and done() is false, next() has work to hand out
\* (pushsched.rs done, stalled): stalled() never reports ChunksExhausted.
THEOREM NeverExhausted == Spec => []IdleMeansQueued
<1>1. Init => LostInv
  BY SMTT(30) DEF Init, LostInv, TypeOK, NothingLost, OnlyInFlightCarried, NoFrames,
         ChunkPhase, LaneHealth
<1>2. Init => FailedCovered
  <2>1. Init => InPhase("Failed") = {} /\ failed = 0
    BY Zenon DEF Init, InPhase
  <2> QED
    BY <2>1, FS_EmptySet, SMTT(60) DEF FailedCovered
<1> QED
  BY <1>1, <1>2, AcksExact, LostStep, FailedStep, IdleIsQueued, PTL DEF Spec

-----------------------------------------------------------------------------
\* A lane that is down and has no POST outstanding is brought back by fund_lane
\* only (pushsched.rs on_batch_result, expire_backoffs, fund_lane): the one other
\* step that sets a lane's health belongs to a batch of that lane, and the exact
\* POST counter says there is none.
THEOREM DownLanesStayDown == Spec => DownStaysDown
<1> DEFINE Kept(l) ==
             /\ health[l] = "Retired" => health'[l] = "Retired"
             /\ health[l] = "Unfunded" /\ health'[l] \in {"Live", "Warming", "Backoff"}
                  => UNCHANGED <<chunkVars, batchVars>>
<1>1. ASSUME TypeOK, InflightCountsBatches, [Next]_vars, NEW l \in Lanes, inflight[l] = 0
      PROVE  Kept(l)
  <2>1. ASSUME health'[l] = health[l]
        PROVE  Kept(l)
    BY Zenon, <2>1
  <2>2. ASSUME NEW expired \in SUBSET BackedOff, health' = Expire(expired)
        PROVE  Kept(l)
    <3>1. health[l] \in {"Retired", "Unfunded"} => l \notin expired
      BY Zenon, <2>2 DEF BackedOff
    <3>2. l \notin expired => health'[l] = health[l]
      BY Zenon, <2>2 DEF Expire
    <3> QED
      BY Zenon, <2>1, <3>1, <3>2
  <2>3. ASSUME NEW b \in BatchIds, NEW outcome \in Outcomes, BatchResult(b, outcome)
        PROVE  Kept(l)
    <3>1. outstanding[b] # l
      <4>1. Cardinality({x \in BatchIds : outstanding[x] = l}) = 0
        BY Zenon, <1>1 DEF InflightCountsBatches
      <4>2. IsFiniteSet({x \in BatchIds : outstanding[x] = l})
        BY Zenon, FS_Subset
      <4> QED
        BY <4>1, <4>2, FS_EmptySet
    <3>2. \E h : health' = [health EXCEPT ![outstanding[b]] = h]
      BY Zenon, <2>3 DEF BatchResult, LaneAfter, LaneFailed, SetLane
    <3> QED
      BY Zenon, <1>1, <2>1, <3>1, <3>2 DEF TypeOK
  <2>4. ASSUME NEW k \in Lanes, RetireLane(k)
        PROVE  Kept(l)
    BY Zenon, <1>1, <2>4 DEF RetireLane, TypeOK
  <2>5. ASSUME NEW k \in Lanes, FundLane(k)
        PROVE  Kept(l)
    <3>1. health[k] = "Unfunded" /\ UNCHANGED <<chunkVars, batchVars>>
      BY Zenon, <2>5 DEF FundLane
    <3>2. \E h : health' = [health EXCEPT ![k] = h]
      BY Zenon, <2>5 DEF FundLane
    <3> QED
      BY Zenon, <1>1, <3>1, <3>2 DEF TypeOK
  <2>6. ASSUME NEW S, Queue(S)
        PROVE  Kept(l)
    BY Zenon, <2>1, <2>6 DEF Queue, laneVars
  <2>7. ASSUME NEW b, NEW c, AckIgnored(b, c) \/ AckOk(b, c) \/ AckErr(b, c)
        PROVE  Kept(l)
    <3>1. health' = health
      BY Zenon, <2>7 DEF AckIgnored, AckOk, AckErr, laneVars
    <3> QED
      BY Zenon, <2>1, <3>1
  <2>8. ASSUME NEW expired \in SUBSET BackedOff,
               \/ NextNone(expired)
               \/ \E k, b, pick : NextAssign(expired, k, b, pick)
               \/ \E k, b, S : NextHedge(expired, k, b, S)
        PROVE  Kept(l)
    <3>1. health' = Expire(expired)
      BY ZenonT(60), <2>8 DEF NextNone, NextAssign, NextHedge, Dispatch
    <3> QED
      BY Zenon, <2>2, <3>1
  <2>9. CASE UNCHANGED vars
    BY Zenon, <2>1, <2>9 DEF vars, laneVars
  <2> HIDE DEF Kept
  <2> QED
    BY Zenon, <1>1, <2>3, <2>4, <2>5, <2>6, <2>7, <2>8, <2>9
    DEF Next, NextCall, Ack, Result, Admit, AdmitGroup
<1>2. TypeOK /\ InflightCountsBatches /\ [Next]_vars
        => [\A l \in Lanes : inflight[l] = 0 => Kept(l)]_vars
  BY Zenon, <1>1
<1> QED
  BY <1>2, Typing, InflightExact, PTL DEF Spec, DownStaysDown

\* The counters of lanes, acks and skips are exact (CountersExact;
\* src/src/pushsched.rs, on_ack and on_batch_result).
THEOREM CountersAlwaysExact == Spec => []CountersExact
<1>1. TypeOK /\ InflightCountsBatches /\ AcksCountedOnce => CountersExact
  BY Zenon DEF CountersExact
<1> QED
  BY <1>1, Typing, InflightExact, AcksExact, PTL

-----------------------------------------------------------------------------
\* The limiters.

BucketType(n) == [tokens : 0..Burst, last : 0..n]

Typed ==
  /\ now \in Nat /\ from \in 0..now
  /\ Tracked \subseteq Keys /\ buckets \in [Tracked -> BucketType(now)]
  /\ allowed \in [Keys -> Nat]
  /\ tat \in [Peers -> Nat] /\ slots \in [Peers -> Seq(Nat)]

\* What a bucket holds after i ticks more.
After(tokens, i) == Smaller(tokens + i * Rate, Burst)

\* What a key may still spend: a key without a bucket has a full one.
Budget(k) ==
  IF k \in Tracked THEN After(buckets[k].tokens, now - buckets[k].last) ELSE Burst

\* What was spent and what may be spent is at most a burst and the rate.
Spending == \A k \in Keys : allowed[k] * Cost + Budget(k) <= Burst + Rate * (now - from)

\* Every slot taken is paid for by the arrival time.
Arrivals ==
  \A p \in Peers : \A i \in 1..Len(slots[p]) :
    slots[p][i] + (Len(slots[p]) - i + 1) * Emission <= tat[p]

IInv == Typed /\ Spending /\ Arrivals /\ DialsPaced

HIDE SetsAssumption
HIDE ConfigAssumption
USE LimitersAssumption

\* A bucket that is refilled stays within its bounds, and loses nothing.
LEMMA AfterNat ==
  ASSUME NEW t \in 0..Burst, NEW i \in Nat
  PROVE  /\ After(t, i) \in 0..Burst /\ After(t, i) >= t
         /\ After(t, i + 1) <= After(t, i) + Rate
<1> DEFINE g == i * Rate
<1>1. g \in Nat /\ (i + 1) * Rate = g + Rate
  OBVIOUS
<1> HIDE DEF g
<1>2. After(t, i) = Smaller(t + g, Burst) /\ After(t, i + 1) = Smaller(t + g + Rate, Burst)
  BY <1>1 DEF After, g
<1> QED BY <1>1, <1>2 DEF Smaller

\* Refilling to now leaves a bucket's budget as it is.
LEMMA RefillBudget ==
  ASSUME Typed, NEW k \in Tracked
  PROVE  /\ refill(buckets[k]) \in BucketType(now)
         /\ refill(buckets[k]).tokens = Budget(k)
         /\ Budget(k) \in 0..Burst
         /\ After(refill(buckets[k]).tokens, now - refill(buckets[k]).last) = Budget(k)
<1>1. /\ buckets[k].tokens \in 0..Burst /\ buckets[k].last \in 0..now /\ now \in Nat
  BY Zenon DEF Typed, BucketType
<1>2. now - buckets[k].last \in Nat
  BY <1>1
<1>3. Budget(k) \in 0..Burst
  BY Zenon, <1>1, <1>2, AfterNat DEF Budget
<1>4. refill(buckets[k]) = [tokens |-> Budget(k), last |-> now]
  BY Zenon DEF refill, Budget, After
<1> HIDE DEF Budget
<1>5. After(Budget(k), now - now) = Budget(k)
  BY <1>1, <1>3 DEF After, Smaller
<1> QED BY <1>1, <1>3, <1>4, <1>5 DEF BucketType

\* Budgets are never more than a burst.
LEMMA BudgetNat == ASSUME Typed, NEW k \in Keys PROVE Budget(k) \in 0..Burst
<1>1. CASE k \in Tracked
  BY Zenon, <1>1, RefillBudget
<1>2. CASE k \notin Tracked
  BY <1>2 DEF Budget
<1> QED BY Zenon, <1>1, <1>2

\* The initial state.
LEMMA LimitsInit == RInit => IInv
<1> SUFFICES ASSUME RInit PROVE IInv
  BY Zenon
<1>1. Tracked = {}
  BY Zenon DEF RInit, Tracked
<1>2. Typed
  BY <1>1 DEF RInit, Typed, Tracked
<1>3. Spending
  BY <1>1 DEF RInit, Spending, Budget
<1>4. Arrivals /\ DialsPaced
  BY DEF RInit, Arrivals, DialsPaced
<1> QED BY Zenon, <1>2, <1>3, <1>4 DEF IInv

\* Time passes: a budget grows by no more than the rate.
LEMMA TickInv == ASSUME IInv, Tick PROVE IInv'
<1>1. now' = now + 1 /\ UNCHANGED <<buckets, from, allowed, tat, slots>> /\ Tracked' = Tracked
  BY Zenon DEF Tick, inbound, dialler, Tracked
<1>2. Typed'
  <2>1. ASSUME NEW k \in Tracked PROVE buckets[k] \in BucketType(now')
    BY <1>1 DEF IInv, Typed, BucketType
  <2> QED BY <1>1, <2>1 DEF IInv, Typed
<1>3. ASSUME NEW k \in Keys
      PROVE  allowed'[k] * Cost + Budget(k)' <= Burst + Rate * (now' - from')
  <2>1. Budget(k)' <= Budget(k) + Rate /\ Budget(k)' \in 0..Burst
    <3>1. CASE k \in Tracked
      <4> DEFINE t == buckets[k].tokens
                 i == now - buckets[k].last
      <4>1. t \in 0..Burst /\ i \in Nat /\ now' - buckets'[k].last = i + 1
        BY <1>1, <3>1 DEF IInv, Typed, BucketType
      <4>2. Budget(k) = After(t, i) /\ Budget(k)' = After(t, i + 1)
        BY Zenon, <1>1, <3>1, <4>1 DEF Budget
      <4> HIDE DEF t, i
      <4> QED BY <4>1, <4>2, AfterNat
    <3>2. CASE k \notin Tracked
      BY <1>1, <3>2 DEF Budget
    <3> QED BY Zenon, <3>1, <3>2
  <2>2. Budget(k) \in 0..Burst
    BY Zenon, BudgetNat DEF IInv
  <2>3. allowed[k] * Cost \in Nat /\ now - from \in Nat /\ Rate * (now - from) \in Nat
    BY DEF IInv, Typed
  <2>4. Rate * (now' - from') = Rate * (now - from) + Rate
    BY <1>1 DEF IInv, Typed
  <2>5. allowed[k] * Cost + Budget(k) <= Burst + Rate * (now - from)
    BY Zenon DEF IInv, Spending
  <2> DEFINE a == allowed[k] * Cost
             r == Rate * (now - from)
             b == Budget(k)
             c == Budget(k)'
  <2>6. a + c <= Burst + (r + Rate)
    <3>1. a \in Nat /\ r \in Nat /\ b \in Nat /\ c \in Nat /\ c <= b + Rate /\ a + b <= Burst + r
      BY <2>1, <2>2, <2>3, <2>5
    <3> HIDE DEF a, b, c, r
    <3> QED BY <3>1
  <2> QED BY Zenon, <1>1, <2>4, <2>6
<1>4. Spending'
  BY Zenon, <1>3 DEF Spending
<1>5. Arrivals' /\ DialsPaced'
  BY <1>1, Zenon DEF IInv, Arrivals, DialsPaced
<1> QED BY Zenon, <1>2, <1>4, <1>5 DEF IInv

\* The observer starts a window.
LEMMA ObserveInv == ASSUME IInv, Observe PROVE IInv'
<1>1. /\ from' = now /\ UNCHANGED <<now, buckets, tat, slots>> /\ Tracked' = Tracked
      /\ allowed' = [k \in Keys |-> 0]
  BY Zenon DEF Observe, dialler, Tracked
<1>2. Typed'
  BY <1>1 DEF IInv, Typed
<1>3. ASSUME NEW k \in Keys
      PROVE  allowed'[k] * Cost + Budget(k)' <= Burst + Rate * (now' - from')
  <2>1. Budget(k)' = Budget(k) /\ Budget(k) \in 0..Burst
    BY Zenon, <1>1, BudgetNat DEF Budget, IInv
  <2>2. allowed'[k] * Cost = 0 /\ Rate * (now' - from') = 0
    BY <1>1 DEF IInv, Typed
  <2> HIDE DEF Budget
  <2> QED BY <2>1, <2>2
<1>4. Arrivals' /\ DialsPaced'
  BY <1>1, Zenon DEF IInv, Arrivals, DialsPaced
<1> QED BY Zenon, <1>2, <1>3, <1>4 DEF IInv, Spending

\* What one call leaves of a key that is allowed or not.
LEMMA Spent ==
  ASSUME NEW a \in Nat, NEW b \in Nat, NEW r \in Nat, a * Cost + b <= Burst + r
  PROVE  b >= Cost => (a + 1) * Cost + (b - Cost) <= Burst + r
<1>1. (a + 1) * Cost = a * Cost + Cost /\ a * Cost \in Nat
  OBVIOUS
<1> DEFINE c == a * Cost
<1> HIDE DEF c
<1> QED BY <1>1 DEF c

\* A call of a key with a bucket.
LEMMA KnownInv == ASSUME IInv, NEW k \in Keys, AllowKnown(k) PROVE IInv'
<1> DEFINE b == refill(buckets[k])
           ok == b.tokens >= Cost
           d == IF ok THEN [b EXCEPT !.tokens = @ - Cost] ELSE b
<1>1. /\ k \in Tracked /\ buckets' = [buckets EXCEPT ![k] = d] /\ Tracked' = Tracked
      /\ allowed' = IF ok THEN [allowed EXCEPT ![k] = @ + 1] ELSE allowed
      /\ UNCHANGED <<now, from, tat, slots>>
  BY Zenon DEF AllowKnown, dialler, Tracked
<1>2. /\ b \in BucketType(now) /\ b.tokens = Budget(k) /\ Budget(k) \in 0..Burst
      /\ b.last = now
  BY Zenon, <1>1, RefillBudget DEF IInv, refill
<1>3. /\ d \in BucketType(now) /\ d.last = now
      /\ d.tokens = IF ok THEN Budget(k) - Cost ELSE Budget(k)
  <2> HIDE DEF b, Budget
  <2> QED BY <1>2 DEF BucketType
<1> HIDE DEF b, d
<1>4. Typed'
  BY <1>1, <1>3 DEF IInv, Typed
<1>5. Budget(k)' = d.tokens
  <2>1. Budget(k)' = After(d.tokens, now - now)
    BY Zenon, <1>1, <1>3 DEF Budget, IInv, Typed
  <2>2. d.tokens \in 0..Burst /\ now \in Nat
    BY Zenon, <1>3 DEF BucketType, IInv, Typed
  <2> QED BY <2>1, <2>2 DEF After, Smaller
<1>6. ASSUME NEW x \in Keys
      PROVE  allowed'[x] * Cost + Budget(x)' <= Burst + Rate * (now' - from')
  <2>1. allowed[x] * Cost + Budget(x) <= Burst + Rate * (now - from)
    BY Zenon DEF IInv, Spending
  <2>2. CASE x # k
    <3>1. Budget(x)' = Budget(x) /\ allowed'[x] = allowed[x]
      BY Zenon, <1>1, <2>2 DEF Budget, IInv, Typed
    <3> QED BY Zenon, <1>1, <2>1, <3>1
  <2>3. CASE x = k
    <3>1. allowed[k] \in Nat /\ Budget(k) \in Nat /\ Rate * (now - from) \in Nat
      BY <1>2 DEF IInv, Typed
    <3>2. CASE ok
      <4>1. allowed'[k] = allowed[k] + 1 /\ Budget(k)' = Budget(k) - Cost /\ Budget(k) >= Cost
        BY Zenon, <1>1, <1>2, <1>3, <1>5, <3>2 DEF IInv, Typed
      <4> HIDE DEF Budget
      <4> QED BY Zenon, <1>1, <2>1, <2>3, <3>1, <4>1, Spent
    <3>3. CASE ~ok
      BY Zenon, <1>1, <1>3, <1>5, <2>1, <2>3, <3>3
    <3> QED BY Zenon, <3>2, <3>3
  <2> QED BY Zenon, <2>2, <2>3
<1>7. Arrivals' /\ DialsPaced'
  BY Zenon, <1>1 DEF IInv, Arrivals, DialsPaced
<1> QED BY Zenon, <1>4, <1>6, <1>7 DEF IInv, Spending

\* A call of a new key: what the sweep drops has its whole budget.
LEMMA NewInv == ASSUME IInv, NEW k \in Keys, AllowNew(k) PROVE IInv'
<1> DEFINE kept == IF Cardinality(Tracked) >= Cap THEN sweep ELSE buckets
           ok == Cardinality(DOMAIN kept) < Cap
           fresh == [tokens |-> Burst - Cost, last |-> now]
<1>1. /\ k \notin Tracked
      /\ buckets' = IF ok THEN [x \in DOMAIN kept \cup {k} |-> IF x = k THEN fresh ELSE kept[x]]
                    ELSE kept
      /\ allowed' = IF ok THEN [allowed EXCEPT ![k] = @ + 1] ELSE allowed
      /\ UNCHANGED <<now, from, tat, slots>>
  BY Zenon DEF AllowNew, dialler, Tracked
<1>2. /\ DOMAIN kept \subseteq Tracked
      /\ \A x \in DOMAIN kept : /\ kept[x] \in BucketType(now)
                                /\ After(kept[x].tokens, now - kept[x].last) = Budget(x)
      /\ \A x \in Tracked \ DOMAIN kept : Budget(x) = Burst
  <2>1. CASE Cardinality(Tracked) >= Cap
    <3>1. kept = [x \in {y \in Tracked : ~is_full(refill(buckets[y]))} |-> refill(buckets[x])]
      BY Zenon, <2>1 DEF sweep, Restricted
    <3>2. ASSUME NEW x \in Tracked \ DOMAIN kept PROVE Budget(x) = Burst
      <4>1. refill(buckets[x]).tokens >= Burst
        BY Zenon, <3>1 DEF is_full
      <4>2. refill(buckets[x]).tokens = Budget(x) /\ Budget(x) \in 0..Burst
        BY Zenon, RefillBudget DEF IInv
      <4> HIDE DEF Budget
      <4> QED BY <4>1, <4>2
    <3>3. ASSUME NEW x \in DOMAIN kept
          PROVE  /\ x \in Tracked /\ kept[x] \in BucketType(now)
                 /\ After(kept[x].tokens, now - kept[x].last) = Budget(x)
      BY Zenon, <3>1, RefillBudget DEF IInv
    <3> QED BY Zenon, <3>2, <3>3
  <2>2. CASE ~(Cardinality(Tracked) >= Cap)
    BY Zenon, <2>2 DEF Budget, IInv, Typed, Tracked
  <2> QED BY Zenon, <2>1, <2>2
<1> HIDE DEF kept
<1>3. fresh \in BucketType(now) /\ fresh.last = now /\ fresh.tokens = Burst - Cost
  BY DEF BucketType, IInv, Typed
<1> HIDE DEF fresh
<1>4. /\ Tracked' = IF ok THEN DOMAIN kept \cup {k} ELSE DOMAIN kept
      /\ \A x \in Tracked' : buckets'[x] = IF x = k THEN fresh ELSE kept[x]
      /\ \A x \in Tracked' : buckets'[x] \in BucketType(now)
  <2>1. CASE ok
    BY Zenon, <1>1, <1>2, <1>3, <2>1 DEF Tracked
  <2>2. CASE ~ok
    BY Zenon, <1>1, <1>2, <2>2 DEF Tracked
  <2> QED BY Zenon, <2>1, <2>2
<1>5. Typed'
  <2>1. buckets' \in [Tracked' -> BucketType(now)]
    <3>1. buckets' = [x \in Tracked' |-> buckets'[x]]
      <4>1. CASE ok
        BY Zenon, <1>1, <1>4, <4>1
      <4>2. CASE ~ok
        <5>1. kept = [x \in DOMAIN kept |-> kept[x]]
          BY Zenon DEF kept, sweep, Restricted, IInv, Typed
        <5> QED BY Zenon, <1>1, <1>4, <4>2, <5>1
      <4> QED BY Zenon, <4>1, <4>2
    <3> QED BY Zenon, <1>4, <3>1
  <2>2. Tracked' \subseteq Keys
    BY Zenon, <1>2, <1>4 DEF IInv, Typed
  <2> QED BY <1>1, <2>1, <2>2, SMTT(60) DEF IInv, Typed
<1>6. ASSUME NEW x \in Keys
      PROVE  allowed'[x] * Cost + Budget(x)' <= Burst + Rate * (now' - from')
  <2>1. /\ allowed[x] * Cost + Budget(x) <= Burst + Rate * (now - from)
        /\ allowed[x] \in Nat /\ Budget(x) \in 0..Burst /\ Rate * (now - from) \in Nat
    BY BudgetNat DEF IInv, Spending, Typed
  <2>2. CASE ok /\ x = k
    <3>1. Budget(x) = Burst /\ allowed'[x] = allowed[x] + 1
      BY Zenon, <1>1, <2>2 DEF Budget, IInv, Typed
    <3>2. Budget(x)' = Burst - Cost
      <4>1. Budget(x)' = After(Burst - Cost, now - now)
        BY Zenon, <1>1, <1>3, <1>4, <2>2 DEF Budget
      <4>2. now \in Nat
        BY Zenon DEF IInv, Typed
      <4> QED BY <4>1, <4>2 DEF After, Smaller
    <3> HIDE DEF Budget
    <3> QED BY Zenon, <1>1, <2>1, <3>1, <3>2, Spent
  <2>3. CASE ~(ok /\ x = k)
    <3>1. allowed'[x] = allowed[x]
      BY Zenon, <1>1, <2>3 DEF IInv, Typed
    <3>2. Budget(x)' = Budget(x)
      <4>1. CASE x \in DOMAIN kept
        <5>1. x # k /\ x \in Tracked' /\ buckets'[x] = kept[x]
          BY Zenon, <1>1, <1>2, <1>4, <4>1
        <5> QED BY Zenon, <1>1, <1>2, <4>1, <5>1 DEF Budget
      <4>2. CASE x \notin DOMAIN kept
        <5>1. x \notin Tracked'
          BY Zenon, <1>4, <2>3, <4>2
        <5>2. Budget(x)' = Burst
          BY Zenon, <5>1 DEF Budget
        <5>3. Budget(x) = Burst
          BY Zenon, <1>2, <4>2 DEF Budget
        <5> QED BY Zenon, <5>2, <5>3
      <4> QED BY Zenon, <4>1, <4>2
    <3> QED BY Zenon, <1>1, <2>1, <3>1, <3>2
  <2> QED BY Zenon, <2>2, <2>3
<1>7. Arrivals' /\ DialsPaced'
  BY Zenon, <1>1 DEF IInv, Arrivals, DialsPaced
<1> QED BY Zenon, <1>5, <1>6, <1>7 DEF IInv, Spending

\* Emission intervals add up.
LEMMA Intervals ==
  ASSUME NEW a \in Nat
  PROVE  a * Emission \in Nat /\ (a + 1) * Emission = a * Emission + Emission
OBVIOUS

\* A dial takes its slot.
LEMMA ReserveInv == ASSUME IInv, NEW p \in Peers, NEW w \in MaxWaits, ReserveAt(p, w) PROVE IInv'
<1> DEFINE at == now + wait_for(p)
           n == Len(slots[p])
           T == tat[p]
<1>1. /\ tat' = [tat EXCEPT ![p] = Charged(p)]
      /\ slots' = [slots EXCEPT ![p] = Append(@, at)]
      /\ UNCHANGED <<now, from, buckets, allowed>> /\ Tracked' = Tracked
  BY Zenon DEF ReserveAt, inbound, Tracked
<1>2. /\ at \in Nat /\ Charged(p) \in Nat /\ T \in Nat /\ now \in Nat
      /\ at + Emission <= Charged(p) /\ T + Emission <= Charged(p) /\ T <= at + Tolerance
  BY SMTT(60) DEF Charged, Arrival, Larger, wait_for, IInv, Typed
<1>3. slots[p] \in Seq(Nat) /\ n \in Nat
  BY DEF IInv, Typed
<1> HIDE DEF at, T
<1>4. /\ slots'[p] = Append(slots[p], at) /\ Len(slots'[p]) = n + 1
      /\ slots'[p] \in Seq(Nat) /\ slots'[p][n + 1] = at
      /\ \A i \in 1..n : slots'[p][i] = slots[p][i]
  BY <1>1, <1>2, <1>3 DEF IInv, Typed
<1>5. Typed'
  BY <1>1, <1>2, <1>4, SMTT(60) DEF IInv, Typed
<1>6. Spending'
  BY Zenon, <1>1 DEF IInv, Spending, Budget
<1>7. Arrivals'
  <2> SUFFICES ASSUME NEW q \in Peers, NEW i \in 1..Len(slots'[q])
               PROVE  slots'[q][i] + (Len(slots'[q]) - i + 1) * Emission <= tat'[q]
    BY Zenon DEF Arrivals
  <2>1. CASE q # p
    BY Zenon, <1>1, <2>1 DEF IInv, Arrivals, Typed
  <2>2. CASE q = p /\ i = n + 1
    <3>0. Len(slots'[q]) - i + 1 = 1
      BY <1>3, <1>4, <2>2
    <3>1. (Len(slots'[q]) - i + 1) * Emission = Emission
      BY <3>0
    <3> QED BY Zenon, <1>1, <1>2, <1>4, <2>2, <3>1 DEF IInv, Typed
  <2>3. CASE q = p /\ i # n + 1
    <3>1. i \in 1..n
      BY <1>3, <1>4, <2>3
    <3> DEFINE g == (n - i + 1) * Emission
    <3>2. g \in Nat /\ (Len(slots'[q]) - i + 1) * Emission = g + Emission
      <4>1. n - i + 1 \in Nat /\ Len(slots'[q]) - i + 1 = (n - i + 1) + 1
        <5>1. Len(slots'[q]) = n + 1 /\ n \in Nat /\ i \in 1..n
          BY <1>3, <1>4, <2>3, <3>1, SMTT(60)
        <5> HIDE DEF n
        <5> QED BY <5>1
      <4> QED BY <4>1, Intervals, SMTT(60)
    <3>3. slots[p][i] + g <= T /\ slots[p][i] \in Nat
      <4>1. slots[p][i] \in Nat
        BY <1>3, <3>1
      <4>2. slots[p][i] + g <= T
        BY Zenon, <3>1 DEF IInv, Arrivals, T
      <4> QED BY Zenon, <4>1, <4>2
    <3>4. tat'[q] = Charged(p) /\ slots'[q][i] = slots[p][i]
      BY Zenon, <1>1, <1>4, <2>3, <3>1 DEF IInv, Typed
    <3> DEFINE s == slots[p][i]
    <3>5. /\ s \in Nat /\ g \in Nat /\ T \in Nat /\ Charged(p) \in Nat /\ s + g <= T
          /\ T + Emission <= Charged(p)
      BY Zenon, <1>2, <3>2, <3>3
    <3> HIDE DEF g, n, s
    <3>6. s + (g + Emission) <= Charged(p)
      BY <3>5
    <3> QED BY Zenon, <3>2, <3>4, <3>6 DEF s
  <2> QED BY Zenon, <2>1, <2>2, <2>3
<1>8. DialsPaced'
  <2> SUFFICES ASSUME NEW q \in Peers, NEW j \in 1..Len(slots'[q]), NEW i \in 1..j
               PROVE  (j - i) * Emission <= slots'[q][j] - slots'[q][i] + Tolerance
    BY SMTT(60) DEF DialsPaced
  <2>1. CASE q # p
    BY Zenon, <1>1, <2>1 DEF IInv, DialsPaced, Typed
  <2>2. CASE q = p /\ j # n + 1
    <3>1. j \in 1..n /\ i \in 1..n
      BY <1>3, <1>4, <2>2, SMTT(60)
    <3>2. (j - i) * Emission <= slots[p][j] - slots[p][i] + Tolerance
      BY Zenon, <3>1 DEF IInv, DialsPaced
    <3> QED BY <1>4, <2>2, <3>1, <3>2, Zenon
  <2>3. CASE q = p /\ j = n + 1 /\ i = j
    <3>1. (j - i) * Emission = 0
      BY <2>3
    <3> QED BY <1>2, <1>4, <2>3, <3>1, SMTT(60)
  <2>4. CASE q = p /\ j = n + 1 /\ i # j
    <3>1. i \in 1..n /\ n - i + 1 = j - i
      BY <1>3, <2>4
    <3> DEFINE g == (j - i) * Emission
    <3>2. slots[p][i] + g <= T /\ slots[p][i] \in Nat /\ g \in Nat
      <4>1. slots[p][i] \in Nat
        BY <1>3, <3>1, SMTT(60)
      <4>2. slots[p][i] + (n - i + 1) * Emission <= T
        BY Zenon, <3>1 DEF IInv, Arrivals, T
      <4>3. n - i + 1 \in Nat
        BY <1>3, <3>1
      <4>4. g \in Nat /\ g = (n - i + 1) * Emission
        BY Zenon, <3>1, <4>3, Intervals
      <4> QED BY Zenon, <4>1, <4>2, <4>4
    <3>3. slots'[q][j] = at /\ slots'[q][i] = slots[p][i]
      BY <1>4, <2>4, <3>1, SMTT(60)
    <3> HIDE DEF g, n
    <3>4. g <= slots'[q][j] - slots'[q][i] + Tolerance
      <4> DEFINE s == slots[p][i]
      <4>1. /\ s \in Nat /\ g \in Nat /\ T \in Nat /\ at \in Nat /\ s + g <= T
            /\ T <= at + Tolerance
        BY Zenon, <1>2, <3>2
      <4> HIDE DEF s
      <4>2. g <= at - s + Tolerance
        BY <4>1
      <4> QED BY Zenon, <3>3, <4>2 DEF s
    <3> QED BY Zenon, <3>4 DEF g
  <2> QED BY Zenon, <2>1, <2>2, <2>3, <2>4
<1> QED BY Zenon, <1>5, <1>6, <1>7, <1>8 DEF IInv

\* The invariant holds of every behaviour of the limiters.
THEOREM InvHolds == RSpec => []IInv
<1>1. IInv /\ [RNext]_rvars => IInv'
  <2> SUFFICES ASSUME IInv, [RNext]_rvars PROVE IInv'
    BY Zenon
  <2>1. CASE UNCHANGED rvars
    BY <2>1, SMTT(60) DEF rvars, IInv, Typed, Spending, Budget, Arrivals, DialsPaced, Tracked
  <2>2. ASSUME NEW p \in Peers, NEW w \in MaxWaits, TooSoon(p, w) PROVE IInv'
    BY Zenon, <2>1, <2>2 DEF TooSoon
  <2> QED
    BY Zenon, <2>1, <2>2, TickInv, ObserveInv, KnownInv, NewInv, ReserveInv DEF RNext
<1> QED BY LimitsInit, <1>1, PTL DEF RSpec

\* In every window, no key is allowed more than its burst and its rate, however
\* the map is filled and swept (RateHolds; InboundLimiter::allow_at).
THEOREM RateHoldsAlways == RSpec => []RateHolds
<1>1. IInv => RateHolds
  <2> SUFFICES ASSUME IInv, NEW k \in Keys
               PROVE  allowed[k] * Cost <= Burst + Rate * (now - from)
    BY Zenon DEF RateHolds
  <2>1. /\ allowed[k] * Cost + Budget(k) <= Burst + Rate * (now - from)
        /\ Budget(k) \in 0..Burst
    BY Zenon, BudgetNat DEF IInv, Spending
  <2>2. allowed[k] * Cost \in Nat /\ Rate * (now - from) \in Nat
    BY DEF IInv, Typed
  <2> HIDE DEF Budget
  <2> QED BY <2>1, <2>2
<1> QED BY <1>1, InvHolds, PTL

\* Dials of one peer are spaced by the emission interval less the tolerance
\* (DialsPaced; DialRateLimiter::reserve_at).
THEOREM DialsPacedAlways == RSpec => []DialsPaced
<1>1. IInv => DialsPaced
  BY Zenon DEF IInv
<1> QED BY <1>1, InvHolds, PTL

\* The map of buckets never holds more than Cap of them.
Bounded == IsFiniteSet(Tracked) /\ Cardinality(Tracked) <= Cap

\* A sweep or an insertion leaves the map within its cap (allow_at).
LEMMA NewBounded == ASSUME Bounded, NEW k \in Keys, AllowNew(k) PROVE Bounded'
<1> DEFINE kept == IF Cardinality(Tracked) >= Cap THEN sweep ELSE buckets
<1>1. DOMAIN kept \subseteq Tracked
  BY Zenon DEF sweep, Restricted, Tracked
<1>2. IsFiniteSet(DOMAIN kept) /\ Cardinality(DOMAIN kept) <= Cardinality(Tracked)
  BY Zenon, <1>1, FS_Subset DEF Bounded
<1>3. Cardinality(DOMAIN kept) \in Nat /\ Cardinality(Tracked) \in Nat
  BY Zenon, <1>2, FS_CardinalityType DEF Bounded
<1>4. \/ Tracked' = DOMAIN kept
      \/ Tracked' = DOMAIN kept \cup {k} /\ Cardinality(DOMAIN kept) < Cap
  BY Zenon DEF AllowNew, Tracked
<1>5. CASE Tracked' = DOMAIN kept
  BY <1>2, <1>3, <1>5 DEF Bounded
<1>6. CASE Tracked' = DOMAIN kept \cup {k} /\ Cardinality(DOMAIN kept) < Cap
  <2>1. /\ IsFiniteSet(DOMAIN kept \cup {k})
        /\ Cardinality(DOMAIN kept \cup {k}) <= Cardinality(DOMAIN kept) + 1
    BY <1>2, <1>3, FS_AddElement, SMTT(60)
  <2>2. Cardinality(DOMAIN kept \cup {k}) \in Nat
    BY Zenon, <2>1, FS_CardinalityType
  <2> QED BY <1>3, <1>6, <2>1, <2>2 DEF Bounded
<1> QED BY Zenon, <1>4, <1>5, <1>6

\* The map stays within its cap (InboundLimiter::allow_at).
THEOREM MapBounded == RSpec => []Bounded
<1>1. RInit => Bounded
  <2> SUFFICES ASSUME RInit PROVE Bounded
    BY Zenon
  <2>1. Tracked = {}
    BY Zenon DEF RInit, Tracked
  <2> QED BY <2>1, FS_EmptySet DEF Bounded
<1>2. Bounded /\ [RNext]_rvars => Bounded'
  <2> SUFFICES ASSUME Bounded, [RNext]_rvars PROVE Bounded'
    BY Zenon
  <2>1. CASE Tracked' = Tracked
    BY Zenon, <2>1 DEF Bounded
  <2>2. ASSUME NEW k \in Keys, AllowKnown(k) PROVE Tracked' = Tracked
    BY Zenon, <2>2 DEF AllowKnown, Tracked
  <2>3. ASSUME NEW k \in Keys, AllowNew(k) PROVE Bounded'
    BY Zenon, <2>3, NewBounded
  <2>4. (Tick \/ Observe \/ \E p \in Peers, w \in MaxWaits : ReserveAt(p, w) \/ TooSoon(p, w))
          => Tracked' = Tracked
    BY Zenon DEF Tick, Observe, ReserveAt, TooSoon, inbound, rvars, Tracked
  <2>5. UNCHANGED rvars => Tracked' = Tracked
    BY Zenon DEF rvars, Tracked
  <2> QED BY Zenon, <2>1, <2>2, <2>3, <2>4, <2>5 DEF RNext
<1> QED BY <1>1, <1>2, PTL DEF RSpec

\* Both limits hold together, within a bounded map (LimitsHold; inbound_limit.rs,
\* ratelimit.rs).
THEOREM LimitsHoldAlways == RSpec => []LimitsHold
<1>1. IInv => RTypeOK
  BY Zenon DEF IInv, Typed, RTypeOK, BucketType
<1>2. RTypeOK /\ RateHolds /\ DialsPaced /\ Bounded => LimitsHold
  BY Zenon DEF LimitsHold, Bounded
<1> QED BY <1>1, <1>2, InvHolds, RateHoldsAlways, DialsPacedAlways, MapBounded, PTL
=============================================================================
