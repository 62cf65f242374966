----------------------------- MODULE PushSched -----------------------------
(***************************************************************************)
(* The sans-I/O multi-lane push scheduler (src/src/pushsched.rs), driven   *)
(* by the POSTs of client.rs: every dispatched batch streams at most one   *)
(* ack per frame and then reports exactly one result; batches interleave.  *)
(*                                                                         *)
(* Abstracted data.  Lane weights and rendezvous scores are floats and     *)
(* hashes: any free lane may win, any chunk may prefer it.  Time is a      *)
(* choice: a backed-off lane may have expired, and a chunk in flight may   *)
(* be past its hedge deadline, at any call of next().  The pending vector  *)
(* is the number of entries it holds for each chunk (a chunk can be queued *)
(* twice); its order only decides which of them go first.                  *)
(***************************************************************************)
EXTENDS Integers, FiniteSets, Functions

CONSTANTS
  Chunks,         \* chunk addresses the run may admit
  Lanes,          \* relay lanes
  BatchIds,       \* ids of concurrently outstanding batches
  NoLane,         \* outstanding[b] when batch id b is not in use
  Groups,         \* erasure groups admitted with admit_group
  NoGroup,        \* group of a chunk admitted on its own
  GroupOf,        \* the group each chunk is admitted under
  Need,           \* acks that complete a group
  GroupPolicy,    \* TRUE for CompletionPolicy::Group, FALSE for AllAcked
  InflightMax,    \* concurrent POSTs of a lane that has proved itself
  Batch,          \* frames per POST
  ProbeBatch,     \* frames in a warming lane's probe
  MaxAttempts,    \* Config::max_attempts
  FailStreak,     \* FAIL_STREAK
  MaxBackoffExp,  \* MAX_BACKOFF_EXP
  HedgeBudget,    \* max(8, ceil(hedge_fraction * chunks))
  MaxRefusals     \* bound: 402 answers the relays give in one run

ASSUME SetsAssumption ==
  /\ IsFiniteSet(Chunks) /\ IsFiniteSet(BatchIds)
  /\ NoLane \notin Lanes /\ NoGroup \notin Groups

ASSUME ConfigAssumption ==
  /\ GroupOf \in [Chunks -> Groups \cup {NoGroup}]
  /\ Need \in [Groups -> Nat]
  /\ GroupPolicy \in BOOLEAN
  /\ InflightMax \in [Lanes -> Nat \ {0}]
  /\ Batch \in Nat \ {0} /\ ProbeBatch \in Nat \ {0}
  /\ MaxAttempts \in Nat \ {0}
  /\ FailStreak \in Nat \ {0} /\ MaxBackoffExp \in Nat
  /\ HedgeBudget \in Nat /\ MaxRefusals \in Nat

VARIABLES
  phase,       \* ChunkState.phase, "Absent" before admission
  attempts,    \* ChunkState.attempts
  on,          \* ChunkState.on, the lanes carrying the chunk
  hedged,      \* ChunkState.hedged
  pending,     \* entries of the chunk in Scheduler.pending
  health,      \* Lane.health without the backoff deadline
  failStreak,  \* Lane.fail_streak
  backoffExp,  \* Lane.backoff_exp
  inflight,    \* Lane.inflight
  served,      \* Lane.bytes_total > 0
  outstanding, \* Scheduler.outstanding: the lane of each batch in flight
  frames,      \* ... and how often each chunk occurs in it
  unacked,     \* frames of the POST whose ack the driver has not seen
  hedgesUsed,  \* Scheduler.hedges_used
  acked,       \* Scheduler.acked
  failed,      \* Scheduler.failed
  skipped,     \* Scheduler.skipped
  groupAcked,  \* GroupState.acked
  refusals     \* 402 answers so far

chunkVars == <<phase, attempts, on, hedged, pending>>
laneVars == <<health, failStreak, backoffExp, inflight, served>>
batchVars == <<outstanding, frames, unacked>>
countVars == <<hedgesUsed, acked, failed, skipped, groupAcked>>
vars == <<chunkVars, laneVars, batchVars, countVars, refusals>>

ChunkPhase == {"Absent", "Pending", "InFlight", "Done", "Failed", "Skipped"}
LaneHealth == {"Warming", "Unfunded", "Live", "Backoff", "Retired"}

\* Phases in which on_ack and on_batch_result leave a chunk alone.
Resolved == {"Done", "Skipped"}

NoFrames == [c \in Chunks |-> 0]

Admitted == {c \in Chunks : phase[c] # "Absent"}

TypeOK ==
  /\ phase \in [Chunks -> ChunkPhase]
  /\ attempts \in [Chunks -> Nat]
  /\ on \in [Chunks -> SUBSET Lanes]
  /\ hedged \in [Chunks -> BOOLEAN]
  /\ pending \in [Chunks -> Nat]
  /\ health \in [Lanes -> LaneHealth]
  /\ failStreak \in [Lanes -> Nat]
  /\ backoffExp \in [Lanes -> Nat]
  /\ inflight \in [Lanes -> Nat]
  /\ served \in [Lanes -> BOOLEAN]
  /\ outstanding \in [BatchIds -> Lanes \cup {NoLane}]
  /\ frames \in [BatchIds -> [Chunks -> Nat]]
  /\ unacked \in [BatchIds -> [Chunks -> Nat]]
  /\ hedgesUsed \in Nat /\ acked \in Nat /\ failed \in Nat /\ skipped \in Nat
  /\ groupAcked \in [Groups -> Nat]
  /\ refusals \in Nat

Init ==
  /\ phase = [c \in Chunks |-> "Absent"]
  /\ attempts = [c \in Chunks |-> 0]
  /\ on = [c \in Chunks |-> {}]
  /\ hedged = [c \in Chunks |-> FALSE]
  /\ pending = NoFrames
  /\ health = [l \in Lanes |-> "Warming"]
  /\ failStreak = [l \in Lanes |-> 0]
  /\ backoffExp = [l \in Lanes |-> 0]
  /\ inflight = [l \in Lanes |-> 0]
  /\ served = [l \in Lanes |-> FALSE]
  /\ outstanding = [b \in BatchIds |-> NoLane]
  /\ frames = [b \in BatchIds |-> NoFrames]
  /\ unacked = [b \in BatchIds |-> NoFrames]
  /\ hedgesUsed = 0 /\ acked = 0 /\ failed = 0 /\ skipped = 0
  /\ groupAcked = [g \in Groups |-> 0]
  /\ refusals = 0

-----------------------------------------------------------------------------
\* Admission.  An address already admitted is not new work.

\* A later admission of the same address keeps the chunk's state.
Queue(S) ==
  /\ phase' = [c \in Chunks |-> IF c \in S THEN "Pending" ELSE phase[c]]
  /\ pending' = [c \in Chunks |-> IF c \in S THEN pending[c] + 1 ELSE pending[c]]
  /\ UNCHANGED <<attempts, on, hedged, laneVars, batchVars, countVars, refusals>>

Admit(S) ==
  LET new == S \ Admitted
  IN  /\ \A c \in S : GroupOf[c] = NoGroup
      /\ new # {}
      /\ Queue(new)

AdmitGroup(g) ==
  LET members == {c \in Chunks : GroupOf[c] = g}
  IN  /\ members # {}
      /\ members \cap Admitted = {}
      /\ Queue(members)

\* The driver retires the lanes it cannot pay before it admits any chunk,
\* and gives up at once when that is all of them.
RetireLane(l) ==
  /\ Admitted = {}
  /\ \E k \in Lanes \ {l} : health[k] # "Retired"
  /\ health' = [health EXCEPT ![l] = "Retired"]
  /\ UNCHANGED <<chunkVars, failStreak, backoffExp, inflight, served,
                 batchVars, countVars, refusals>>

-----------------------------------------------------------------------------
\* next(): expire backoffs, then hedge a straggler or dispatch pending work.

\* Mutant: next() does not call expire_backoffs.
ExpireNever(expired) == health

\* The health of the lanes after expire_backoffs, `expired' being the
\* backed-off lanes whose deadline has passed.
Expire(expired) ==
  [l \in Lanes |-> IF l \in expired THEN "Warming" ELSE health[l]]

BackedOff == {l \in Lanes : health[l] = "Backoff"}

Eligible(h) == {l \in Lanes : h[l] \in {"Live", "Warming"}}

Capacity(h, l) == IF h[l] = "Warming" THEN 1 ELSE InflightMax[l]

Free(h) == {l \in Eligible(h) : inflight[l] < Capacity(h, l)}

BatchSize(h, l) ==
  IF h[l] = "Warming" /\ ProbeBatch < Batch THEN ProbeBatch ELSE Batch

\* Lane.inflight of lane l: up when a POST starts, down with its result.
TakeSlot(l) == inflight' = [inflight EXCEPT ![l] = @ + 1]

\* Mutant: on_batch_result keeps the slot of a finished POST.
ReleaseSlotNever(l) == inflight' = inflight

ReleaseSlot(l) == inflight' = [inflight EXCEPT ![l] = IF @ = 0 THEN 0 ELSE @ - 1]

\* Bookkeeping of one POST: it occupies a batch id and a slot of its lane.
Dispatch(h, l, b, pick) ==
  /\ outstanding[b] = NoLane
  /\ outstanding' = [outstanding EXCEPT ![b] = l]
  /\ frames' = [frames EXCEPT ![b] = pick]
  /\ unacked' = [unacked EXCEPT ![b] = pick]
  /\ on' = [c \in Chunks |-> IF pick[c] > 0 THEN on[c] \cup {l} ELSE on[c]]
  /\ TakeSlot(l)
  /\ health' = h
  /\ UNCHANGED <<failStreak, backoffExp, served, acked, failed, skipped,
                 groupAcked, refusals>>

Queued == {c \in Chunks : phase[c] = "Pending" /\ pending[c] > 0}

NextAssign(expired, l, b, pick) ==
  LET h == Expire(expired)
  IN  /\ l \in Free(h)
      /\ \A c \in Chunks : pick[c] > 0 => c \in Queued /\ pick[c] <= pending[c]
      /\ SumFunction(pick) \in 1..BatchSize(h, l)
      /\ phase' = [c \in Chunks |-> IF pick[c] > 0 THEN "InFlight" ELSE phase[c]]
      /\ attempts' = [c \in Chunks |-> attempts[c] + pick[c]]
      /\ pending' = [c \in Chunks |->
                       IF phase'[c] = "Pending" THEN pending[c] ELSE 0]
      /\ Dispatch(h, l, b, pick)
      /\ UNCHANGED <<hedged, hedgesUsed>>

\* A chunk that is in flight, unhedged and (some time) past its deadline.
Straggler(c) == phase[c] = "InFlight" /\ ~hedged[c] /\ on[c] # {}

NextHedge(expired, l, b, S) ==
  LET h == Expire(expired)
  IN  /\ hedgesUsed + Cardinality(S) <= HedgeBudget
      /\ Cardinality(Eligible(h)) >= 2
      /\ l \in Free(h)
      /\ S # {}
      /\ \A c \in S : Straggler(c) /\ l \notin on[c]
      /\ Cardinality(S) <= BatchSize(h, l)
      /\ hedgesUsed' = hedgesUsed + Cardinality(S)
      /\ hedged' = [c \in Chunks |-> hedged[c] \/ c \in S]
      /\ Dispatch(h, l, b, [c \in Chunks |-> IF c \in S THEN 1 ELSE 0])
      /\ UNCHANGED <<phase, attempts, pending>>

\* next() finds nothing to send, but has expired some backoffs.
NextNone(expired) ==
  LET h == Expire(expired)
  IN  /\ expired # {}
      /\ Free(h) = {} \/ Queued = {}
      /\ health' = h
      /\ UNCHANGED <<chunkVars, failStreak, backoffExp, inflight, served,
                     batchVars, countVars, refusals>>

-----------------------------------------------------------------------------
\* on_ack(): one line of a POST's response stream.

AckSeen(b, c) ==
  /\ outstanding[b] # NoLane
  /\ unacked[b][c] > 0
  /\ unacked' = [unacked EXCEPT ![b][c] = @ - 1]
  /\ UNCHANGED <<outstanding, frames>>

\* The losing copy of a chunk that is already resolved.
AckIgnored(b, c) ==
  /\ AckSeen(b, c)
  /\ phase[c] \in Resolved
  /\ UNCHANGED <<chunkVars, laneVars, countVars, refusals>>

\* on_group_ack: is c's group counted at all, and does this ack complete it?
Grouped(c) == GroupPolicy /\ GroupOf[c] # NoGroup

\* Mutant: the group completes one ack early.
CompletesEarly(c) == Grouped(c) /\ groupAcked[GroupOf[c]] + 2 >= Need[GroupOf[c]]

Completes(c) == Grouped(c) /\ groupAcked[GroupOf[c]] + 1 >= Need[GroupOf[c]]

\* The pending members of c's group that its ack makes unnecessary.
GroupRest(c) ==
  {k \in Chunks \ {c} :
     Completes(c) /\ GroupOf[k] = GroupOf[c] /\ phase[k] = "Pending"}

AckOk(b, c) ==
  LET rest == GroupRest(c)
  IN  /\ AckSeen(b, c)
      /\ phase[c] \notin Resolved
      /\ phase' = [k \in Chunks |-> IF k = c THEN "Done"
                                    ELSE IF k \in rest THEN "Skipped" ELSE phase[k]]
      /\ on' = [on EXCEPT ![c] = {}]
      /\ pending' = [k \in Chunks |->
                       IF Completes(c) /\ phase'[k] # "Pending" THEN 0 ELSE pending[k]]
      /\ acked' = acked + 1
      /\ skipped' = skipped + Cardinality(rest)
      /\ groupAcked' = IF Grouped(c) THEN [groupAcked EXCEPT ![GroupOf[c]] = @ + 1]
                       ELSE groupAcked
      /\ served' = [served EXCEPT ![outstanding[b]] = TRUE]
      /\ UNCHANGED <<attempts, hedged, health, failStreak, backoffExp, inflight,
                     hedgesUsed, failed, refusals>>

\* A refused chunk is queued again at once, or given up, when no other lane
\* carries it.
AckErr(b, c) ==
  LET left == on[c] \ {outstanding[b]}
      giveUp == left = {} /\ attempts[c] >= MaxAttempts
      requeue == left = {} /\ attempts[c] < MaxAttempts
  IN  /\ AckSeen(b, c)
      /\ phase[c] \notin Resolved
      /\ on' = [on EXCEPT ![c] = left]
      /\ phase' = [phase EXCEPT ![c] = IF giveUp THEN "Failed"
                                       ELSE IF requeue THEN "Pending" ELSE @]
      /\ hedged' = [hedged EXCEPT ![c] = @ /\ ~requeue]
      /\ pending' = [pending EXCEPT ![c] = IF requeue THEN @ + 1 ELSE @]
      /\ failed' = IF giveUp THEN failed + 1 ELSE failed
      /\ UNCHANGED <<attempts, laneVars, hedgesUsed, acked, skipped, groupAcked,
                     refusals>>

-----------------------------------------------------------------------------
\* on_batch_result(): the POST is over.

Outcomes == {"Answered", "Failed", "PaymentRequired"}

Members(b) == {c \in Chunks : frames[b][c] > 0}

SetLane(l, h, streak, exp) ==
  /\ health' = [health EXCEPT ![l] = h]
  /\ failStreak' = [failStreak EXCEPT ![l] = streak]
  /\ backoffExp' = [backoffExp EXCEPT ![l] = exp]

\* A batch of lane l brought no success: FailStreak in a row back it off, and
\* too many backoffs retire it.
LaneFailed(l) ==
  IF failStreak[l] + 1 < FailStreak
  THEN SetLane(l, health[l], failStreak[l] + 1, backoffExp[l])
  ELSE SetLane(l, IF backoffExp[l] + 1 > MaxBackoffExp THEN "Retired" ELSE "Backoff",
               0, backoffExp[l] + 1)

\* The lane's health after the result; `good' when some member is Done.
LaneAfter(l, outcome, good) ==
  IF outcome = "Answered" /\ good THEN SetLane(l, "Live", 0, 0)
  ELSE IF outcome = "PaymentRequired"
  THEN SetLane(l, "Unfunded", failStreak[l], backoffExp[l])
  ELSE LaneFailed(l)

\* A 402 undoes one attempt per frame of the batch (saturating).
AttemptsAfter(b, outcome) ==
  [c \in Chunks |->
     IF outcome = "PaymentRequired" /\ phase[c] \notin Resolved
     THEN IF attempts[c] < frames[b][c] THEN 0 ELSE attempts[c] - frames[b][c]
     ELSE attempts[c]]

\* Mutants: a failed batch requeues a chunk that another lane still carries;
\* it re-opens a resolved chunk; it leaves a hedged chunk to the other copy.
DroppedRegardless(b) == {c \in Members(b) : phase[c] \notin Resolved}

DroppedResolved(b) == {c \in Members(b) : on[c] \ {outstanding[b]} = {}}

DroppedUnhedged(b) ==
  {c \in Members(b) : /\ phase[c] \notin Resolved
                      /\ ~hedged[c]
                      /\ on[c] \ {outstanding[b]} = {}}

\* Members that are not resolved and that no other lane carries.
Dropped(b) ==
  {c \in Members(b) : phase[c] \notin Resolved /\ on[c] \ {outstanding[b]} = {}}

\* 402 is an HTTP status: no ack precedes it.
BatchResult(b, outcome) ==
  LET l == outstanding[b]
      left == AttemptsAfter(b, outcome)
      dead == {c \in Dropped(b) : left[c] >= MaxAttempts}
      back == {c \in Dropped(b) \ dead : phase[c] # "Pending"}
  IN  /\ l # NoLane
      /\ outcome = "PaymentRequired" =>
           unacked[b] = frames[b] /\ refusals < MaxRefusals
      /\ refusals' = IF outcome = "PaymentRequired" THEN refusals + 1 ELSE refusals
      /\ LaneAfter(l, outcome, \E c \in Members(b) : phase[c] = "Done")
      /\ ReleaseSlot(l)
      /\ outstanding' = [outstanding EXCEPT ![b] = NoLane]
      /\ frames' = [frames EXCEPT ![b] = NoFrames]
      /\ unacked' = [unacked EXCEPT ![b] = NoFrames]
      /\ attempts' = left
      /\ on' = [c \in Chunks |-> IF c \in Members(b) /\ phase[c] \notin Resolved
                                 THEN on[c] \ {l} ELSE on[c]]
      /\ phase' = [c \in Chunks |-> IF c \in dead THEN "Failed"
                                    ELSE IF c \in back THEN "Pending" ELSE phase[c]]
      /\ hedged' = [c \in Chunks |-> hedged[c] /\ c \notin back]
      /\ pending' = [c \in Chunks |-> IF c \in back THEN pending[c] + 1 ELSE pending[c]]
      /\ failed' = failed + Cardinality({c \in dead : phase[c] # "Failed"})
      /\ UNCHANGED <<served, hedgesUsed, acked, skipped, groupAcked>>

\* Mutant: fund_lane does not look at the lane's health.
FundLaneAny(l) ==
  /\ health' = [health EXCEPT ![l] = IF served[l] THEN "Live" ELSE "Warming"]
  /\ UNCHANGED <<chunkVars, failStreak, backoffExp, inflight, served,
                 batchVars, countVars, refusals>>

\* fund_lane(): the driver's cheque was accepted.
FundLane(l) ==
  /\ health[l] = "Unfunded"
  /\ health' = [health EXCEPT ![l] = IF served[l] THEN "Live" ELSE "Warming"]
  /\ UNCHANGED <<chunkVars, failStreak, backoffExp, inflight, served,
                 batchVars, countVars, refusals>>

-----------------------------------------------------------------------------
\* The frames one next() may pick for a POST of at most n frames.
Picks(n) == [Chunks -> 0..n]

NextCall ==
  \E expired \in SUBSET BackedOff :
    \/ NextNone(expired)
    \/ \E l \in Lanes, b \in BatchIds :
         \/ \E pick \in Picks(BatchSize(Expire(expired), l)) :
              NextAssign(expired, l, b, pick)
         \/ \E S \in SUBSET Chunks : NextHedge(expired, l, b, S)

Ack(b) == \E c \in Chunks : AckIgnored(b, c) \/ AckOk(b, c) \/ AckErr(b, c)

Result(b) == \E outcome \in Outcomes : BatchResult(b, outcome)

Next ==
  \/ \E S \in SUBSET Chunks : Admit(S)
  \/ \E g \in Groups : AdmitGroup(g)
  \/ \E l \in Lanes : RetireLane(l)
  \/ NextCall
  \/ \E b \in BatchIds : Ack(b) \/ Result(b)
  \/ \E l \in Lanes : FundLane(l)

Spec == Init /\ [][Next]_vars

\* The driver calls next() after every event and at every wake-up, and a
\* POST ends within the HTTP client's 300 s timeout.
Fairness ==
  /\ WF_vars(NextCall)
  /\ \A b \in BatchIds : WF_vars(Result(b))

FairSpec == Spec /\ Fairness

-----------------------------------------------------------------------------
\* Observers of the scheduler.

done == acked + failed + skipped >= Cardinality(Admitted)

in_flight == {b \in BatchIds : outstanding[b] # NoLane}

\* stalled() with every backoff either pending (no eligible lane) or expired.
AllLanesDown == \A l \in Lanes : health[l] \in {"Retired", "Unfunded"}

ChunksExhausted ==
  /\ \E l \in Lanes : health[l] \in {"Live", "Warming", "Backoff"}
  /\ \A c \in Chunks : pending[c] = 0

stalled == in_flight = {} /\ ~done /\ (AllLanesDown \/ ChunksExhausted)

-----------------------------------------------------------------------------
\* Properties.

\* A lane's POST counter, on which its concurrency limit rests, is the number
\* of batches outstanding on it: no path forgets a decrement or makes two.
InflightCountsBatches ==
  \A l \in Lanes : inflight[l] = Cardinality({b \in BatchIds : outstanding[b] = l})

\* No chunk is ever lost between queue and wire: a pending chunk has a queue
\* entry and no carrier, and every lane said to carry a chunk in flight has
\* an outstanding batch that contains it, whose result will release it.
NothingLost ==
  \A c \in Chunks :
    /\ phase[c] = "Pending" => pending[c] > 0 /\ on[c] = {}
    /\ phase[c] = "InFlight" => on[c] # {}
    /\ \A l \in on[c] : \E b \in BatchIds : outstanding[b] = l /\ frames[b][c] > 0

\* Acks are counted once: however many copies of a chunk are answered, acked
\* is the number of chunks Done (the driver's success test compares it with
\* the total), and skipped the number given up by a complete group.
AcksCountedOnce ==
  /\ acked = Cardinality({c \in Chunks : phase[c] = "Done"})
  /\ skipped = Cardinality({c \in Chunks : phase[c] = "Skipped"})

\* The counters the driver acts on are exact and none leaves its range: free
\* slots, acks and skips.
CountersExact == TypeOK /\ InflightCountsBatches /\ AcksCountedOnce

\* A chunk once acked or skipped stays so: no late error, batch failure or
\* 402 for another copy of it re-opens it.
ResolvedForGood ==
  [][\A c \in Chunks : phase[c] \in Resolved => phase'[c] = phase[c]]_vars

\* When nothing is in flight and the run is not done, work is queued: next()
\* dispatches as soon as a lane is eligible, and stalled() never has to
\* report ChunksExhausted.
IdleMeansQueued == in_flight = {} /\ ~done => Queued # {}

\* Every run ends: no chunk keeps the driver waiting for ever.  Eventually
\* nothing is in flight and the scheduler reports done or stalled for good.
RunEnds == <>[](in_flight = {} /\ (done \/ stalled))

\* An erasure group gives up members only when it no longer needs them: a
\* skipped chunk's group has at least Need acked members.
SkippedOnlyWhenEnough ==
  \A c \in Chunks : phase[c] = "Skipped" =>
    Cardinality({k \in Chunks : GroupOf[k] = GroupOf[c] /\ phase[k] = "Done"})
      >= Need[GroupOf[c]]

\* A lane that is down stays down: once it has no POST outstanding, no call but
\* fund_lane makes a retired or unfunded lane eligible, whatever expires and
\* whatever other lanes report.  (A POST that outlives the decision does.)
DownStaysDown ==
  [][\A l \in Lanes : inflight[l] = 0 =>
       /\ health[l] = "Retired" => health'[l] = "Retired"
       /\ health[l] = "Unfunded" /\ health'[l] \in {"Live", "Warming", "Backoff"}
            => UNCHANGED <<chunkVars, batchVars>>]_vars

-----------------------------------------------------------------------------
\* What a test of pushsched.rs says, and the code does not do.

\* failed() is the number of chunks that failed_addrs() lists (the test
\* chunk_gives_up_after_max_attempts compares the two); done() relies on it.
FailedCountsGivenUp == failed = Cardinality({c \in Chunks : phase[c] = "Failed"})
=============================================================================
