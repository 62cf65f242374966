----------------------------- MODULE Limiters -----------------------------
(***************************************************************************)
(* The two rate limiters.  The relay's inbound limiter                     *)
(* (src/src/inbound_limit.rs) refuses a request at once; the dialler's     *)
(* limiter (src/src/ratelimit.rs) makes the caller sleep.  Each is behind  *)
(* a lock, so a call is one step.  Time is in ticks.                       *)
(***************************************************************************)
EXTENDS Integers, Sequences, FiniteSets

CONSTANTS
  Keys,      \* accounts or addresses of the inbound limiter
  Cap,       \* buckets kept
  Rate,      \* units a bucket gains in a tick
  Burst,     \* units of a full bucket
  Cost,      \* units of one request
  Peers,     \* peers that are dialled
  Emission,  \* T, ticks between two dials
  Tolerance, \* the burst allowance of the dialler, in ticks
  MaxWaits,  \* budgets callers of reserve_bounded have
  MaxTime,   \* bound on time
  MaxDials   \* bound on the dials of a peer

ASSUME LimitersAssumption ==
  /\ Cap \in Nat \ {0} /\ Rate \in Nat \ {0} /\ Cost \in Nat \ {0}
  /\ Burst \in Nat /\ Burst >= Cost
  /\ Emission \in Nat \ {0} /\ Tolerance \in Nat
  /\ MaxWaits \subseteq Nat /\ MaxTime \in Nat /\ MaxDials \in Nat

VARIABLES
  now,
  buckets,  \* the bucket of each tracked key
  from,     \* history: when an observer started to count
  allowed,  \* history: what each key was allowed since
  tat,      \* theoretical arrival time of each peer's next dial, 0 if unknown
  slots     \* history: the ticks at which each peer is dialled

inbound == <<buckets, allowed>>
dialler == <<tat, slots>>
rvars == <<now, buckets, from, allowed, tat, slots>>

Tracked == DOMAIN buckets

RTypeOK ==
  /\ now \in Nat /\ from \in 0..now
  /\ Tracked \subseteq Keys /\ buckets \in [Tracked -> [tokens : 0..Burst, last : 0..now]]
  /\ allowed \in [Keys -> Nat]
  /\ tat \in [Peers -> Nat] /\ slots \in [Peers -> Seq(Nat)]

RInit ==
  /\ now = 0 /\ from = 0
  /\ buckets = [k \in {} |-> 0]
  /\ allowed = [k \in Keys |-> 0]
  /\ tat = [p \in Peers |-> 0]
  /\ slots = [p \in Peers |-> <<>>]

Tick == now < MaxTime /\ now' = now + 1 /\ UNCHANGED <<inbound, from, dialler>>

\* An observer starts to count at any time: the limits hold in every window.
Observe ==
  /\ from' = now
  /\ allowed' = [k \in Keys |-> 0]
  /\ UNCHANGED <<now, buckets, dialler>>

-----------------------------------------------------------------------------
\* InboundLimiter.

Smaller(a, b) == IF a < b THEN a ELSE b

refill(b) == [tokens |-> Smaller(b.tokens + (now - b.last) * Rate, Burst), last |-> now]

is_full(b) == b.tokens >= Burst

Restricted(S) == [k \in S |-> refill(buckets[k])]

\* Mutant: a full map drops everything.
sweepAll == [k \in {} |-> 0]

\* Only buckets that have refilled are dropped.
sweep == Restricted({k \in Tracked : ~is_full(refill(buckets[k]))})

\* A key with a bucket.
AllowKnown(k) ==
  LET b == refill(buckets[k])
      ok == b.tokens >= Cost
  IN  /\ k \in Tracked
      /\ buckets' = [buckets EXCEPT ![k] = IF ok THEN [b EXCEPT !.tokens = @ - Cost] ELSE b]
      /\ allowed' = IF ok THEN [allowed EXCEPT ![k] = @ + 1] ELSE allowed
      /\ UNCHANGED <<now, from, dialler>>

\* A new key: a full map is swept first, and refuses when that frees nothing.
AllowNew(k) ==
  LET kept == IF Cardinality(Tracked) >= Cap THEN sweep ELSE buckets
      ok == Cardinality(DOMAIN kept) < Cap
  IN  /\ k \in Keys \ Tracked
      /\ buckets' = IF ok THEN [x \in DOMAIN kept \cup {k} |->
                                  IF x = k THEN [tokens |-> Burst - Cost, last |-> now]
                                  ELSE kept[x]]
                    ELSE kept
      /\ allowed' = IF ok THEN [allowed EXCEPT ![k] = @ + 1] ELSE allowed
      /\ UNCHANGED <<now, from, dialler>>

-----------------------------------------------------------------------------
\* DialRateLimiter.

Larger(a, b) == IF a > b THEN a ELSE b

\* An idle bucket snaps to now.
Arrival(p) == Larger(tat[p], now)

\* What a dial would have to wait, as peek reports it too.
wait_for(p) == Larger(Arrival(p) - now - Tolerance, 0)

Charged(p) == Arrival(p) + Emission

\* reserve_bounded: a wait within the caller's budget takes the slot, and the
\* caller sleeps and dials; a longer one is refused and charges nothing.
ReserveAt(p, max_wait) ==
  /\ wait_for(p) <= max_wait /\ Len(slots[p]) < MaxDials
  /\ tat' = [tat EXCEPT ![p] = Charged(p)]
  /\ slots' = [slots EXCEPT ![p] = Append(@, now + wait_for(p))]
  /\ UNCHANGED <<now, from, inbound>>

TooSoon(p, max_wait) ==
  /\ wait_for(p) > max_wait
  /\ UNCHANGED rvars

-----------------------------------------------------------------------------
RNext ==
  \/ Tick \/ Observe
  \/ \E k \in Keys : AllowKnown(k) \/ AllowNew(k)
  \/ \E p \in Peers, w \in MaxWaits : ReserveAt(p, w) \/ TooSoon(p, w)

RSpec == RInit /\ [][RNext]_rvars

-----------------------------------------------------------------------------
\* Properties.

\* No key gets more than its burst and its rate in any window, whatever other
\* keys do to the map: dropping a bucket never gives budget back.
RateHolds == \A k \in Keys : allowed[k] * Cost <= Burst + Rate * (now - from)

\* Any j - i + 1 successive dials of one peer take at least (j - i) emission
\* intervals less the tolerance, the sleeps included.
DialsPaced ==
  \A p \in Peers : \A j \in 1..Len(slots[p]) : \A i \in 1..j :
    (j - i) * Emission <= slots[p][j] - slots[p][i] + Tolerance

\* Both limits hold, on what peers may ask and on how often one is dialled, with
\* a map that never outgrows its cap.
LimitsHold == RTypeOK /\ RateHolds /\ DialsPaced /\ Cardinality(Tracked) <= Cap
=============================================================================
