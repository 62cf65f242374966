------------------------------ MODULE PeerPool ------------------------------
(***************************************************************************)
(* The peer store (src/src/peers.rs) and the dial waves that learn from it *)
(* and for it: the fill of the session pool (SessionPool::top_up and       *)
(* open_session_pool_into in src/src/client.rs) and healthcheck_peers.     *)
(*                                                                         *)
(* A wave ranks the stored peers by what earlier dials showed, walks them  *)
(* in that order with a window of dials in flight, and writes each outcome *)
(* to a log that is applied to the store later.  Peers are numbered in the *)
(* order closest() yields them.  Time is in units of 60 s; 0 is "never".   *)
(***************************************************************************)
EXTENDS Integers, FiniteSets, Sequences, SequencesExt, FiniteSetsExt

CONSTANTS
  N,           \* peers 1..N
  Bin,         \* Bin[p]: the leading byte of p's overlay
  Histories,   \* what the peer list may say of a peer at the start
  Rtts,        \* round-trip times a dial may measure
  Target,      \* sessions wanted
  ConnPerPeer, \* HOVERFLY_CONNECTIONS_PER_PEER
  Window,      \* SESSION_DIAL_PARALLELISM, or healthcheck's concurrency
  MaxWaves,    \* bound: waves
  MaxNow       \* bound: the clock

VARIABLES
  store,   \* peer -> [success, failure, strikes, rtt], of the peers known
  now,     \* now_unix
  pool,    \* pool[p]: sessions open to p
  log,     \* the ReachabilityLog: peer -> outcome
  wave,    \* [kind, cands, next, dialing, added, max]
  waves,   \* waves begun
  last     \* history: last[p] = [at, ok, good]: p's last recorded dial, and last success

vars == <<store, now, pool, log, wave, waves, last>>

Peers == 1..N
Never == 0
Unknown == 1000000  \* rtt of a peer never reached: u32::MAX
Fresh == [success |-> Never, failure |-> Never, strikes |-> 0, rtt |-> Unknown]
NoWave == [kind |-> "none", cands |-> <<>>, next |-> 1, dialing |-> {}, added |-> 0, max |-> 0]
Sessions == SumFunctionOnSet(pool, Peers)

-----------------------------------------------------------------------------
(* What a peer's dial history says.                                        *)

\* failure_backoff_secs: 60 * 2^min(strikes, 3) s, at most 300 s.
failure_backoff_secs(e) == Min({2 ^ Min({e.strikes, 3}), 5})

\* dial_rank: 0 known good, 1 unknown, 2 failed lately, 3 probably dead.
dial_rank(e, t) ==
  CASE e.success # Never /\ e.success >= e.failure -> 0
    [] e.failure = Never -> 1
    [] t - e.failure >= failure_backoff_secs(e) -> 1
    [] e.strikes >= 3 -> 3
    [] OTHER -> 2

-----------------------------------------------------------------------------
(* The store.                                                              *)

\* The merge of upsert: of each observation the newer one.
merged(e, x) ==
  LET ok == IF x.success > e.success
            THEN [e EXCEPT !.success = x.success, !.rtt = x.rtt, !.strikes = 0] ELSE e
  IN IF x.failure > e.failure
     THEN [ok EXCEPT !.failure = x.failure, !.strikes = @ + Max({x.strikes, 1})] ELSE ok

\* upsert, of an entry that has an underlay this build can dial; others are
\* ignored.
upsert(s, p, x) ==
  [q \in DOMAIN s \cup {p} |-> IF q # p THEN s[q] ELSE IF p \in DOMAIN s THEN merged(s[p], x) ELSE x]

record_dial_success(e, rtt) == [e EXCEPT !.success = now, !.rtt = rtt, !.strikes = 0]
record_dial_failure(e) == [e EXCEPT !.failure = now, !.strikes = @ + 1]

\* apply_log: the log is drained into the store; outcomes of peers the store
\* does not hold are dropped.
apply_log ==
  /\ wave.kind = "none"
  /\ log # <<>>
  /\ store' = [p \in DOMAIN store |->
                 IF p \notin DOMAIN log THEN store[p]
                 ELSE IF log[p].ok THEN record_dial_success(store[p], log[p].rtt)
                 ELSE record_dial_failure(store[p])]
  /\ last' = [p \in Peers |->
                IF p \in DOMAIN log \cap DOMAIN store
                THEN [at |-> now, ok |-> log[p].ok, good |-> IF log[p].ok THEN now ELSE last[p].good]
                ELSE last[p]]
  /\ log' = <<>>
  /\ UNCHANGED <<now, pool, wave, waves>>

\* A hive announcement: it carries no observation.
Announce(p) ==
  /\ wave.kind = "none"
  /\ store' = upsert(store, p, Fresh)
  /\ store' # store
  /\ UNCHANGED <<now, pool, log, wave, waves, last>>

-----------------------------------------------------------------------------
(* The order of the dials.                                                 *)

Rank(p) == dial_rank(store[p], now)

\* spread_across_address_space: each bin is ordered by rank and round-trip
\* time, and of equals the later one comes first, for the bin is popped from
\* its end; a pass takes one peer of each bin.
AheadInBin(p, q) ==
  \/ Rank(p) < Rank(q)
  \/ Rank(p) = Rank(q) /\ store[p].rtt < store[q].rtt
  \/ Rank(p) = Rank(q) /\ store[p].rtt = store[q].rtt /\ p > q
Pass(p, of) == Cardinality({q \in of : Bin[q] = Bin[p] /\ q # p /\ AheadInBin(q, p)})
spread_across_address_space(p, q, of) ==
  \/ Pass(p, of) < Pass(q, of)
  \/ Pass(p, of) = Pass(q, of) /\ Bin[p] < Bin[q]

\* Mutant: the spread alone orders the dials.
DialBeforeSpread(p, q, of) == spread_across_address_space(p, q, of)

\* The stable sort after the spread: by rank; known-good ones by round-trip
\* time.
DialBefore(p, q, of) ==
  \/ Rank(p) < Rank(q)
  \/ /\ Rank(p) = Rank(q)
     /\ \/ Rank(p) = 0 /\ store[p].rtt < store[q].rtt
        \/ /\ Rank(p) # 0 \/ store[p].rtt = store[q].rtt
           /\ spread_across_address_space(p, q, of)

\* The candidates, once for every connection a peer may have: A B C A B C.
Parade(of) ==
  LET once == SetToSortSeq(of, LAMBDA p, q : DialBefore(p, q, of))
      n == Len(once)
  IN [i \in 1..(n * ConnPerPeer) |-> once[((i - 1) % n) + 1]]

-----------------------------------------------------------------------------
(* A wave.                                                                 *)

\* entry_overlays: top_up leaves out the peers already in the pool.
exclude == {p \in Peers : pool[p] > 0}

Begin(kind, cands, max) ==
  LET window == Min({Window, Len(cands)}) IN
  /\ waves < MaxWaves
  /\ wave.kind = "none"
  /\ waves' = waves + 1
  /\ wave' = [kind |-> kind, cands |-> cands, next |-> window + 1, dialing |-> 1..window,
              added |-> 0, max |-> max]
  /\ UNCHANGED <<store, now, pool, log, last>>

\* SessionPool::top_up, up to the first wait of open_session_pool_into; without
\* candidates it is an error that top_up ignores.
top_up ==
  /\ Sessions < Target
  /\ DOMAIN store \ exclude # {}
  /\ Begin("fill", Parade(DOMAIN store \ exclude), Target - Sessions)

\* healthcheck_peers, up to its first wait: everybody, in closest() order.
healthcheck_peers ==
  /\ store # <<>>
  /\ Begin("probe", SetToSortSeq(DOMAIN store, <), 0)

\* A dial that ended makes room for the next candidate.
Refilled(w, i, ok) ==
  IF w.next <= Len(w.cands)
  THEN [w EXCEPT !.dialing = (@ \ {i}) \cup {w.next}, !.next = @ + 1]
  ELSE [w EXCEPT !.dialing = @ \ {i}]

\* One dial ends.  An opened session lands in the pool at once; the last one
\* wanted ends the wave and drops the dials in flight, unrecorded.
Dialled(i) ==
  LET p == wave.cands[i]
      fill == wave.kind = "fill"
  IN /\ wave.kind \in {"fill", "probe"}
     /\ i \in wave.dialing
     /\ \E ok \in BOOLEAN, rtt \in Rtts :
          /\ ok \/ rtt = Min(Rtts)
          /\ log' = [q \in DOMAIN log \cup {p} |->
                       IF q = p THEN [ok |-> ok, rtt |-> IF ok THEN rtt ELSE 0] ELSE log[q]]
          /\ pool' = IF ok /\ fill THEN [pool EXCEPT ![p] = @ + 1] ELSE pool
          /\ wave' = IF ok /\ fill /\ wave.added + 1 >= wave.max
                     THEN [wave EXCEPT !.kind = "ended", !.dialing = {}, !.added = @ + 1]
                     ELSE [Refilled(wave, i, ok) EXCEPT !.added = @ + IF ok THEN 1 ELSE 0]
     /\ UNCHANGED <<store, now, waves, last>>

Exhausted ==
  /\ wave.kind \in {"fill", "probe"}
  /\ wave.dialing = {}
  /\ wave' = [wave EXCEPT !.kind = "ended"]
  /\ UNCHANGED <<store, now, pool, log, waves, last>>

Ended ==
  /\ wave.kind = "ended"
  /\ wave' = NoWave
  /\ UNCHANGED <<store, now, pool, log, waves, last>>

\* A session ends and prune_dead removes its entry.
Dies(p) ==
  /\ pool[p] > 0
  /\ wave.kind = "none"
  /\ pool' = [pool EXCEPT ![p] = @ - 1]
  /\ UNCHANGED <<store, now, log, wave, waves, last>>

Tick ==
  /\ wave.kind = "none"
  /\ now < MaxNow
  /\ now' = now + 1
  /\ UNCHANGED <<store, pool, log, wave, waves, last>>

\* load_or_create: the peer list as an earlier run left it.
Init ==
  /\ now = 1
  /\ \E known \in SUBSET Peers : store \in [known -> Histories]
  /\ pool = [p \in Peers |-> 0]
  /\ log = <<>>
  /\ wave = NoWave
  /\ waves = 0
  /\ last = [p \in Peers |->
               IF p \in DOMAIN store
               THEN [at |-> Max({store[p].success, store[p].failure}),
                     ok |-> store[p].success > store[p].failure, good |-> store[p].success]
               ELSE [at |-> Never, ok |-> FALSE, good |-> Never]]

Next ==
  \/ apply_log \/ top_up \/ healthcheck_peers \/ Exhausted \/ Ended \/ Tick
  \/ \E p \in Peers : Announce(p) \/ Dies(p)
  \/ \E i \in wave.dialing : Dialled(i)

Spec == Init /\ [][Next]_vars

-----------------------------------------------------------------------------
\* The types of the store, the pool and the wave.
TypeOK ==
  /\ DOMAIN store \subseteq Peers /\ DOMAIN log \subseteq Peers
  /\ \A p \in DOMAIN store : store[p].strikes \in Nat /\ store[p].success <= now /\ store[p].failure <= now
  /\ Sessions <= Target
  /\ wave.dialing \subseteq 1..(wave.next - 1) /\ wave.next <= Len(wave.cands) + 1

\* A wave that ends with fewer sessions than it was to open has dialled every
\* candidate and seen every dial through (the window of open_session_pool_into
\* is refilled after a failure too).
ShortMeansExhausted ==
  wave.kind = "ended" /\ (wave.added < wave.max \/ wave.max = 0) =>
    wave.next = Len(wave.cands) + 1 /\ Range(wave.cands) \subseteq DOMAIN log

\* A fill dials no peer whose last dial failed within the last two minutes
\* before one that was never dialled or that answered when last asked
\* (apply_log, dial_rank, the spread and the sort together).  A success and a
\* failure in the same second count as a success.
RecentFailuresLast ==
  wave.kind = "fill" =>
    \A i, j \in DOMAIN wave.cands :
      LET p == last[wave.cands[i]]
          q == last[wave.cands[j]] IN
      /\ i < j /\ j <= Len(wave.cands) \div ConnPerPeer
      /\ p.at # Never /\ ~p.ok /\ p.good < p.at
      => ~(now - p.at < 2 /\ (q.at = Never \/ q.ok))

\* However many waves run, no peer has more sessions in the pool than it may
\* (top_up leaves out the peers already there).
PerPeerCap == \A p \in Peers : pool[p] <= ConnPerPeer
=============================================================================
