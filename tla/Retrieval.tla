----------------------------- MODULE Retrieval ------------------------------
(***************************************************************************)
(* Chunk retrieval (src/src/client.rs: NetworkedStore, RetrievalCache).    *)
(* Several chunk fetches run at once.  Each races peers from its own       *)
(* queue; they share the session cache, one semaphore per cached session,  *)
(* and the scoreboard that orders the candidates of later fetches.         *)
(*                                                                         *)
(* Every entry of a skiplist lives equally long, so the entries expire in  *)
(* the order of insertion: the skiplist is a sequence, and what has        *)
(* expired is a prefix of it.                                              *)
(***************************************************************************)
EXTENDS Integers, Sequences, SequencesExt, FiniteSets, FiniteSetsExt, TLC

CONSTANTS
  Fetches,      \* chunk fetches, one address each
  Closest,      \* for each fetch: all peers, the closest to its address first
  Builds,       \* for each build: the peers with an underlay it can dial
  Unreachable,  \* peers that recently failed to dial, from the peer list
  FullNode,     \* for each peer: 0 full node, 1 unknown, 2 light node
  Holders,      \* for each fetch: the peers that can deliver the chunk
  Stored,       \* for each fetch: "none", "good" or "bad" in the persistent cache
  Concurrency,  \* peers a fetch races
  MaxRetries,   \* max_retries; 0 is no cap
  InFlight,     \* MAX_INFLIGHT_PER_SESSION
  ScoreMax,     \* PEER_SCORE_MAX
  ScoreLow,     \* PEER_SCORE_MIN is -ScoreLow
  Target,       \* sessions prewarm asks for
  MaxSessions,  \* bound: sessions opened
  MaxDefers     \* bound: rejected dials

VARIABLES
  dialable,   \* the peers this build can dial
  fetch,      \* each fetch: its candidates, queue, attempts, skiplist, outcome
  sessions,   \* the session cache: peer -> session, 0 for none
  live,       \* sessions whose connection is open
  opened,     \* sessions opened so far
  defers,     \* rejected dials so far
  ended,      \* whether a session has ended
  scores,     \* peer_scores
  store       \* the persistent chunk cache

vars == <<dialable, fetch, sessions, live, opened, defers, ended, scores, store>>

Peers == ToSet(Closest[CHOOSE f \in Fetches : TRUE])

NoAttempt == [st |-> "none", ses |-> 0]
NewFetch == [st |-> "new", cand |-> <<>>, queue |-> <<>>, skip |-> <<>>, deferred |-> 0,
             try |-> [p \in Peers |-> NoAttempt], from |-> "none"]

Racing(f) == {p \in Peers : f.try[p].st # "none"}

\* Fetches that hold a permit of session s.
Permits(s) == {<<f, p>> \in Fetches \X Peers : fetch[f].try[p] = [st |-> "get", ses |-> s]}

TypeOK ==
  /\ sessions \in [Peers -> 0..opened] /\ live \subseteq 1..opened /\ opened \in 0..MaxSessions
  /\ scores \in [Peers -> (-ScoreLow)..ScoreMax]
  /\ \A f \in Fetches : /\ fetch[f].st \in {"new", "on", "ok", "error"}
                        /\ Cardinality(Racing(fetch[f])) <= Concurrency

Init ==
  /\ dialable \in Builds
  /\ fetch = [f \in Fetches |-> NewFetch]
  /\ sessions = [p \in Peers |-> 0] /\ live = {} /\ opened = 0 /\ defers = 0 /\ ended = FALSE
  /\ scores = [p \in Peers |-> 0]
  /\ store = Stored

-----------------------------------------------------------------------------
\* The candidates of a fetch.

reach(p) == CASE p \notin dialable -> 4 [] scores[p] > 0 -> 0 [] scores[p] < 0 -> 3
              [] OTHER -> IF p \in Unreachable THEN 2 ELSE 1

\* By reachability, then by node type, then by proximity.
Candidates(f) ==
  LET key(i) == reach(Closest[f][i]) * 1000 + FullNode[Closest[f][i]] * 100 + i
      order == SortSeq([i \in 1..Len(Closest[f]) |-> i], LAMBDA i, j : key(i) < key(j))
      cap == IF MaxRetries = 0 THEN Len(order) ELSE Min({MaxRetries, Len(order)})
  IN  [i \in 1..cap |-> Closest[f][order[i]]]

\* One attempt, polled for the first time: a peer without a dialable underlay
\* fails, a cached session is taken, otherwise a connection is opened.
Attempt(p) == [st |-> CASE p \notin dialable -> "undialable"
                        [] sessions[p] # 0 -> "acquire"
                        [] OTHER -> "connect",
               ses |-> sessions[p]]

\* Up to n peers from the front of the queue are tried.
Started(r, n) ==
  LET k == Min({n, Len(r.queue)})
      new == ToSet(SubSeq(r.queue, 1, k))
  IN  [r EXCEPT !.queue = SubSeq(@, k + 1, Len(@)),
                !.try = [p \in Peers |-> IF p \in new THEN Attempt(p) ELSE @[p]]]

\* The persistent cache answers in time with bytes that hash to the address.
StoredValid(f) == store[f] = "good"

\* The fetch begins: the persistent cache, then the peers.
Begin(f) ==
  /\ fetch[f].st = "new"
  /\ LET c == Candidates(f)
     IN  \/ /\ StoredValid(f)
            /\ fetch' = [fetch EXCEPT ![f].st = "ok", ![f].from = store[f]]
         \/ /\ c # <<>>
            /\ fetch' = [fetch EXCEPT ![f] =
                 Started([NewFetch EXCEPT !.st = "on", !.cand = c, !.queue = c], Concurrency)]
         \/ c = <<>> /\ fetch' = [fetch EXCEPT ![f].st = "error"]
  /\ UNCHANGED <<dialable, ended, sessions, live, opened, defers, scores, store>>

-----------------------------------------------------------------------------
\* The outcome of an attempt, handled by the fetch at once.

Next1(r) == Started(r, 1)
Over(r, p) == [r EXCEPT !.try[p] = NoAttempt]

\* Mutant: a peer whose session closed is dropped from the fetch.
DeferredNot(r, p) == Next1(Over(r, p))

\* Deferred: back of the queue.  (A whole cycle of deferrals only pauses.)
Deferred(r, p) == Next1([Over(r, p) EXCEPT !.queue = Append(@, p)])

\* With nothing in flight and nothing queued the fetch sleeps until the first
\* entry of its skiplist has expired, and starts over with those that have.
\* `gone' entries expired before it looked, `more' while it slept; the peer that
\* failed last was entered just now.
Refilled(r, gone, more) ==
  LET left == SubSeq(r.skip, gone + more + 1, Len(r.skip))
      back == SelectSeq(r.cand, LAMBDA p : p \notin ToSet(left))
  IN  IF gone = Len(r.skip) THEN [r EXCEPT !.st = "error", !.skip = <<>>]
      ELSE Started([r EXCEPT !.skip = left, !.queue = back], Concurrency)

\* Failed: into the skiplist.
Failed(r, p) ==
  LET a == Next1([Over(r, p) EXCEPT !.skip = Append(SelectSeq(@, LAMBDA q : q # p), p)])
  IN  IF Racing(a) # {} THEN {a}
      ELSE {Refilled(a, gone, more) : gone \in 0..(Len(a.skip) - 1), more \in 1..Len(a.skip)}

Get(r, p) == [r EXCEPT !.st = "ok", !.from = "good", !.try = [q \in Peers |-> NoAttempt], !.queue = <<>>,
              !.skip = <<>>]

\* A response of any kind makes the score positive, up to the maximum.
note_response(p) == scores' = [scores EXCEPT ![p] = Max({1, Min({ScoreMax, @ + 2})})]

\* A peer that times out or cannot be dialled sinks, down to the minimum.
note_timeout(p) == scores' = [scores EXCEPT ![p] = Max({-ScoreLow, @ - 1})]

Undialable(f, p) ==
  /\ fetch[f].try[p].st = "undialable"
  /\ \E r \in Failed(fetch[f], p) : fetch' = [fetch EXCEPT ![f] = r]
  /\ UNCHANGED <<dialable, ended, sessions, live, opened, defers, scores, store>>

\* entry().or_insert: of two concurrent first callers the second takes the
\* session of the first.
Cached(p, s) == IF sessions[p] = 0 THEN s ELSE sessions[p]

Connected(f, p) ==
  /\ fetch[f].try[p].st = "connect" /\ opened < MaxSessions
  /\ LET s == opened + 1
     IN  /\ opened' = s
         /\ sessions' = [sessions EXCEPT ![p] = IF @ = 0 THEN s ELSE @]
         /\ live' = live \cup (IF Cached(p, s) = s THEN {s} ELSE {})
         /\ fetch' = [fetch EXCEPT ![f].try[p] = [st |-> "acquire", ses |-> Cached(p, s)]]
  /\ UNCHANGED <<dialable, ended, defers, scores, store>>

\* The dial is rejected because another fetch dialled just now, or it fails.
DialTooSoon(f, p) ==
  /\ fetch[f].try[p].st = "connect" /\ defers < MaxDefers
  /\ defers' = defers + 1
  /\ fetch' = [fetch EXCEPT ![f] = Deferred(fetch[f], p)]
  /\ UNCHANGED <<dialable, ended, sessions, live, opened, scores, store>>

DialFailed(f, p) ==
  /\ fetch[f].try[p].st = "connect"
  /\ note_timeout(p)
  /\ \E r \in Failed(fetch[f], p) : fetch' = [fetch EXCEPT ![f] = r]
  /\ UNCHANGED <<dialable, ended, sessions, live, opened, defers, store>>

\* A permit of the session's semaphore.
AcquirePermit(f, p) ==
  /\ fetch[f].try[p].st = "acquire"
  /\ Cardinality(Permits(fetch[f].try[p].ses)) < InFlight
  /\ fetch' = [fetch EXCEPT ![f].try[p].st = "get"]
  /\ UNCHANGED <<dialable, ended, sessions, live, opened, defers, scores, store>>

\* The delivery hashes to the address: the fetch is done, the chunk is kept.
Delivered(f, p) ==
  /\ fetch[f].try[p].st = "get" /\ fetch[f].try[p].ses \in live /\ p \in Holders[f]
  /\ note_response(p)
  /\ fetch' = [fetch EXCEPT ![f] = Get(fetch[f], p)]
  /\ store' = [store EXCEPT ![f] = "good"]
  /\ UNCHANGED <<dialable, ended, sessions, live, opened, defers>>

\* The peer answers without the chunk, or with other bytes.
Refused(f, p) ==
  /\ fetch[f].try[p].st = "get" /\ fetch[f].try[p].ses \in live /\ p \notin Holders[f]
  /\ note_response(p)
  /\ \E r \in Failed(fetch[f], p) : fetch' = [fetch EXCEPT ![f] = r]
  /\ UNCHANGED <<dialable, ended, sessions, live, opened, defers, store>>

\* It answers late, or the stream fails.
TimedOut(f, p) ==
  /\ fetch[f].try[p].st = "get" /\ fetch[f].try[p].ses \in live
  /\ note_timeout(p) \/ UNCHANGED scores
  /\ \E r \in Failed(fetch[f], p) : fetch' = [fetch EXCEPT ![f] = r]
  /\ UNCHANGED <<dialable, ended, sessions, live, opened, defers, store>>

\* The session is over: it leaves the cache, and the peer is tried again.
Closed(f, p) ==
  /\ fetch[f].try[p].st = "get" /\ fetch[f].try[p].ses \notin live
  /\ sessions' = [sessions EXCEPT ![p] = 0]
  /\ fetch' = [fetch EXCEPT ![f] = Deferred(fetch[f], p)]
  /\ UNCHANGED <<dialable, ended, live, opened, defers, scores, store>>

-----------------------------------------------------------------------------
SessionEnds(s) ==
  /\ s \in live /\ live' = live \ {s} /\ ended' = TRUE
  /\ UNCHANGED <<dialable, fetch, sessions, opened, defers, scores, store>>

\* prewarm: a dial to an uncached peer lands; it is kept while the cache is
\* below the target, and never in place of a session a fetch opened meanwhile.
Prewarm(p) ==
  /\ p \in dialable /\ opened < MaxSessions
  /\ Cardinality({q \in Peers : sessions[q] # 0}) < Target
  /\ opened' = opened + 1
  /\ sessions' = [sessions EXCEPT ![p] = IF @ = 0 THEN opened + 1 ELSE @]
  /\ live' = live \cup (IF sessions[p] = 0 THEN {opened + 1} ELSE {})
  /\ UNCHANGED <<dialable, ended, fetch, defers, scores, store>>

Work(f) ==
  \/ Begin(f)
  \/ \E p \in Peers : \/ Undialable(f, p) \/ Connected(f, p) \/ DialTooSoon(f, p) \/ DialFailed(f, p)
                      \/ AcquirePermit(f, p) \/ Delivered(f, p) \/ Refused(f, p) \/ TimedOut(f, p)
                      \/ Closed(f, p)

Next ==
  \/ \E f \in Fetches : Work(f)
  \/ \E s \in live : SessionEnds(s)
  \/ \E p \in Peers : Prewarm(p)

Spec == Init /\ [][Next]_vars /\ \A f \in Fetches : WF_vars(Work(f))

-----------------------------------------------------------------------------
\* Properties.

\* A running fetch never loses a candidate and never has one twice: each is
\* queued, tried or in the skiplist, whatever is deferred, fails or expires.
NoCandidateLost ==
  \A f \in Fetches : LET r == fetch[f] IN
    r.st = "on" =>
      /\ Racing(r) # {}
      /\ Len(r.queue) + Cardinality(Racing(r)) + Len(r.skip) = Len(r.cand)
      /\ ToSet(r.queue) \cup Racing(r) \cup ToSet(r.skip) = ToSet(r.cand)

\* Fetches that reach a peer for the first time at the same moment end up on one
\* session, the cached one, as long as no session has ended.
ShareOneSession ==
  ~ended => \A f \in Fetches, p \in Peers :
              fetch[f].try[p].st \in {"acquire", "get"} => fetch[f].try[p].ses = sessions[p]

\* What a fetch returns hashes to the address, from a peer or from the
\* persistent cache.
OnlyValid == \A f \in Fetches : fetch[f].st = "ok" => fetch[f].from = "good"

-----------------------------------------------------------------------------
\* What comments say, and the code does not do.

\* A fetch gives up once its attempts are used up.
GivesUp == \A f \in Fetches : (fetch[f].st = "on") ~> (fetch[f].st \in {"ok", "error"})
=============================================================================
