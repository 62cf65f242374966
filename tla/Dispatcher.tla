----------------------------- MODULE Dispatcher -----------------------------
(***************************************************************************)
(* The chunk dispatcher (src/src/client.rs: push_chunks_with_pool_inner,   *)
(* try_push_with_rotation) over a session pool that outlives it.  Every    *)
(* chunk of a push races a few peers of the pool; a race ends with the     *)
(* first full receipt, which cancels the others.  Beside the chunks the    *)
(* dispatcher dials replacements for sessions that are about to end.       *)
(*                                                                         *)
(* The chunks' futures are polled by one task and interleave at their      *)
(* awaits.  Receipts, dials and sessions are the network's; the order in   *)
(* which eligible peers are tried is left open.                            *)
(***************************************************************************)
EXTENDS Integers, Sequences, FiniteSets, FiniteSetsExt, Functions

CONSTANTS
  Chunks,       \* the chunks of a push
  Entries,      \* session entries, one for a peer
  Settings,     \* max_retries (peers tried for a chunk), with buffer (chunks
                \* in flight), parallel, CHUNK_PEER_PARALLELISM, and ends
                \* (bound), the entries whose session may end
  MaxChunkRetries, \* MAX_CHUNK_RETRIES
  Cap,          \* inflight_cap of an entry
  DeadStrikes,  \* DEAD_STRIKES
  Ghosts        \* entries whose session is near its ghost limit

ASSUME DispatcherAssumption ==
  /\ IsFiniteSet(Chunks) /\ IsFiniteSet(Entries)
  /\ Settings \subseteq [max_retries : Nat, buffer : Nat, parallel : Nat, ends : SUBSET Entries]
  /\ MaxChunkRetries \in Nat \ {0} /\ Cap \in Nat /\ DeadStrikes \in Nat

VARIABLES
  pool,     \* entries in the pool
  entry,    \* the state of each entry
  chunk,    \* the dispatch of each chunk
  push,     \* the call: its state, more_chunks and settings
  dials,    \* entries a pre-warm dial of this call is in flight for
  acked,    \* callbacks of this call, per chunk: the verdict, after how many tries
  ends      \* entries whose session may still end

vars == <<pool, entry, chunk, push, dials, acked, ends>>

NewEntry == [alive |-> TRUE, pending |-> FALSE, warming |-> FALSE, strikes |-> 0,
             dead |-> FALSE, inflight |-> 0]

NoAttempts == [e \in {} |-> "push"]

\* A chunk that is not being dispatched.  `seen' collects what the attempts of
\* a dispatch reported: overdrafts, best_shallow, errors, and "fatal" while
\* last_err is the batch not found.
Rest(st, tries) == [st |-> st, tries |-> tries, order |-> <<>>, idx |-> 0,
                    att |-> NoAttempts, seen |-> {}, todo |-> <<>>]

TypeOK ==
  /\ pool \subseteq Entries /\ dials \subseteq Entries
  /\ \A e \in Entries : /\ entry[e].strikes \in 0..DeadStrikes
                        /\ entry[e].inflight \in 0..Cardinality(Chunks)
  /\ \A c \in Chunks :
       /\ chunk[c].st \in {"queued", "start", "wait", "race", "refresh", "backoff", "done"}
       /\ chunk[c].tries \in 0..(MaxChunkRetries - 1)
       /\ chunk[c].idx <= Len(chunk[c].order)
       /\ Cardinality(DOMAIN chunk[c].att) <= push.parallel
  /\ push.st \in {"none", "on", "ok", "err"} /\ ends \subseteq Entries

Init ==
  /\ pool \in {{}, Entries}
  /\ entry = [e \in Entries |-> NewEntry]
  /\ chunk = [c \in Chunks |-> Rest("queued", 0)]
  /\ \E s \in Settings :
       /\ push = [st |-> "none", more |-> TRUE, max_retries |-> s.max_retries,
                  buffer |-> s.buffer, parallel |-> s.parallel]
       /\ ends = s.ends
  /\ dials = {} /\ acked = [c \in Chunks |-> <<>>]

Queued == {c \in Chunks : chunk[c].st = "queued"}
Busy == {c \in Chunks : chunk[c].st \notin {"queued", "done"}}

-----------------------------------------------------------------------------
\* The call begins: an empty pool is an error at once; otherwise the first
\* chunks are taken.
Begin ==
  /\ push.st = "none"
  /\ push' = [push EXCEPT !.st = IF pool = {} THEN "err" ELSE "on"]
  /\ \E S \in SUBSET Chunks :
       /\ Cardinality(S) = Min({push.buffer, Cardinality(Chunks)})
       /\ chunk' = [c \in Chunks |-> Rest(IF c \in S /\ pool # {} THEN "start" ELSE "queued", 0)]
  /\ UNCHANGED <<pool, entry, dials, acked, ends>>

\* build_order(): an entry that is not parked, below its cap, and whose session
\* is alive, replaced by a waiting one, or may be dialled (any entry may be in
\* its dial cooldown: `cool').
Eligible(cool) ==
  {e \in pool : /\ ~entry[e].dead /\ entry[e].inflight < Cap
                /\ entry[e].alive \/ entry[e].pending \/ e \notin cool}

\* The orders the entries of S may be tried in.
Orders(S) == Bijection(1..Cardinality(S), S)

limit(order) == Min({Max({push.max_retries, 1}), Len(order)})

\* The candidates a race starts with.
Seeds(order) == Range(SubSeq(order, 1, Min({push.parallel, limit(order)})))

\* Where an attempt on e begins: an entry parked since the order was built
\* fails at once; any other is counted, and a push to a session that ended is
\* cut short.
First(ent, e) == IF ent[e].dead THEN "parked" ELSE IF ent[e].alive THEN "push" ELSE "cut"

Started(ent, att, S) == [e \in DOMAIN att \cup S |-> IF e \in S THEN First(ent, e) ELSE att[e]]

\* The counts of the entries in S go up, those in T down.
Counted(ent, S, T) ==
  [e \in Entries |-> [ent[e] EXCEPT !.inflight =
     @ + (IF e \in S /\ ~ent[e].dead THEN 1 ELSE 0) - (IF e \in T THEN 1 ELSE 0)]]

\* The first candidates are raced, or the chunk waits for one.
Seed(c, order) ==
  LET S == Seeds(order)
      n == Cardinality(S)
  IN  /\ chunk' = [chunk EXCEPT ![c] =
           [@ EXCEPT !.st = IF n = 0 THEN "wait" ELSE "race", !.order = order, !.idx = n,
                     !.att = Started(entry, NoAttempts, S)]]
      /\ entry' = Counted(entry, S, {})

Dispatch(c, cool) ==
  /\ push.st = "on" /\ chunk[c].st \in {"start", "wait"}
  /\ chunk[c].st = "wait" => Eligible(cool) # {}
  /\ \E order \in Orders(Eligible(cool)) : Seed(c, order)
  /\ UNCHANGED <<pool, push, dials, acked, ends>>

-----------------------------------------------------------------------------
\* The driver, when the dispatch of a chunk resolves: `ent' is the state of the
\* entries by then.  Every resolution first sweeps the pool for sessions to
\* pre-warm.

\* maybe_prewarm for every entry of the pool: a session near its ghost limit, or
\* one that ended and was not struck since.
Warmable(ent) == {e \in pool : /\ ~ent[e].dead /\ ~ent[e].warming
                               /\ e \in Ghosts \/ (~ent[e].alive /\ ent[e].strikes = 0)}

Sweep(ent) ==
  /\ entry' = [e \in Entries |-> [ent[e] EXCEPT !.warming = @ \/ e \in Warmable(ent)]]
  /\ dials' = dials \cup Warmable(ent)

\* The chunk is resolved for good, and the next one is taken.
Resolve(c, verdict, ent) ==
  /\ Sweep(ent)
  /\ acked' = [acked EXCEPT ![c] = Append(@, [is |-> verdict, after |-> chunk[c].tries + 1])]
  /\ IF Queued = {}
     THEN /\ chunk' = [chunk EXCEPT ![c] = Rest("done", 0)]
          /\ push' = [push EXCEPT !.more = FALSE]
     ELSE /\ \E d \in Queued :
               chunk' = [chunk EXCEPT ![c] = Rest("done", 0), ![d] = Rest("start", 0)]
          /\ UNCHANGED push

\* Mutant: a retry that is not counted.
RetryFree(c, ent) ==
  /\ Sweep(ent)
  /\ chunk' = [chunk EXCEPT ![c] = Rest("backoff", @.tries)]
  /\ UNCHANGED <<push, acked>>

\* Another try, after a pause.
Retry(c, ent) ==
  /\ Sweep(ent)
  /\ chunk' = [chunk EXCEPT ![c] = Rest("backoff", @.tries + 1)]
  /\ UNCHANGED <<push, acked>>

Guarded(c) == {e \in DOMAIN chunk[c].att : chunk[c].att[e] # "parked"}

\* The call ends with an error; every other dispatch and every dial is dropped,
\* the dispatches with their guards.
Abort(c, ent) ==
  /\ acked' = [acked EXCEPT ![c] = Append(@, [is |-> "err", after |-> chunk[c].tries + 1])]
  /\ push' = [push EXCEPT !.st = "err"]
  /\ entry' = [e \in Entries |-> [ent[e] EXCEPT
                 !.warming = @ \/ e \in Warmable(ent),
                 !.inflight = @ - Cardinality({d \in Chunks \ {c} : e \in Guarded(d)})]]
  /\ chunk' = [d \in Chunks |-> Rest(IF d = c THEN "done" ELSE "queued", 0)]
  /\ dials' = {}

Spent(c, seen) == chunk[c].tries + 1 >= MaxChunkRetries

\* A dispatch that got no receipt: a batch nobody knows ends the call; anything
\* else is retried; once the retries are spent, a chunk some peer took in the
\* race is accepted as shallow, and any other ends the call.
Failed(c, ent, seen) ==
  \/ seen \cap {"shallow", "fatal"} = {"fatal"} /\ Abort(c, ent)
  \/ seen \cap {"shallow", "fatal"} # {"fatal"} /\ ~Spent(c, seen) /\ Retry(c, ent)
  \/ "shallow" \in seen /\ Spent(c, seen) /\ Resolve(c, "shallow", ent)
  \/ seen \cap {"shallow", "fatal"} = {} /\ Spent(c, seen) /\ Abort(c, ent)

\* Three seconds without a candidate: NoPeers.
GivesUpWaiting(c) ==
  /\ chunk[c].st = "wait" /\ Failed(c, entry, {})
  /\ UNCHANGED <<pool, ends>>

\* The retry starts once the pool has entries again or the wait for it is over.
Again(c) ==
  /\ chunk[c].st = "backoff"
  /\ chunk' = [chunk EXCEPT ![c].st = "start"]
  /\ UNCHANGED <<pool, entry, push, dials, acked, ends>>

-----------------------------------------------------------------------------
\* try_push_with_rotation: one attempt on an entry.

\* The pushed-to session ended: a waiting replacement is swapped in and pushed
\* to again; with none waiting the attempt dials.
Rotate(c, e) ==
  /\ e \in DOMAIN chunk[c].att /\ chunk[c].att[e] = "cut"
  /\ IF entry[e].pending
     THEN /\ entry' = [entry EXCEPT ![e].pending = FALSE, ![e].alive = TRUE]
          /\ chunk' = [chunk EXCEPT ![c].att[e] = "again"]
     ELSE /\ chunk' = [chunk EXCEPT ![c].att[e] = "dial"]
          /\ UNCHANGED entry
  /\ UNCHANGED <<pool, push, dials, acked, ends>>

Redialled(c, e) ==
  /\ e \in DOMAIN chunk[c].att /\ chunk[c].att[e] = "dial"
  /\ entry' = [entry EXCEPT ![e].alive = TRUE]
  /\ chunk' = [chunk EXCEPT ![c].att[e] = "again"]
  /\ UNCHANGED <<pool, push, dials, acked, ends>>

\* record_failure(): the last of DeadStrikes strikes in a row parks the entry.
Struck(ent, e) ==
  LET n == Min({ent[e].strikes + 1, DeadStrikes})
  IN  [ent EXCEPT ![e].strikes = n, ![e].dead = @ \/ n >= DeadStrikes]

\* What an attempt can end with, by where it stands: an entry parked early is
\* an error; a failed dial is a strike unless our own limiter refused it.
Outcomes(phase) ==
  CASE phase = "parked" -> {"error"}
    [] phase = "cut" -> {}
    [] phase = "dial" -> {"strike", "error"}
    [] OTHER -> {"overdraft", "shallow", "error", "fatal"}

Report(seen, how) ==
  CASE how \in {"strike", "error"} -> (seen \ {"fatal"}) \cup {"error"}
    [] how = "fatal" -> seen \cup {"error", "fatal"}
    [] OTHER -> seen \cup {how}

\* What is tried after a race without a receipt, uncounted and one by one: with
\* only overdrafts and shallow receipts so far, the peers beyond the limit, or
\* else, for credit that has had time to refresh, the raced ones again.
After(x, seen) ==
  LET extra == SubSeq(x.order, x.idx + 1, Len(x.order))
  IN  IF "error" \in seen THEN <<>>
      ELSE IF extra # <<>> THEN extra
      ELSE IF "overdraft" \in seen THEN SubSeq(x.order, 1, limit(x.order)) ELSE <<>>

\* An attempt ends without a receipt; the next candidate takes its place, and a
\* race with nobody left is over.  (The preempt timer finds nobody to add: a
\* race that is not full has no candidate left.)
Loses(c, e, how) ==
  LET x == chunk[c]
      nxt == IF x.idx < limit(x.order) THEN {x.order[x.idx + 1]} ELSE {}
      rest == Restrict(x.att, DOMAIN x.att \ {e})
      hit == IF how = "strike" THEN Struck(entry, e) ELSE entry
      ent == Counted(hit, nxt, {e} \cap Guarded(c))
      seen == Report(x.seen, how)
  IN  /\ e \in DOMAIN x.att /\ how \in Outcomes(x.att[e])
      /\ \/ /\ DOMAIN rest \cup nxt # {}
            /\ chunk' = [chunk EXCEPT ![c] =
                 [x EXCEPT !.idx = @ + Cardinality(nxt), !.att = Started(hit, rest, nxt),
                           !.seen = seen]]
            /\ entry' = ent
            /\ UNCHANGED <<push, dials, acked>>
         \/ /\ DOMAIN rest \cup nxt = {} /\ After(x, seen) # <<>>
            /\ chunk' = [chunk EXCEPT ![c] =
                 [Rest("refresh", x.tries) EXCEPT !.todo = After(x, seen),
                                                  !.seen = seen \cap {"shallow"}]]
            /\ entry' = ent
            /\ UNCHANGED <<push, dials, acked>>
         \/ /\ DOMAIN rest \cup nxt = {} /\ After(x, seen) = <<>>
            /\ Failed(c, ent, seen)
      /\ UNCHANGED <<pool, ends>>

\* Mutant: the racers a receipt cancels keep their counts.
DroppedNone(c, e) == {e}

\* The guards that go with a receipt for c from e: its own and every racer's.
Dropped(c, e) == Guarded(c)

\* A full receipt: the entry's strikes are cleared, the racers are dropped.
Receipt(c, e) ==
  /\ e \in DOMAIN chunk[c].att /\ chunk[c].att[e] \in {"push", "again"}
  /\ Resolve(c, "ok", Counted([entry EXCEPT ![e].strikes = 0], {}, Dropped(c, e)))
  /\ UNCHANGED <<pool, ends>>

\* One of the attempts after the race: an error ends them, an overdraft or a
\* shallow receipt goes on to the next.  An entry whose session ended is
\* redialled; a failed dial is a strike.
Sequential(c, how) ==
  LET x == chunk[c]
      e == Head(x.todo)
  IN  /\ x.st = "refresh"
      /\ how = "strike" => ~entry[e].alive
      /\ \/ /\ how = "receipt"
            /\ Resolve(c, "ok", [entry EXCEPT ![e].strikes = 0, ![e].alive = TRUE])
         \/ how = "strike" /\ Failed(c, Struck(entry, e), Report(x.seen, how))
         \/ how \in {"error", "fatal"} /\ Failed(c, entry, Report(x.seen, how))
         \/ how \in {"overdraft", "shallow"} /\ Len(x.todo) = 1 /\ Failed(c, entry, x.seen)
         \/ /\ how \in {"overdraft", "shallow"} /\ Len(x.todo) > 1
            /\ chunk' = [chunk EXCEPT ![c].todo = Tail(@)]
            /\ UNCHANGED <<entry, push, dials, acked>>
      /\ UNCHANGED <<pool, ends>>

-----------------------------------------------------------------------------
\* Mutant: the call returns once every chunk was taken.
ReturnEarly ==
  /\ push.st = "on" /\ ~push.more
  /\ push' = [push EXCEPT !.st = "ok"]
  /\ dials' = {}
  /\ UNCHANGED <<pool, entry, chunk, acked, ends>>

\* Every chunk is resolved: the call returns, and its dials are dropped.
Return ==
  /\ push.st = "on" /\ ~push.more /\ Busy = {}
  /\ push' = [push EXCEPT !.st = "ok"]
  /\ dials' = {}
  /\ UNCHANGED <<pool, entry, chunk, acked, ends>>

\* A pre-warm dial ends while chunks are still to come.
Warmed(e, how) ==
  /\ push.st = "on" /\ push.more /\ e \in dials
  /\ dials' = dials \ {e}
  /\ LET off == [entry EXCEPT ![e].warming = FALSE]
     IN  entry' = CASE how = "ok" -> [off EXCEPT ![e].strikes = 0, ![e].pending = TRUE]
                    [] how = "strike" -> Struck(off, e)
                    [] OTHER -> off
  /\ UNCHANGED <<pool, chunk, push, acked, ends>>

\* The heartbeat sweeps too.
Heartbeat ==
  /\ push.st = "on" /\ Warmable(entry) # {}
  /\ Sweep(entry)
  /\ UNCHANGED <<pool, chunk, push, acked, ends>>

-----------------------------------------------------------------------------
\* The pool's surroundings: sessions end under their pushes, the dead window of
\* an entry runs out, the maintainer of the call prunes and tops up.

SessionEnds(e) ==
  /\ e \in pool /\ entry[e].alive
  /\ push.st = "on" /\ e \in ends /\ ends' = ends \ {e}
  /\ entry' = [entry EXCEPT ![e].alive = FALSE]
  /\ chunk' = [c \in Chunks |-> [chunk[c] EXCEPT !.att =
                 [x \in DOMAIN @ |-> IF x = e /\ @[x] = "push" THEN "cut" ELSE @[x]]]]
  /\ UNCHANGED <<pool, push, dials, acked>>

Revives(e) ==
  /\ push.st = "on" /\ entry[e].dead
  /\ entry' = [entry EXCEPT ![e].dead = FALSE]
  /\ UNCHANGED <<pool, chunk, push, dials, acked, ends>>

prune_dead ==
  /\ pool' = {e \in pool : ~entry[e].dead /\ entry[e].alive}
  /\ push.st = "on" /\ pool' # pool
  /\ UNCHANGED <<entry, chunk, push, dials, acked, ends>>

\* A pruned entry lives on in the orders, attempts and dials that hold it.
Held(e) == e \in dials \/ \E c \in Chunks : e \in Range(chunk[c].order) \cup Range(chunk[c].todo)

\* The peer of an entry that is gone is dialled again, for a new entry.
top_up(e) ==
  /\ push.st = "on" /\ e \notin pool /\ ~Held(e)
  /\ pool' = pool \cup {e}
  /\ entry' = [entry EXCEPT ![e] = NewEntry]
  /\ UNCHANGED <<chunk, push, dials, acked, ends>>

-----------------------------------------------------------------------------
Step(c) ==
  \/ \E cool \in SUBSET Entries : Dispatch(c, cool)
  \/ GivesUpWaiting(c) \/ Again(c)
  \/ \E e \in Entries :
       \/ Rotate(c, e) \/ Redialled(c, e) \/ Receipt(c, e)
       \/ \E how \in {"strike", "overdraft", "shallow", "error", "fatal"} : Loses(c, e, how)
  \/ \E how \in {"receipt", "strike", "overdraft", "shallow", "error", "fatal"} :
       Sequential(c, how)

Driver == (\E c \in Chunks : Step(c)) \/ Return

Around ==
  \/ Begin
  \/ \E e \in Entries : SessionEnds(e) \/ Revives(e) \/ top_up(e)
  \/ \E e \in Entries, how \in {"ok", "strike", "too_soon"} : Warmed(e, how)
  \/ Heartbeat
  \/ prune_dead

Next == Driver \/ Around

Spec == Init /\ [][Next]_vars /\ WF_vars(Driver)

-----------------------------------------------------------------------------
\* Properties.

\* The counts are honest under cancellation: inflight_pushes of an entry is the
\* number of guarded attempts that are racing on it, on every way out of a
\* race and when the call is aborted.
InflightIsRacing ==
  \A e \in Entries :
    entry[e].inflight = Cardinality({c \in Chunks : e \in Guarded(c)})

\* The callback fires once for every chunk that is resolved, and a call that
\* succeeds resolved every chunk.
CalledBackOnce ==
  /\ \A c \in Chunks : Len(acked[c]) <= 1
  /\ push.st = "ok" => \A c \in Chunks : acked[c] # <<>> /\ acked[c][Len(acked[c])].is # "err"

\* A shallow receipt is accepted only when every retry was spent.
ShallowIsLastResort ==
  \A c \in Chunks : \A a \in Range(acked[c]) : a.is = "shallow" => a.after = MaxChunkRetries

\* At most one pre-warm dial of an entry is in flight, and its flag is up.
OneDialEach == \A e \in dials : entry[e].warming

\* Every push ends, whatever the peers answer: attempts, waits and retries are
\* all bounded.
PushEnds == (push.st = "on") ~> (push.st # "on")

\* The cap on an entry's pushes holds for the candidates every race starts with;
\* only those that replace a loser, whose order was built before, go beyond it.
SeedsWithinCap ==
  \A e \in Entries :
    Cardinality({c \in Chunks : e \in Guarded(c) /\ e \in Seeds(chunk[c].order)}) <= Cap

\* An entry's state is what is really going on: its count of pushes, which is
\* within the cap for the peers a race starts with, and its pre-warm flag.
CountsHonest == TypeOK /\ InflightIsRacing /\ SeedsWithinCap /\ OneDialEach

\* A chunk is resolved once, and with a shallow receipt only as a last resort.
ChunksResolved == CalledBackOnce /\ ShallowIsLastResort
=============================================================================
