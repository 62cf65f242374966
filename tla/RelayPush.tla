----------------------------- MODULE RelayPush -----------------------------
(***************************************************************************)
(* The relay's push endpoint (src/src/pusher.rs): the accept loop, the     *)
(* handler of POST /v1/push and the task it spawns, the cache of recent    *)
(* acks, the warm pool, and the shadow meter (meter.rs) the tasks report   *)
(* to.  Tasks run concurrently; the caches, the meter and the ledger are   *)
(* each behind a lock of their own.                                        *)
(*                                                                         *)
(* The dispatcher (push_chunks_with_pool_ex, module Dispatcher) is seen    *)
(* through its callback, and resolve_owner (module Standing) through its   *)
(* answer.  Admission is RelayLedger's.                                    *)
(***************************************************************************)
EXTENDS Integers, Sequences, FiniteSets, Functions, Sums

CONSTANTS
  Tasks,       \* connections, each with the task of its last POST
  Addrs,
  OwnedBatches,  \* batches whose stamps are well formed and signed by the owner
  Size,        \* bytes of the frame of each address
  Bodies,      \* the sequences of frames [addr, batch] that are posted; the
               \* batch "bad" is a malformed stamp, an unknown owner, or a
               \* signer who is not the owner
  Challenges,  \* what requests carry: batches, or "none" for no challenge
  RecentCap, AckTTL,
  RowCap,      \* METER_ROW_CAP
  MaxConns,    \* permits of the accept loop
  PoolTarget,
  MaxClock, MaxPosts  \* bounds

\* A frame, as decode_batch gives it.
Frame == [addr : Addrs, batch : OwnedBatches \cup {"bad"}]

\* The frames of one upload share a batch, so without a challenge too no POST
\* has one address under two batches; with a challenge the relay sees to it.
ASSUME PushAssumption ==
  /\ "bad" \notin OwnedBatches
  /\ Bodies \subseteq Seq(Frame)
  /\ Size \in [Addrs -> Nat] /\ Challenges \subseteq OwnedBatches \cup {"none"}
  /\ {RecentCap, AckTTL, RowCap, MaxConns, PoolTarget, MaxClock, MaxPosts} \subseteq Nat
  /\ "none" \in Challenges => \A body \in Bodies : \A i, j \in DOMAIN body :
       /\ body[i].addr = body[j].addr
       /\ "bad" \notin {body[i].batch, body[j].batch}
       => body[i].batch = body[j].batch

VARIABLES
  clock, posts,
  free,        \* permits nobody holds
  looping,     \* the accept loop holds a permit
  open,        \* connections that are open
  task,        \* the push task of each connection
  recent,      \* RecentAcks: seen and order
  pool,        \* entries of the warm pool
  meter,       \* rows, order and what was evicted
  merged,      \* history: everything merged into the meter
  bills,       \* history: KiB billed, commits, and merges without a commit
  pushed       \* history: <<addr, batch>> pairs the dispatcher pushed

conns == <<free, looping, open>>
caches == <<recent, pool, meter>>
history == <<merged, bills, pushed>>
pvars == <<clock, posts, free, looping, open, task, recent, pool, meter, merged, bills, pushed>>

NoTally == [rows |-> [b \in {} |-> 0], order |-> <<>>]

\* at: the next frame; accepted, left: frames to push, and those the dispatcher
\* has yet to resolve; uncached: acks yet to be remembered.
NewTask(st, body, batch) ==
  [st |-> st, body |-> body, at |-> 1, batch |-> batch,
   lines |-> [a \in Addrs |-> 0], accepted |-> {}, left |-> {},
   batch_of |-> [a \in Addrs |-> "none"], verdict |-> [a \in {} |-> TRUE],
   uncached |-> {}, deduped |-> {}, bytes |-> 0, tally |-> NoTally]

NoTask == NewTask("idle", <<>>, "none")

Kib(bytes) == (bytes + 1023) \div 1024

PTypeOK ==
  /\ clock \in 0..MaxClock /\ posts \in 0..MaxPosts
  /\ free \in 0..MaxConns /\ looping \in BOOLEAN /\ open \subseteq Tasks
  /\ \A t \in Tasks : task[t].st \in {"idle", "reading", "frames", "pool", "dialing",
                                      "pushing", "caching", "over"}
  /\ DOMAIN recent.seen \subseteq Addrs \X OwnedBatches
  /\ Range(recent.order) = DOMAIN recent.seen /\ IsInjective(recent.order)
  /\ Len(recent.order) <= RecentCap
  /\ Range(meter.order) = DOMAIN meter.rows /\ IsInjective(meter.order)
  /\ Len(meter.order) <= RowCap
  /\ pool \in 0..PoolTarget

PInit ==
  /\ clock = 0 /\ posts = 0
  /\ free = MaxConns /\ looping = FALSE /\ open = {}
  /\ task = [t \in Tasks |-> NoTask]
  /\ recent = [seen |-> [k \in {} |-> 0], order |-> <<>>]
  /\ pool = 0
  /\ meter = [rows |-> [b \in {} |-> 0], order |-> <<>>, kib |-> 0, dedup |-> 0]
  /\ merged = [kib |-> 0, dedup |-> 0]
  /\ bills = [kib |-> 0, posts |-> 0, open |-> 0]
  /\ pushed = {}

PTick == clock < MaxClock /\ clock' = clock + 1
         /\ UNCHANGED <<posts, conns, task, caches, history>>

-----------------------------------------------------------------------------
\* run(): a permit is taken before a connection is accepted, and given back
\* when the connection ends or accept() fails.

Acquire ==
  /\ ~looping /\ free > 0
  /\ looping' = TRUE /\ free' = free - 1
  /\ UNCHANGED <<clock, posts, open, task, caches, history>>

Accept(t) ==
  /\ looping /\ t \notin open /\ task[t].st \in {"idle", "over"}
  /\ looping' = FALSE /\ open' = open \cup {t}
  /\ task' = [task EXCEPT ![t] = NoTask]
  /\ UNCHANGED <<clock, posts, free, caches, history>>

AcceptFails ==
  /\ looping /\ looping' = FALSE /\ free' = free + 1
  /\ UNCHANGED <<clock, posts, open, task, caches, history>>

\* The connection ends.  A request whose body is still read is dropped with it;
\* a task that was spawned goes on.
Close(t) ==
  /\ t \in open
  /\ open' = open \ {t} /\ free' = free + 1
  /\ task' = [task EXCEPT ![t] = IF @.st = "reading" THEN NoTask ELSE @]
  /\ UNCHANGED <<clock, posts, looping, caches, history>>

-----------------------------------------------------------------------------
\* push_response().

\* An admitted request.
Post(t, body, batch) ==
  /\ t \in open /\ task[t].st \in {"idle", "over"} /\ posts < MaxPosts
  /\ posts' = posts + 1
  /\ task' = [task EXCEPT ![t] = NewTask("reading", body, batch)]
  /\ UNCHANGED <<clock, conns, caches, history>>

\* Too large, too slow, undecodable or empty: an error status, and the guard of
\* the reservation is dropped.
ReadFails(t) ==
  /\ task[t].st = "reading"
  /\ task' = [task EXCEPT ![t] = NoTask]
  /\ UNCHANGED <<clock, posts, conns, caches, history>>

ReadBody(t) ==
  /\ task[t].st = "reading"
  /\ task' = [task EXCEPT ![t] = [@ EXCEPT !.st = "frames"]]
  /\ UNCHANGED <<clock, posts, conns, caches, history>>

-----------------------------------------------------------------------------
\* RecentAcks.

\* Mutant: an ack is remembered whatever the batch was.
containsAddr(a, b) ==
  \E k \in DOMAIN recent.seen : k[1] = a /\ clock - recent.seen[k] < AckTTL

contains(a, b) ==
  <<a, b>> \in DOMAIN recent.seen /\ clock - recent.seen[<<a, b>>] < AckTTL

\* What leaves a queue with that many members too many.
Over(n, cap) == IF n > cap THEN n - cap ELSE 0

\* insert(): an entry keeps its place in the order; the oldest are dropped.
Remember(k) ==
  LET order == IF k \in DOMAIN recent.seen THEN recent.order ELSE Append(recent.order, k)
      kept == SubSeq(order, Over(Len(order), RecentCap) + 1, Len(order))
  IN  [seen |-> [x \in Range(kept) |-> IF x = k THEN clock ELSE recent.seen[x]],
       order |-> kept]

-----------------------------------------------------------------------------
\* run_push(): the frames, one after the other, with a possible await on the
\* chain before each.

Row(adm, ded) == [adm |-> adm, ded |-> ded]

\* PostTally::admit and ::dedup, on the row of the batch.
Tallied(tally, b, adm, ded) ==
  LET old == IF b \in DOMAIN tally.rows THEN tally.rows[b] ELSE Row(0, 0)
  IN  [rows |-> [x \in DOMAIN tally.rows \cup {b} |->
                   IF x = b THEN Row(old.adm + adm, old.ded + ded) ELSE tally.rows[x]],
       order |-> IF b \in DOMAIN tally.rows THEN tally.order ELSE Append(tally.order, b)]

\* Mutant: the bytes of a dedup hit count as pushed.
TallyDedupNot(tally, b, n) == Tallied(tally, b, n, 0)

TallyDedup(tally, b, n) == Tallied(tally, b, n, n)

Refused(t, f) == f.batch = "bad" \/ task[t].batch \notin {"none", f.batch}

\* What the frame does to the task: an error line, a line from the cache of
\* acks, or a place among the frames to push.
Framed(t) ==
  LET x == task[t]
      f == x.body[x.at]
      n == Size[f.addr]
      line == [x.lines EXCEPT ![f.addr] = @ + 1]
  IN  IF Refused(t, f)
      THEN [x EXCEPT !.at = x.at + 1, !.lines = line]
      ELSE IF contains(f.addr, f.batch)
      THEN [x EXCEPT !.at = x.at + 1, !.lines = line,
                     !.deduped = x.deduped \cup {<<f.addr, f.batch>>},
                     !.tally = TallyDedup(x.tally, f.batch, n)]
      ELSE [x EXCEPT !.at = x.at + 1, !.accepted = x.accepted \cup {x.at},
                     !.left = x.left \cup {x.at},
                     !.batch_of = [x.batch_of EXCEPT ![f.addr] = f.batch],
                     !.bytes = x.bytes + n,
                     !.tally = Tallied(x.tally, f.batch, n, 0)]

DoFrame(t) ==
  /\ task[t].st = "frames" /\ task[t].at <= Len(task[t].body)
  /\ task' = [task EXCEPT ![t] = Framed(t)]
  /\ UNCHANGED <<clock, posts, conns, caches, history>>

-----------------------------------------------------------------------------
\* Meter::merge.

\* KiB are rounded up per POST and row.
KibOf(r) == [kib |-> Kib(r.adm), dedup |-> IF Kib(r.ded) < Kib(r.adm) THEN Kib(r.ded)
                                           ELSE Kib(r.adm)]

Plus(r, s) == [kib |-> r.kib + s.kib, dedup |-> r.dedup + s.dedup]

\* The rows of a tally that the meter has none for, in the tally's order.
Fresh(tally) ==
  LET new == {i \in DOMAIN tally.order : tally.order[i] \notin DOMAIN meter.rows}
      rising == {s \in [1..Cardinality(new) -> new] :
                   \A i, j \in DOMAIN s : i < j => s[i] < s[j]}
  IN  {[i \in DOMAIN s |-> tally.order[s[i]]] : s \in rising}

\* The tally is added; then the oldest rows leave, and their totals stay.
Merge(tally, fresh) ==
  LET rows == [b \in DOMAIN meter.rows \cup DOMAIN tally.rows |->
                 IF b \notin DOMAIN tally.rows THEN meter.rows[b]
                 ELSE IF b \notin DOMAIN meter.rows THEN KibOf(tally.rows[b])
                 ELSE Plus(meter.rows[b], KibOf(tally.rows[b]))]
      order == meter.order \o fresh
      over == Over(Len(order), RowCap)
      out == Range(SubSeq(order, 1, over))
  IN  [rows |-> [b \in DOMAIN rows \ out |-> rows[b]],
       order |-> SubSeq(order, over + 1, Len(order)),
       kib |-> meter.kib + SumOver([b \in DOMAIN rows |-> rows[b].kib], out),
       dedup |-> meter.dedup + SumOver([b \in DOMAIN rows |-> rows[b].dedup], out)]

\* What the meter reports (summary).
LiveKib == SumOver([b \in DOMAIN meter.rows |-> meter.rows[b].kib], DOMAIN meter.rows)
LiveDedup == SumOver([b \in DOMAIN meter.rows |-> meter.rows[b].dedup], DOMAIN meter.rows)
kib_admitted == LiveKib + meter.kib
kib_dedup == (IF LiveDedup < LiveKib THEN LiveDedup ELSE LiveKib) + meter.dedup
billable == IF kib_admitted > kib_dedup THEN kib_admitted - kib_dedup ELSE 0

\* All frames are through: the reservation becomes debt for the bytes that are
\* to be pushed, the tally is merged, and a POST with nothing to push is done.
\* The two locks are taken one after the other with no await, and nothing reads
\* both the ledger and the meter.
Commit(t, fresh) ==
  LET x == task[t]
      rows == x.tally.rows
  IN  /\ x.st = "frames" /\ x.at > Len(x.body)
      /\ bills' = IF x.batch = "none" THEN [bills EXCEPT !.open = @ + 1]
                  ELSE [bills EXCEPT !.kib = @ + Kib(x.bytes), !.posts = @ + 1]
      /\ meter' = IF DOMAIN rows = {} THEN meter ELSE Merge(x.tally, fresh)
      /\ merged' = [kib |-> merged.kib
                              + SumOver([b \in DOMAIN rows |-> KibOf(rows[b]).kib], DOMAIN rows),
                    dedup |-> merged.dedup
                              + SumOver([b \in DOMAIN rows |-> KibOf(rows[b]).dedup], DOMAIN rows)]
      /\ task' = [task EXCEPT ![t] = [@ EXCEPT !.st = IF x.accepted = {} THEN "over" ELSE "pool"]]
      /\ UNCHANGED <<clock, posts, conns, recent, pool, pushed>>

-----------------------------------------------------------------------------
\* The warm pool.

\* The accepted frames of an address.
Entries(x, a) == {i \in x.accepted : x.body[i].addr = a}

\* get_pool(): a pool with sessions is used as it is.
GetPool(t) ==
  /\ task[t].st = "pool"
  /\ task' = [task EXCEPT ![t] = [@ EXCEPT !.st = IF pool > 0 THEN "pushing" ELSE "dialing"]]
  /\ UNCHANGED <<clock, posts, conns, caches, history>>

\* ensure_pool(): with no session after the dials, every entry gets an error.
Dialled(t, n) ==
  LET x == task[t]
      lines == [a \in Addrs |-> x.lines[a] + Cardinality(Entries(x, a))]
  IN  /\ x.st = "dialing" /\ pool + n <= PoolTarget
      /\ pool' = pool + n
      /\ task' = [task EXCEPT ![t] = IF pool + n > 0 THEN [x EXCEPT !.st = "pushing"]
                                     ELSE [x EXCEPT !.st = "over", !.lines = lines]]
      /\ UNCHANGED <<clock, posts, conns, recent, meter, history>>

\* push_maintenance() tops the pool up.  A session that ends stays an entry of
\* the pool: the relay never prunes.
Maintain(n) ==
  /\ pool + n <= PoolTarget /\ pool' = pool + n
  /\ UNCHANGED <<clock, posts, conns, task, recent, meter, history>>

-----------------------------------------------------------------------------
\* The dispatcher resolves an entry: a line goes out, and the last verdict of
\* an address stands.
Resolve(t, i, ok) ==
  LET x == task[t]
      f == x.body[i]
  IN  /\ x.st = "pushing" /\ i \in x.left
      /\ task' = [task EXCEPT ![t] =
           [x EXCEPT !.left = x.left \ {i}, !.lines = [x.lines EXCEPT ![f.addr] = @ + 1],
                     !.verdict = [a \in DOMAIN x.verdict \cup {f.addr} |->
                                    IF a = f.addr THEN ok ELSE x.verdict[a]]]]
      /\ pushed' = IF ok THEN pushed \cup {<<f.addr, f.batch>>} ELSE pushed
      /\ UNCHANGED <<clock, posts, conns, caches, merged, bills>>

\* The dispatcher returns, with every entry resolved or with a fatal error.
Return(t) ==
  LET x == task[t]
  IN  /\ x.st = "pushing"
      /\ task' = [task EXCEPT ![t] =
           [x EXCEPT !.st = "caching", !.uncached = {a \in DOMAIN x.verdict : x.verdict[a]}]]
      /\ UNCHANGED <<clock, posts, conns, caches, history>>

\* What was pushed is remembered, an address at a time, under the batch that
\* batch_of has for it.
CacheAck(t, a) ==
  /\ task[t].st = "caching" /\ a \in task[t].uncached
  /\ recent' = Remember(<<a, task[t].batch_of[a]>>)
  /\ task' = [task EXCEPT ![t] = [@ EXCEPT !.uncached = task[t].uncached \ {a}]]
  /\ UNCHANGED <<clock, posts, conns, pool, meter, history>>

\* What the dispatcher did not reach gets an error line.
Finish(t) ==
  LET x == task[t]
      lines == [a \in Addrs |-> x.lines[a] + IF a \in DOMAIN x.verdict THEN 0
                                             ELSE Cardinality(Entries(x, a))]
  IN  /\ x.st = "caching" /\ x.uncached = {}
      /\ task' = [task EXCEPT ![t] = [x EXCEPT !.st = "over", !.lines = lines]]
      /\ UNCHANGED <<clock, posts, conns, caches, history>>

-----------------------------------------------------------------------------
PNext ==
  \/ PTick \/ Acquire \/ AcceptFails
  \/ \E t \in Tasks :
       \/ Accept(t) \/ Close(t)
       \/ \E body \in Bodies, batch \in Challenges : Post(t, body, batch)
       \/ ReadFails(t) \/ ReadBody(t) \/ DoFrame(t) \/ GetPool(t)
       \/ \E fresh \in Fresh(task[t].tally) : Commit(t, fresh)
       \/ \E n \in 0..1 : Dialled(t, n)
       \/ \E i \in task[t].left, ok \in BOOLEAN : Resolve(t, i, ok)
       \/ Return(t) \/ Finish(t)
       \/ \E a \in task[t].uncached : CacheAck(t, a)
  \/ \E n \in 0..1 : Maintain(n)

PSpec == PInit /\ [][PNext]_pvars

-----------------------------------------------------------------------------
\* Properties.

\* The connection cap is real: every permit is free, held by an open connection
\* or by the accept loop, whatever accept() and the clients do.
PermitsConserved ==
  free + Cardinality(open) + (IF looping THEN 1 ELSE 0) = MaxConns

\* A frame is answered from the cache only when it was really pushed under the
\* same batch: nobody's stamp is discarded for another uploader's.
DedupWasPushed == \A t \in Tasks : task[t].deduped \subseteq pushed

\* Nothing of a POST that was read goes unanswered, and no frame is answered
\* twice: when the task is over each address has a line, and at no time has an
\* address more lines than frames.  (An address with several frames keeps the
\* verdict of one when the dispatcher fails before the others.)
EveryFrameAnswered ==
  \A t \in Tasks : \A a \in Addrs :
    LET posted == {i \in DOMAIN task[t].body : task[t].body[i].addr = a}
    IN  /\ task[t].lines[a] <= Cardinality(posted)
        /\ task[t].st = "over" /\ posted # {} => task[t].lines[a] > 0

\* Every address that was posted is answered, with no more lines than frames; an
\* ack from the cache stands for a push under the same batch; and no connection
\* keeps a permit (run, run_push, RecentAcks).
PushServed == PTypeOK /\ EveryFrameAnswered /\ DedupWasPushed /\ PermitsConserved

\* Eviction loses nothing from the meter's report.
MeterConserves == kib_admitted = merged.kib /\ kib_dedup = merged.dedup

\* The shadow meter and the ledger price the same traffic, over evictions: with
\* every POST billed, the meter never reports more than was billed, and less by
\* at most one KiB for each POST, which is the rounding (Meter::merge, summary).
ShadowTracksBill ==
  /\ MeterConserves
  /\ bills.open = 0 => billable <= bills.kib /\ bills.kib <= billable + bills.posts
=============================================================================
