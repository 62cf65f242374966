------------------------------- MODULE Upload -------------------------------
(***************************************************************************)
(* From an object's bytes to stamped chunks: splitting and deduplication,  *)
(* the postage slot each chunk is stamped with, the windowed streamer and  *)
(* the cache that lets the daemon serve its own uploads                    *)
(* (src/src/client.rs 1954-2646, 3742-3860, src/src/cache.rs).             *)
(*                                                                         *)
(* A chunk is its address.  A job is what one call uploads: the chunks of  *)
(* each file in the order they are cut (an address recurs when the content *)
(* does), the chunks of the manifest, and the path it takes.  "pool" is    *)
(* the daemon's path, where everything is stamped and cached before the    *)
(* push starts; "window" is the relay's, where UploadStreamer stamps a     *)
(* window at a time as the scheduler asks for more.  Signing and the       *)
(* hashing of content are left out: only which slot goes to which address  *)
(* matters.                                                                *)
(***************************************************************************)
EXTENDS Integers, Sequences, SequencesExt, FiniteSets

CONSTANTS
  Uploads,      \* concurrent calls, all stamping with one batch
  Jobs,         \* upload -> [kind, path, files, manifest]
  Bucket,       \* address -> the postage bucket its prefix selects
  Batches,      \* [capacity, immutable]: slots per bucket, 2^(depth - BUCKET_DEPTH),
                \*   and the batch's flag
  Window        \* chunks per next_batch call

VARIABLES
  batch,        \* the batch the uploads stamp with
  up,           \* upload -> its progress
  cache,        \* ChunkCache: address -> who stamped it, and the slot
  order         \* history: the pool uploads in the order they filled the cache

uvars == <<batch, up, cache, order>>

Addresses == DOMAIN Bucket
Buckets == {Bucket[a] : a \in Addresses}
Missing == [by |-> "none", index |-> 0]

Fresh == [st |-> "new", todo |-> <<>>, total |-> 0, out |-> <<>>, ok |-> TRUE,
          used |-> [b \in Buckets |-> 0]]

\* The kind of every variable.
UTypeOK ==
  /\ \A u \in Uploads :
       /\ up[u].st \in {"new", "streaming", "pushing", "done", "failed"}
       /\ \A b \in Buckets : up[u].used[b] \in Nat
       /\ Len(up[u].out) + Len(up[u].todo) <= up[u].total
  /\ \A a \in Addresses : cache[a] = Missing \/ cache[a].by \in Uploads

UInit ==
  /\ batch \in Batches
  /\ up = [u \in Uploads |-> Fresh]
  /\ cache = [a \in Addresses |-> Missing]
  /\ order = <<>>

\* `seen.insert(addr)`: the first occurrence of an address stays.
Distinct(s) ==
  FoldLeft(LAMBDA acc, a : IF Contains(acc, a) THEN acc ELSE Append(acc, a), <<>>, s)

\* Both splitters collect the chunks of one object by address.
split_chunks(file) == Distinct(file)

\* Mutant: the collection stamps the chunks of each file as they come.
stamp_inRepeats(job) == FlattenSeq([i \in DOMAIN job.files |-> split_chunks(job.files[i])]) \o job.manifest

\* The addresses to stamp.  A collection deduplicates across its files and its
\* manifest, which share headers, padding and identical assets; a single file
\* and its one-entry manifest have no chunk in common.
stamp_in(job) ==
  LET parts == FlattenSeq([i \in DOMAIN job.files |-> split_chunks(job.files[i])])
  IN IF job.kind = "collection" THEN Distinct(parts \o job.manifest) ELSE parts \o job.manifest

\* A new issuer for every upload: it starts from an empty bucket map.
build_stamper == [b \in Buckets |-> 0]

\* The issuer (external): MemoryIssuer refuses a full bucket, RingIssuer wraps.
\* `used` counts the slots it handed out in each bucket.
prepare_stamp(u, a) ==
  LET b == Bucket[a]
  IN IF ~u.ok \/ (batch.immutable /\ u.used[b] = batch.capacity)
     THEN [u EXCEPT !.ok = FALSE]
     ELSE [u EXCEPT !.used[b] = @ + 1,
                    !.out = Append(@, [addr |-> a, index |-> u.used[b] % batch.capacity])]

\* Indices are allocated serially; the first error ends the call, and the
\* digests prepared before it are dropped with it.
stamp_chunks_parallel(u, work) ==
  LET after == FoldLeft(prepare_stamp, u, work)
  IN IF after.ok THEN after ELSE [u EXCEPT !.ok = FALSE, !.used = after.used]

\* ChunkCache::put_many overwrites what is there.
populate_cache(u, out) ==
  [a \in Addresses |->
    IF \E i \in DOMAIN out : out[i].addr = a
    THEN [by |-> u, index |-> (CHOOSE x \in ToSet(out) : x.addr = a).index]
    ELSE cache[a]]

\* upload_bytes_with_pool and upload_file_with_manifest_with_pool up to the
\* push: split, stamp and cache without an await between them.
PrepareUpload(u) ==
  /\ up[u].st = "new"
  /\ Jobs[u].path = "pool"
  /\ LET work == stamp_in(Jobs[u])
         p == stamp_chunks_parallel([Fresh EXCEPT !.used = build_stamper, !.total = Len(work)], work)
     IN IF p.ok
        THEN /\ up' = [up EXCEPT ![u] = [p EXCEPT !.st = "pushing"]]
             /\ cache' = populate_cache(u, p.out)
             /\ order' = Append(order, u)
             /\ UNCHANGED batch
        ELSE /\ up' = [up EXCEPT ![u] = [Fresh EXCEPT !.st = "failed", !.ok = FALSE]]
             /\ UNCHANGED <<batch, cache, order>>

\* UploadStreamer::new_*: the work list, reversed so that windows pop from the
\* back; here it is kept in push order and windows come from the front.
from_parts(u) ==
  /\ up[u].st = "new"
  /\ Jobs[u].path = "window"
  /\ LET work == stamp_in(Jobs[u])
     IN up' = [up EXCEPT ![u] = [Fresh EXCEPT !.st = "streaming", !.todo = work,
                                              !.used = build_stamper, !.total = Len(work)]]
  /\ UNCHANGED <<batch, cache, order>>

\* `batch_size.min(self.remaining.len())` pops.
Taken(u) ==
  LET n == IF Window < Len(u.todo) THEN Window ELSE Len(u.todo)
  IN [work |-> SubSeq(u.todo, 1, n), rest |-> SubSeq(u.todo, n + 1, Len(u.todo))]

\* UploadStreamer::next_batch: the window is consumed whether or not it could
\* be stamped; an empty window tells the driver that the source is exhausted.
next_batch(u) ==
  /\ up[u].st = "streaming"
  /\ IF up[u].todo = <<>>
     THEN up' = [up EXCEPT ![u].st = "pushing"]
     ELSE LET t == Taken(up[u])
              p == stamp_chunks_parallel(up[u], t.work)
          IN up' = [up EXCEPT ![u] = [p EXCEPT !.todo = t.rest,
                                               !.st = IF p.ok THEN "streaming" ELSE "failed"]]
  /\ UNCHANGED <<batch, cache, order>>

\* The push returns: the root is reported, or the error.
PushReturns(u) ==
  /\ up[u].st = "pushing"
  /\ \E st \in {"done", "failed"} : up' = [up EXCEPT ![u].st = st]
  /\ UNCHANGED <<batch, cache, order>>

UNext == \E u \in Uploads : PrepareUpload(u) \/ from_parts(u) \/ next_batch(u) \/ PushReturns(u)

(***************************************************************************)
(* Properties                                                              *)
(***************************************************************************)
\* The storing nodes accept an index below 2^(depth - bucketDepth), and one
\* chunk per slot: no upload stamps an address twice, none leaves the range,
\* and in an immutable batch no two of its chunks share a slot, over any
\* sequence of windows.
SlotsOwn ==
  \A u \in Uploads : \A i, j \in DOMAIN up[u].out :
    LET x == up[u].out[i]
        y == up[u].out[j]
    IN /\ x.index < batch.capacity
       /\ i # j => x.addr # y.addr
       /\ i # j /\ batch.immutable => Bucket[x.addr] # Bucket[y.addr] \/ x.index # y.index

\* A finished upload stamped every chunk of every file and of the manifest,
\* and as many as total_chunks announced to the scheduler at the start.
WholeObject ==
  \A u \in Uploads : up[u].st = "done" =>
    /\ {up[u].out[i].addr : i \in DOMAIN up[u].out}
         = UNION {ToSet(f) : f \in ToSet(Jobs[u].files)} \cup ToSet(Jobs[u].manifest)
    /\ Len(up[u].out) = up[u].total

\* From the moment a pool upload starts to push, the responder can serve each
\* of its chunks, with the stamp of the upload that stamped it last
\* (cache.rs:60 "the newer stamp is the one we want to serve").
ServesNewestStamp ==
  \A a \in Addresses :
    LET holders == {i \in DOMAIN order : \E x \in ToSet(up[order[i]].out) : x.addr = a}
    IN holders # {} =>
         cache[a].by = order[CHOOSE i \in holders : \A j \in holders : j <= i]
=============================================================================
