------------------------------ MODULE MCContent -----------------------------
(***************************************************************************)
(* The content path, for TLC: fetching chunks, joining and encoding with   *)
(* redundancy, replicas of the root, feeds, manifests, uploads and the     *)
(* push of an erasure group.  These share no state; a behaviour runs one   *)
(* of them, and the variables of the others stay Off.                      *)
(***************************************************************************)
EXTENDS Integers, Sequences, FiniteSets, TLC

CONSTANTS Off, f1, f2, n1, n2, u1, u2, u3, Nil, c1, c2, c3, l1, l2, b1, b2, g1, MaxRetries

VARIABLES
  part,
  dialable, fetch, sessions, live, opened, defers, ended, scores, store,
  node, j_root, race, got, st, out,
  level, enc, leaves, e_root,
  rep,
  head, hint, res, misses, news,
  coll, index, want, at, rest, type, redirected, found,
  batch, up, cache, order,
  phase, attempts, on, hedged, pending, health, failStreak, backoffExp, inflight, served,
  outstanding, frames, unacked, hedgesUsed, acked, failed, skipped, groupAcked, refusals

rvars == <<dialable, fetch, sessions, live, opened, defers, ended, scores, store>>
jvars == <<node, j_root, race, got, st, out>>
evars == <<level, enc, leaves, e_root>>
fvars == <<head, hint, res, misses, news>>
mvars == <<coll, index, want, at, rest, type, redirected, found>>
uvars == <<batch, up, cache, order>>
lvars == <<phase, attempts, on, hedged, pending, health, failStreak, backoffExp, inflight, served,
           outstanding, frames, unacked, hedgesUsed, acked, failed, skipped, groupAcked, refusals>>

-----------------------------------------------------------------------------
\* Two fetches that race two peers; n2 has the chunk of f1, nobody that of f2,
\* whose persistent copy is corrupt.
R == INSTANCE Retrieval WITH
       Fetches <- {f1, f2}, Closest <- f1 :> <<n1, n2>> @@ f2 :> <<n2, n1>>,
       Builds <- {{n1, n2}, {n1}}, Unreachable <- {n1}, FullNode <- n1 :> 1 @@ n2 :> 0,
       Holders <- f1 :> {n2} @@ f2 :> {}, Stored <- f1 :> "none" @@ f2 :> "bad",
       Concurrency <- 2, InFlight <- 1, ScoreMax <- 1, ScoreLow <- 1,
       Target <- 2, MaxSessions <- 2, MaxDefers <- 1

\* A node of two data and up to two parity shards; four replica addresses.
J == INSTANCE Joiner WITH
       root <- j_root, Shards <- 2, Codes <- {0, 2}, Bytes <- {0, 1, 200}, InFlight <- 2,
       Replicas <- 4, Stored <- {0, 2}, Window <- 2

\* Nodes of five references: up to three data and two parity.
E == INSTANCE Encoder WITH
       root <- e_root, CHUNK_SIZE <- 2, BRANCHES <- 5, MAX_LEVEL <- 4, Low <- 1000,
       erasure_table <- 0 :> <<>> @@ 1 :> << <<3, 2>>, <<2, 1>>, <<1, 1>> >>, MaxLeaves <- 30

D == INSTANCE Replicas WITH Depth <- 3

\* A feed with and without updates, resolved by two resolvers that share the hint.
F == INSTANCE Feed WITH
       Resolvers <- {n1, n2}, PROBE_BAND <- 3, MAX_PROBE_INDEX <- 6, ANCHOR_ATTEMPTS <- 2,
       Checked <- FALSE, Heads <- {-1, 0, 4}, MaxHead <- 7, MaxNews <- 1, MaxMisses <- 2

\* Collections of up to four paths over three letters, with shared prefixes.
Paths == {<<1>>, <<1, 1>>, <<1, 1, 2>>, <<1, 2>>, <<2, 0, 1>>, <<2, 0, 2>>}
File(p) == [ref |-> ToString(p), type |-> IF Len(p) = 2 THEN Nil ELSE Len(p)]

M == INSTANCE Manifest WITH
       Collections <- {[p \in S |-> File(p)] : S \in {S \in SUBSET Paths : Cardinality(S) \in 1..4}},
       Indexes <- {<<>>, <<1, 1>>, <<2, 0, 1>>},
       Requests <- Paths \cup {<<>>, <<2>>, <<1, 1, 1>>, <<2, 1, 2>>, <<2, 0>>},
       Slash <- 0, None <- Nil

\* Two uploads through the pool and one through the streamer, with content in
\* common, on batches whose buckets they fill and do not fill.
U == INSTANCE Upload WITH
       Uploads <- {u1, u2, u3},
       Jobs <- u1 :> [kind |-> "collection", path |-> "pool", manifest |-> <<5, 3>>,
                      files |-> << <<1, 2, 1>>, <<2, 3>>, <<4>> >>]
            @@ u2 :> [kind |-> "file", path |-> "pool", manifest |-> <<5>>, files |-> << <<2, 2, 6>> >>]
            @@ u3 :> [kind |-> "collection", path |-> "window", manifest |-> <<6>>,
                      files |-> << <<1, 7>>, <<7, 3, 2>> >>],
       Bucket <- [c \in 1..7 |-> c % 2],
       Batches <- [capacity : {1, 2, 4}, immutable : BOOLEAN],
       Window <- 2

\* A Reed-Solomon group of three chunks, of which any two are enough, on two
\* lanes with one POST at a time each.
L == INSTANCE PushSched WITH
       Chunks <- {c1, c2, c3}, Lanes <- {l1, l2}, BatchIds <- {b1, b2}, NoLane <- Nil,
       Groups <- {g1}, NoGroup <- Nil, GroupOf <- [c \in {c1, c2, c3} |-> g1], Need <- g1 :> 2,
       GroupPolicy <- TRUE, InflightMax <- l1 :> 1 @@ l2 :> 1, Batch <- 2, ProbeBatch <- 1,
       MaxAttempts <- 2, FailStreak <- 1, MaxBackoffExp <- 0, HedgeBudget <- 0, MaxRefusals <- 0

-----------------------------------------------------------------------------
ContentInit ==
  /\ part \in {"retrieval", "join", "encode", "replicas", "feed", "manifest", "upload", "lanes"}
  /\ IF part = "retrieval" THEN R!Init
     ELSE dialable = Off /\ fetch = Off /\ sessions = Off /\ live = Off /\ opened = Off
            /\ defers = Off /\ ended = Off /\ scores = Off /\ store = Off
  /\ IF part = "join" THEN J!JInit
     ELSE node = Off /\ j_root = Off /\ race = Off /\ got = Off /\ st = Off /\ out = Off
  /\ IF part = "encode" THEN E!EInit ELSE level = Off /\ enc = Off /\ leaves = Off /\ e_root = Off
  /\ IF part = "replicas" THEN D!PInit ELSE rep = Off
  /\ IF part = "feed" THEN F!FInit
     ELSE head = Off /\ hint = Off /\ res = Off /\ misses = Off /\ news = Off
  /\ IF part = "manifest" THEN M!MInit
     ELSE coll = Off /\ index = Off /\ want = Off /\ at = Off /\ rest = Off /\ type = Off
            /\ redirected = Off /\ found = Off
  /\ IF part = "upload" THEN U!UInit ELSE batch = Off /\ up = Off /\ cache = Off /\ order = Off
  /\ IF part = "lanes" THEN L!Init
     ELSE phase = Off /\ attempts = Off /\ on = Off /\ hedged = Off /\ pending = Off /\ health = Off
            /\ failStreak = Off /\ backoffExp = Off /\ inflight = Off /\ served = Off
            /\ outstanding = Off /\ frames = Off /\ unacked = Off /\ hedgesUsed = Off /\ acked = Off
            /\ failed = Off /\ skipped = Off /\ groupAcked = Off /\ refusals = Off

ContentNext ==
  /\ UNCHANGED part
  /\ \/ part = "retrieval" /\ R!Next /\ UNCHANGED <<jvars, evars, rep, fvars, mvars, uvars, lvars>>
     \/ part = "join" /\ J!JNext /\ UNCHANGED <<rvars, evars, rep, fvars, mvars, uvars, lvars>>
     \/ part = "encode" /\ E!ENext /\ UNCHANGED <<rvars, jvars, rep, fvars, mvars, uvars, lvars>>
     \/ part = "replicas" /\ D!PNext /\ UNCHANGED <<rvars, jvars, evars, fvars, mvars, uvars, lvars>>
     \/ part = "feed" /\ F!FNext /\ UNCHANGED <<rvars, jvars, evars, rep, mvars, uvars, lvars>>
     \/ part = "manifest" /\ M!MNext /\ UNCHANGED <<rvars, jvars, evars, rep, fvars, uvars, lvars>>
     \/ part = "upload" /\ U!UNext /\ UNCHANGED <<rvars, jvars, evars, rep, fvars, mvars, lvars>>
     \/ part = "lanes" /\ L!Next /\ UNCHANGED <<rvars, jvars, evars, rep, fvars, mvars, uvars>>

ContentSpec ==
  ContentInit /\ [][ContentNext]_<<part, rvars, jvars, evars, rep, fvars, mvars, uvars, lvars>>

\* Fetches alone: each is a task that its runtime keeps polling, and every
\* request in it has a timeout.
FetchSpec ==
  ContentSpec /\ part = "retrieval" /\ \A f \in {f1, f2} : WF_rvars(R!Work(f))

-----------------------------------------------------------------------------
\* Retrieval: a fetch neither loses nor repeats a candidate and returns only a
\* chunk of its address, and fetches from a peer share one session.
FetchSound ==
  part = "retrieval" => R!TypeOK /\ R!NoCandidateLost /\ R!OnlyValid /\ R!ShareOneSession

\* Join: children are delivered exactly as stored, or too little survives; and
\* the root's replicas are where a reader looks first, one per neighbourhood.
RecoversExact ==
  /\ part = "join" => J!JTypeOK /\ J!JoinExact /\ J!LostForGood
  /\ part = "replicas" => D!PTypeOK /\ D!Nested /\ D!Dispersed

\* Encode: the joiner reads back every leaf the encoder wrote, and each node's
\* parities cover exactly its children.
TreeExact == part = "encode" => E!ETypeOK /\ E!ReadsBack /\ E!ParityCoversNode

\* Feed: an undisturbed resolve finds the head, and one that reports an empty
\* feed has been disturbed throughout.
ResolvesHead == part = "feed" => F!FTypeOK /\ F!ResolvesHead /\ F!EmptyForCause

\* Manifest: the trie answers as the collection would.
LookupExact == part = "manifest" => M!MTypeOK /\ M!LookupExact

\* Upload: the whole object is stamped, each address once and in a slot of its
\* own, and the cache serves each chunk with its newest stamp.
UploadExact ==
  part = "upload" => U!UTypeOK /\ U!WholeObject /\ U!SlotsOwn /\ U!ServesNewestStamp

\* Push of a group: no member is given up that is still needed.
SkippedOnlyWhenEnough == part = "lanes" => L!SkippedOnlyWhenEnough

-----------------------------------------------------------------------------
\* What a comment of client.rs says of max_retries, and the code does not do:
\* a fetch gives up once its attempts are used up.
GivesUp == R!GivesUp
=============================================================================
