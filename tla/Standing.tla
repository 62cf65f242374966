------------------------------ MODULE Standing ------------------------------
(***************************************************************************)
(* Who may use a batch at a relay: the owner cache and resolve_owner       *)
(* (src/src/pusher.rs), the challenges issued from its answers             *)
(* (challenge.rs, metered.rs) and the two requests that use them, GET      *)
(* /v1/challenge and the frame loop of POST /v1/push.                      *)
(*                                                                         *)
(* A lookup reads the chain twice, and the chain moves between and after   *)
(* the reads.  A read takes at most RpcMax (the HTTP client's timeout) or  *)
(* fails.  MACs and signatures are perfect: a challenge is the record that *)
(* was issued.                                                             *)
(***************************************************************************)
EXTENDS Integers, Sequences, FiniteSets, Functions

CONSTANTS
  Batches, Reqs,
  Frames,        \* the batch sequences of the POSTs
  Lookups,       \* PUSH_MAX_BATCH_LOOKUPS
  OwnerCap,      \* OWNER_CACHE_CAP
  OkTTL, BadTTL, \* OWNER_OK_TTL_SECS, OWNER_BAD_TTL_SECS
  ChallengeTTL,  \* CHALLENGE_TTL_SECS
  RpcMax,
  MaxUnix, MaxReqs, MaxMoves  \* bounds

ASSUME StandingAssumption ==
  /\ Frames \subseteq Seq(Batches) /\ Lookups \in Nat \ {0} /\ OwnerCap \in Nat
  /\ OkTTL \in Nat \ {0} /\ BadTTL \in Nat /\ ChallengeTTL \in Nat /\ RpcMax \in Nat
  /\ MaxUnix \in Nat /\ MaxReqs \in Nat /\ MaxMoves \in Nat

VARIABLES
  now_unix, started, moves,
  chain,    \* what the postage contract says of each batch, and since when it
            \* is funded or is not
  cache,    \* OwnerCache: map and order
  req,      \* the requests in progress
  issued    \* challenges: <<batch, expiry_unix>>

svars == <<now_unix, started, moves, chain, cache, req, issued>>

NoReq == [st |-> "idle", todo |-> <<>>, budget |-> 0, memo |-> "none", sent |-> 0,
          wants |-> "none", said |-> "none", spent |-> 0, errs |-> {}]

STypeOK ==
  /\ now_unix \in 0..MaxUnix /\ started \in 0..MaxReqs /\ moves \in 0..MaxMoves
  /\ \A b \in Batches : /\ chain[b].is \in {"absent", "funded", "expired"}
                        /\ chain[b].since <= now_unix
  /\ Range(cache.order) = DOMAIN cache.map /\ IsInjective(cache.order)
  /\ Len(cache.order) <= OwnerCap
  /\ \A r \in Reqs : /\ req[r].st \in {"idle", "next", "owner", "balance"}
                     /\ req[r].budget \in 0..Lookups

\* Longer than every lifetime: how long the chain has been as it is when the
\* relay starts.
LongAgo == ChallengeTTL + OkTTL + BadTTL + RpcMax

SInit ==
  /\ now_unix = 0 /\ started = 0 /\ moves = 0
  /\ chain \in [Batches -> {[is |-> x, since |-> -LongAgo] : x \in {"absent", "funded"}}]
  /\ cache = [map |-> [b \in {} |-> 0], order |-> <<>>]
  /\ req = [r \in Reqs |-> NoReq]
  /\ issued = {}

\* No read lasts longer than RpcMax.
STick ==
  /\ now_unix < MaxUnix
  /\ \A r \in Reqs : req[r].st \in {"owner", "balance"} => now_unix - req[r].sent < RpcMax
  /\ now_unix' = now_unix + 1
  /\ UNCHANGED <<started, moves, chain, cache, req, issued>>

\* A batch is bought, runs out and is cleaned up, or is topped up in time.
ChainMoves(b, is) ==
  /\ <<chain[b].is, is>> \in {<<"absent", "funded">>, <<"funded", "expired">>,
                               <<"expired", "funded">>, <<"expired", "absent">>}
  /\ moves < MaxMoves /\ moves' = moves + 1
  /\ chain' = [chain EXCEPT ![b] =
       [is |-> is, since |-> IF "funded" \in {chain[b].is, is} THEN now_unix ELSE chain[b].since]]
  /\ UNCHANGED <<now_unix, started, cache, req, issued>>

-----------------------------------------------------------------------------
\* OwnerCache.

fresh_for(b) == now_unix - cache.map[b].when < IF cache.map[b].owned THEN OkTTL ELSE BadTTL

get(b) == b \in DOMAIN cache.map /\ fresh_for(b)

insert(b, owned) ==
  LET order == IF b \in DOMAIN cache.map THEN cache.order ELSE Append(cache.order, b)
      over == IF Len(order) > OwnerCap THEN Len(order) - OwnerCap ELSE 0
      kept == SubSeq(order, over + 1, Len(order))
  IN  [map |-> [x \in Range(kept) |->
                  IF x = b THEN [owned |-> owned, when |-> now_unix] ELSE cache.map[x]],
       order |-> kept]

-----------------------------------------------------------------------------
\* resolve_owner, called for the head of a request's list.

\* The outcome for the batch at the head, after which the request goes on: a
\* POST keeps the last owner it resolved, and /v1/challenge issues.
Settled(r, ok) ==
  LET b == Head(req[r].todo)
  IN  /\ req' = [req EXCEPT ![r] = [@ EXCEPT !.st = "next", !.todo = Tail(req[r].todo),
                                             !.memo = IF ok THEN b ELSE req[r].memo,
                                             !.errs = req[r].errs \cup IF ok THEN {} ELSE {b}]]
      /\ issued' = IF ok /\ req[r].wants = "challenge"
                   THEN issued \cup {[batch |-> b, expiry |-> now_unix + ChallengeTTL]}
                   ELSE issued

\* The frame's batch is the one just resolved: nothing is asked.
Memo(r) ==
  /\ req[r].st = "next" /\ req[r].todo # <<>>
  /\ Head(req[r].todo) = req[r].memo
  /\ req' = [req EXCEPT ![r] = [@ EXCEPT !.todo = Tail(req[r].todo)]]
  /\ UNCHANGED <<now_unix, started, moves, chain, cache, issued>>

Asks(r) == req[r].st = "next" /\ req[r].todo # <<>> /\ Head(req[r].todo) # req[r].memo

Hit(r) ==
  /\ Asks(r) /\ get(Head(req[r].todo))
  /\ Settled(r, cache.map[Head(req[r].todo)].owned)
  /\ UNCHANGED <<now_unix, started, moves, chain, cache>>

OverBudget(r) ==
  /\ Asks(r) /\ ~get(Head(req[r].todo)) /\ req[r].budget = 0
  /\ Settled(r, FALSE)
  /\ UNCHANGED <<now_unix, started, moves, chain, cache>>

Spend(r) == req[r].budget - 1

ReadBatch(r) ==
  /\ Asks(r) /\ ~get(Head(req[r].todo)) /\ req[r].budget > 0
  /\ req' = [req EXCEPT ![r] = [@ EXCEPT !.st = "owner", !.budget = Spend(r), !.spent = req[r].spent + 1,
                                         !.sent = now_unix, !.said = "none"]]
  /\ UNCHANGED <<now_unix, started, moves, chain, cache, issued>>

\* The node evaluates the call some time before its answer arrives.
Serve(r) ==
  /\ req[r].st \in {"owner", "balance"} /\ req[r].said = "none"
  /\ req' = [req EXCEPT ![r] = [@ EXCEPT !.said = chain[Head(req[r].todo)].is]]
  /\ UNCHANGED <<now_unix, started, moves, chain, cache, issued>>

\* A read fails; so does the balance of a batch that is gone by then.  Nothing
\* is cached.
RpcFails(r) ==
  /\ req[r].st \in {"owner", "balance"}
  /\ Settled(r, FALSE)
  /\ UNCHANGED <<now_unix, started, moves, chain, cache>>

\* The batch exists: its balance is read next.
Exists(r) ==
  /\ req[r].st = "owner" /\ req[r].said \in {"funded", "expired"}
  /\ req' = [req EXCEPT ![r] = [@ EXCEPT !.st = "balance", !.sent = now_unix, !.said = "none"]]
  /\ UNCHANGED <<now_unix, started, moves, chain, cache, issued>>

\* A definitive answer: not found, out of balance, or owned.
Decide(r) ==
  LET b == Head(req[r].todo)
      owned == req[r].st = "balance" /\ req[r].said = "funded"
  IN  /\ \/ req[r].st = "owner" /\ req[r].said = "absent"
         \/ req[r].st = "balance" /\ req[r].said \in {"funded", "expired"}
      /\ cache' = insert(b, owned)
      /\ Settled(r, owned)
      /\ UNCHANGED <<now_unix, started, moves, chain>>

-----------------------------------------------------------------------------
\* The requests.

Begin(r, wants, todo, budget) ==
  /\ req[r].st = "idle" /\ started < MaxReqs
  /\ started' = started + 1
  /\ req' = [req EXCEPT ![r] = [NoReq EXCEPT !.st = "next", !.todo = todo, !.wants = wants,
                                             !.budget = budget]]
  /\ UNCHANGED <<now_unix, moves, chain, cache, issued>>

challenge_response(r, b) == Begin(r, "challenge", <<b>>, 1)

\* Mutant: a challenge never expires.
verifyForever(c) == TRUE

\* The capability is ours (the record), for this origin, and not expired.
verify(c) == now_unix <= c.expiry

\* An admitted POST names the batch of a challenge that verifies.
push(r, c, todo) == verify(c) /\ Begin(r, c.batch, todo, Lookups)

End(r) ==
  /\ req[r].st = "next" /\ req[r].todo = <<>>
  /\ req' = [req EXCEPT ![r] = NoReq]
  /\ UNCHANGED <<now_unix, started, moves, chain, cache, issued>>

SNext ==
  \/ STick
  \/ \E b \in Batches, is \in {"absent", "funded", "expired"} : ChainMoves(b, is)
  \/ \E r \in Reqs :
       \/ \E b \in Batches : challenge_response(r, b)
       \/ \E c \in issued, todo \in Frames : push(r, c, todo)
       \/ Memo(r) \/ Hit(r) \/ OverBudget(r) \/ ReadBatch(r) \/ Serve(r) \/ RpcFails(r)
       \/ Exists(r) \/ Decide(r) \/ End(r)

SSpec == SInit /\ [][SNext]_svars

-----------------------------------------------------------------------------
\* Properties.

\* The batch was funded within the last d units.
FundedWithin(b, d) == chain[b].is = "funded" \/ now_unix - chain[b].since <= d

\* Standing is never staler than the lifetimes add up to: a POST that begins
\* on a challenge names a batch that is funded, or was at most a challenge's
\* and a cached answer's lifetime and one read ago, however reads, cache hits
\* and the chain interleaved (resolve_owner, OwnerCache, Challenge::verify).
BeginsOnRecentStanding ==
  \A r \in Reqs : req[r].st = "idle" /\ req'[r].st # "idle" /\ req'[r].wants # "challenge"
    => FundedWithin(req'[r].wants, ChallengeTTL + OkTTL - 1 + RpcMax)

\* A batch bought or topped up is served again soon: one that has been funded
\* for a rejection's lifetime and one read is turned down only because a read
\* failed or the request asked about too many batches (OwnerCache::get).
RejectsOnRecentAnswer ==
  \A r \in Reqs : \A b \in req'[r].errs \ req[r].errs :
    chain[b].is = "funded" /\ now_unix - chain[b].since > BadTTL - 1 + RpcMax
      => req[r].st \in {"owner", "balance"} \/ req[r].budget = 0

\* One request causes at most Lookups reads of the chain, however its frames
\* alternate between batches (PUSH_MAX_BATCH_LOOKUPS).
LookupsBounded == \A r \in Reqs : req[r].spent <= Lookups

\* A POST is admitted, and an uploader turned away, on answers of the chain that
\* are recent; a request reads it a bounded number of times (resolve_owner,
\* OwnerCache, challenge.rs).
StandingIsRecent ==
  /\ [][BeginsOnRecentStanding]_svars
  /\ [][RejectsOnRecentAnswer]_svars
  /\ [](STypeOK /\ LookupsBounded)
=============================================================================
