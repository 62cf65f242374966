------------------------------- MODULE Replicas -----------------------------
(***************************************************************************)
(* Where the dispersed replicas of a root chunk go                         *)
(* (src/src/erasure/replicas.rs: Replicator).  Mined bytes are tried in    *)
(* order; the address a byte yields is a hash, so a step takes any address.*)
(* An uploader and a downloader mine the same bytes: one replicator per    *)
(* level runs on the same candidates.  Only the top Depth bits of an       *)
(* address matter, and a candidate is known by them.                       *)
(***************************************************************************)
EXTENDS Integers, Sequences, SequencesExt

CONSTANT Depth   \* the widest level: PARANOID

VARIABLE rep     \* level -> its replicator: queue, taken neighbourhoods, next slots, output

Levels == 1..Depth
Addresses == 0..(2^Depth - 1)
None == -1

\* REPLICA_COUNTS
Wanted(level) == IF level = 0 THEN 0 ELSE 2^level

NewReplicator ==
  [queue |-> [s \in 0..(2^Depth - 1) |-> None], exist |-> {},
   sizes |-> [d \in 0..Depth |-> Wanted(d)], n |-> 0, out |-> <<>>]

PTypeOK == \A d \in Levels : rep[d].n \in 0..(2^Depth - 1) /\ Len(rep[d].out) <= 2^Depth

PInit == rep = [d \in Levels |-> NewReplicator]

-----------------------------------------------------------------------------
\* The neighbourhood of an address at a level: its top bits.
nh(level, a) == <<level, a \div 2^(Depth - level)>>

\* The coarsest level with a free neighbourhood takes the candidate.
RECURSIVE add(_, _, _)
add(r, a, level) ==
  IF level = 0 \/ nh(level, a) \in r.exist THEN [r |-> r, placed |-> FALSE]
  ELSE LET weaker == add([r EXCEPT !.exist = @ \cup {nh(level, a)}], a, level - 1)
           slot == weaker.r.sizes[level - 1]
       IN  IF weaker.placed THEN weaker
           ELSE [r |-> [weaker.r EXCEPT !.sizes[level - 1] = @ + 1,
                                        !.queue = [s \in DOMAIN @ |-> IF s = slot THEN a ELSE @[s]]],
                 placed |-> TRUE]

\* The filled run of the queue from n on; n moves to the hole after it, or to
\* the last slot.
Flush(r) ==
  LET holes == {s \in DOMAIN r.queue : s >= r.n /\ r.queue[s] = None}
      hole == IF holes = {} THEN 2^Depth ELSE CHOOSE s \in holes : \A t \in holes : s <= t
  IN  [r EXCEPT !.out = @ \o [i \in 1..(hole - r.n) |-> r.queue[r.n + i - 1]],
                !.n = IF hole = 2^Depth THEN hole - 1 ELSE hole]

\* One mined byte, for every level that still wants replicas.
Mine(a) ==
  rep' = [d \in Levels |->
            IF Len(rep[d].out) >= Wanted(d) THEN rep[d]
            ELSE LET t == add(rep[d], a, d) IN IF t.placed THEN Flush(t.r) ELSE t.r]

PNext == \E a \in Addresses : Mine(a)

-----------------------------------------------------------------------------
\* Properties.

\* run's result.
Replicas(d) == SubSeq(rep[d].out, 1, IF Len(rep[d].out) < Wanted(d) THEN Len(rep[d].out) ELSE Wanted(d))

\* A download that assumes the widest level walks, first, exactly the
\* replicas that an upload at any narrower level stored, in its order.
Nested ==
  \A d, e \in Levels : d <= e =>
    IsPrefix(Replicas(d), Replicas(e)) \/ IsPrefix(Replicas(e), Replicas(d))

\* A finished search at a level has a replica in every neighbourhood of that
\* level: no two replicas share one.
Dispersed ==
  \A d \in Levels : Len(Replicas(d)) = Wanted(d) =>
    {nh(d, Replicas(d)[i])[2] : i \in 1..Wanted(d)} = 0..(2^d - 1)
=============================================================================
