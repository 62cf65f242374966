------------------------------- MODULE Joiner -------------------------------
(***************************************************************************)
(* Reading an erasure-coded object (src/src/client.rs: join_target,        *)
(* src/src/erasure/joiner.rs, src/src/erasure/replicas.rs: recover_root):  *)
(* the root is fetched, from its dispersed replicas if need be, and then   *)
(* the siblings under a node race in a bounded window; from any Shards of  *)
(* them the data is reconstructed.  Each fetch of a chunk ends on its own. *)
(***************************************************************************)
EXTENDS ReedSolomon

CONSTANTS
  Shards,    \* data references of the node
  Codes,     \* numbers of parity references the node may have
  Bytes,     \* values of a shard
  InFlight,  \* in_flight: siblings fetched at once
  Replicas,  \* addresses a download derives for the root, in dispersal order
  Stored,    \* how many of them an upload may have stored, from the first on
  Window     \* WINDOW of recover_root

VARIABLES
  node,     \* what the uploader stored: the data, the parity count, what is lost
  root,     \* the root: where its fetch stands, the replicas that survive
  race,     \* the race in progress: the next index, those in flight, those that failed
  got,      \* slots that landed
  st, out   \* where the join stands; the children it delivers

jvars == <<node, root, race, got, st, out>>

Total == Shards + node.parities
NoRace == [next |-> 0, flying |-> {}, failed |-> 0]

\* A window of `width' requests over indices 0 .. total - 1.
Opened(width, total) ==
  LET w == Min({Max({width, 1}), total})
  IN  [next |-> w, flying |-> 0..(w - 1), failed |-> 0]

\* i landed; the next index takes its place.
Refilled(r, i, total) ==
  [r EXCEPT !.next = Min({@ + 1, total}),
            !.flying = (@ \ {i}) \cup (IF r.next < total THEN {r.next} ELSE {})]

JTypeOK ==
  /\ st \in {"root", "replicas", "race", "ok", "lost", "noroot"}
  /\ race.flying \subseteq 0..(race.next - 1) /\ got \cap race.flying = {}
  /\ Cardinality(race.flying) <= Max({InFlight, Window})

JInit ==
  /\ \E m \in Codes :
       /\ \E data \in [0..(Shards - 1) -> Bytes], lost \in SUBSET (0..(Shards + m - 1)) :
            node = [parities |-> m, lost |-> lost, shard |-> encode(data, Shards, m)]
       /\ \E stored \in Stored : \E alive \in SUBSET (0..(stored - 1)) : root = [there |-> FALSE, alive |-> alive]
  /\ race = NoRace /\ got = {} /\ st = "root" /\ out = <<>>

-----------------------------------------------------------------------------
\* The direct fetch of the root; without it, its replicas.
FetchRoot(found) ==
  /\ st = "root"
  /\ root' = [root EXCEPT !.there = found]
  /\ IF found THEN st' = "race" /\ race' = Opened(InFlight, Total)
     ELSE st' = "replicas" /\ race' = Opened(Window, Replicas)
  /\ UNCHANGED <<node, got, out>>

\* recover_root: a replica that wraps the root ends the search, any other does
\* not; with none the join fails.
FetchReplica(i) ==
  LET r == Refilled(race, i, Replicas)
  IN  /\ st = "replicas" /\ i \in race.flying
      /\ \/ /\ i \in root.alive
            /\ root' = [root EXCEPT !.there = TRUE]
            /\ st' = "race" /\ race' = Opened(InFlight, Total)
         \/ /\ i \notin root.alive
            /\ race' = r
            /\ st' = IF r.flying = {} THEN "noroot" ELSE st
            /\ UNCHANGED root
      /\ UNCHANGED <<node, got, out>>

-----------------------------------------------------------------------------
\* fetch_node_children.

\* Too few siblings are left.
Hopeless(failed) == Total - failed < Shards

\* Without parity every child has to come; with parity any Shards siblings will
\* do, and the missing data is reconstructed.
Children(present) ==
  IF 0..(Shards - 1) \subseteq present THEN [i \in 0..(Shards - 1) |-> node.shard[i]]
  ELSE reconstruct_data(node.shard, present, Shards, node.parities)

FetchSlot(i) ==
  LET r == Refilled(race, i, Total)
  IN  /\ st = "race" /\ i \in race.flying
      /\ \/ /\ i \notin node.lost
            /\ got' = got \cup {i}
            /\ IF Cardinality(got') >= Shards
               THEN st' = "ok" /\ race' = NoRace /\ out' = Children(got')
               ELSE race' = r /\ UNCHANGED <<st, out>>
         \/ /\ i \in node.lost
            /\ race' = [r EXCEPT !.failed = @ + 1]
            /\ st' = IF node.parities = 0 \/ Hopeless(race.failed + 1) THEN "lost" ELSE st
            /\ UNCHANGED <<got, out>>
      /\ UNCHANGED <<node, root>>

JNext ==
  \/ \E found \in BOOLEAN : FetchRoot(found)
  \/ \E i \in 0..(Replicas - 1) : FetchReplica(i)
  \/ \E i \in 0..(Total - 1) : FetchSlot(i)

-----------------------------------------------------------------------------
\* Properties.

\* The join delivers exactly what was uploaded, whichever siblings landed first
\* and whichever had to be reconstructed.
JoinExact == st = "ok" => out = [i \in 0..(Shards - 1) |-> node.shard[i]]

\* It gives up only on a node that lost more siblings than it has parities, and
\* only on a root none of whose stored replicas survives.
LostForGood ==
  /\ st = "lost" => Cardinality(node.lost) > node.parities
  /\ st = "noroot" => root.alive = {}
=============================================================================
