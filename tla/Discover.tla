------------------------------ MODULE Discover ------------------------------
(***************************************************************************)
(* Recursive peer discovery (discover_recursive_with_progress in           *)
(* src/src/client.rs): rounds of dials, each to the peers the round before *)
(* brought to light, with a window of dials in flight.                     *)
(*                                                                         *)
(* A dial is Transport::discover_peers (module Connect): it fails, or      *)
(* yields the peer itself and some of the broadcasts it sent.  What a peer *)
(* says of another is an underlay: one this build can dial, one it cannot  *)
(* (of a kind it has no transport for), or one nobody can reach from       *)
(* outside.                                                                *)
(***************************************************************************)
EXTENDS Integers, FiniteSets, FiniteSetsExt

CONSTANTS
  Peers,        \* overlays
  Boot,         \* what the bootstrap address resolves to
  Says,         \* Says[p]: the set of [peer, underlay] p may broadcast
  MaxRounds,    \* max_rounds
  Concurrency   \* the window

VARIABLES
  state,      \* "resolve", "round", "ok", "failed"
  round,      \* the current round
  frontier,   \* the addresses of this round not yet dialled
  inflight,   \* the dials under way
  next,       \* next_frontier
  seen,       \* seen_overlays, the peers returned
  dials,      \* history: dials[p]: how often p was dialled
  heard       \* history: what answered dials said, of underlays one can reach

vars == <<state, round, frontier, inflight, next, seen, dials, heard>>

Init ==
  /\ state = "resolve"
  /\ round = 0
  /\ frontier = {} /\ inflight = {} /\ next = {}
  /\ seen = {}
  /\ dials = [p \in Peers |-> 0]
  /\ heard = {}

\* The dials a window has room for, out of the addresses left; their order is
\* that of the answers, which is arbitrary.
Dial(left, flying) ==
  LET room == Concurrency - Cardinality(flying)
      n == IF room < Cardinality(left) THEN room ELSE Cardinality(left)
  IN \E now \in kSubset(n, left) :
       /\ inflight' = flying \cup now
       /\ frontier' = left \ now
       /\ dials' = [p \in Peers |-> IF p \in now THEN dials[p] + 1 ELSE dials[p]]

\* resolve: the bootstrap address names peers, or discovery fails.
Resolve ==
  /\ state = "resolve"
  /\ \E found \in SUBSET Boot :
       IF found = {}
       THEN state' = "failed" /\ UNCHANGED <<round, frontier, inflight, dials>>
       ELSE IF MaxRounds = 0
       THEN state' = "ok" /\ UNCHANGED <<round, frontier, inflight, dials>>
       ELSE state' = "round" /\ round' = 1 /\ Dial(found, {})
  /\ UNCHANGED <<next, seen, heard>>

\* Underlays nobody can reach are dropped, and peers that have no other.
routable(said) == {x \in said : x.underlay # "private"}

\* first_dialable_underlay.
dialable(x) == x.underlay = "dialable"

\* Mutant: a peer is queued whenever it is named.
queuedAll(first, said) == {x.peer : x \in {y \in said : dialable(y)}}

\* The targets of the next round, of the peers first heard of now.
queued(first, said) == {x.peer : x \in {y \in first : dialable(y)}}

\* A dial ends.  The first word on a peer counts: it is returned as it was
\* described then, and dialled in the next round if that can be.
Answered(p) ==
  /\ state = "round"
  /\ p \in inflight
  /\ \/ /\ Dial(frontier, inflight \ {p})
        /\ UNCHANGED <<next, seen, heard>>
     \/ \E some \in SUBSET Says[p] :
          LET said == routable(some \cup {[peer |-> p, underlay |-> "dialable"]})
              fresh == {x \in said : x.peer \notin {y.peer : y \in seen}}
          IN \E first \in SUBSET fresh :
               /\ \A x, y \in first : x.peer = y.peer => x = y
               /\ {x.peer : x \in first} = {x.peer : x \in fresh}
               /\ seen' = seen \cup first
               /\ next' = next \cup queued(first, said)
               /\ heard' = heard \cup said
               /\ Dial(frontier, inflight \ {p})
  /\ UNCHANGED <<state, round>>

\* The next round, unless there is nobody to ask or enough rounds were had.
EndRound ==
  /\ state = "round"
  /\ frontier = {} /\ inflight = {}
  /\ IF next = {} \/ round = MaxRounds
     THEN state' = "ok" /\ UNCHANGED <<round, frontier, inflight, next, dials>>
     ELSE round' = round + 1 /\ next' = {} /\ Dial(next, {}) /\ UNCHANGED state
  /\ UNCHANGED <<seen, heard>>

Next == Resolve \/ EndRound \/ \E p \in Peers : Answered(p)

Spec == Init /\ [][Next]_vars

-----------------------------------------------------------------------------
\* The types of a discovery.
TypeOK ==
  /\ state \in {"resolve", "round", "ok", "failed"}
  /\ round \in 0..MaxRounds
  /\ frontier \cup inflight \cup next \subseteq Peers
  /\ Cardinality(inflight) <= Concurrency
  /\ frontier \cap inflight = {}

\* Discovery asks no peer twice but the bootstrap peers, which answer a first
\* time to the address that was resolved and a second time to the entry they
\* made of themselves (seen_overlays; discover_peers seeds its result with the
\* peer it dialled).
DialledOnce == \A p \in Peers : dials[p] <= IF p \in Boot THEN 2 ELSE 1

\* Nothing that was heard is lost: at the end every peer that any answer
\* described with an underlay in reach is returned, once, with such an underlay
\* (all, seen_overlays, has_unroutable_ip4).
ReturnsWhatWasHeard ==
  /\ state = "ok" => {x.peer : x \in seen} = {x.peer : x \in heard}
  /\ \A x, y \in seen : x.peer = y.peer => x = y
  /\ \A x \in seen : x.underlay # "private"

\* A discovery that ends before its last round has asked every peer it knows how
\* to dial: nobody is left in a window or in the frontier (the loop over
\* inflight, frontier and next_frontier).
AsksEverybody ==
  state = "ok" /\ round < MaxRounds =>
    \A x \in seen : (x.underlay = "dialable" => dials[x.peer] > 0)
                      /\ (x.underlay # "dialable" => x.peer \in Boot \/ dials[x.peer] = 0)
=============================================================================
