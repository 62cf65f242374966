------------------------------- MODULE Anchors ------------------------------
(***************************************************************************)
(* The daemon's search for a better overlay (src/src/daemon.rs,            *)
(* auto_iterate_anchors): from the peers that took most pushes it derives  *)
(* a target, tries nonces in order, and writes the best one it met next to *)
(* the nonce file, for the operator to adopt.                              *)
(*                                                                         *)
(* An overlay is a sequence of bits; that of attempt n is overlays[n].     *)
(***************************************************************************)
EXTENDS Integers, Sequences, FiniteSets, FiniteSetsExt, SequencesExt

CONSTANTS
  Bits,      \* the length of an overlay
  Attempts,  \* MAX_ATTEMPTS
  MaxPo      \* the deepest target that is searched for (16)

VARIABLES
  targets,   \* the overlays of the best peers, a sequence
  current,   \* the daemon's overlay
  overlays,  \* the overlay of each attempt
  next_file  \* the attempt written to <nonce_file>.next, 0 if none

avars == <<targets, current, overlays, next_file>>

Overlays == [1..Bits -> {0, 1}]

\* proximity: the length of the common prefix.
proximity(x, y) == Max({0} \cup {n \in 1..Bits : \A i \in 1..n : x[i] = y[i]})

Pos(o) == [i \in DOMAIN targets |-> proximity(o, targets[i])]

MinPo(o) == Min({Pos(o)[i] : i \in DOMAIN targets})

Score(o) == FoldLeft(+, 0, Pos(o))

target_po ==
  LET avg == Score(current) \div Len(targets) IN IF avg + 1 < MaxPo THEN avg + 1 ELSE MaxPo

\* A candidate beats the best so far by its worst target, then by the sum.
Beats(o, best) ==
  \/ MinPo(o) > MinPo(best)
  \/ MinPo(o) = MinPo(best) /\ Score(o) > Score(best)

Overlay(n) == IF n = 0 THEN current ELSE overlays[n]

\* The search stops at the first best that meets the target.
Search ==
  FoldLeft(LAMBDA best, n :
             IF (best # 0 /\ MinPo(Overlay(best)) >= target_po) \/ ~ Beats(Overlay(n), Overlay(best))
             THEN best ELSE n,
           0, [n \in 1..Attempts |-> n])

\* Mutant: any nonce the search prefers is suggested.
WorthwhileAny(n) == n # 0

\* Only a better worst target is worth a restart.
Worthwhile(n) == n # 0 /\ MinPo(Overlay(n)) > MinPo(current)

AInit ==
  /\ targets \in {<<s, t>> : s, t \in Overlays}
  /\ current \in Overlays
  /\ overlays \in [1..Attempts -> Overlays]
  /\ next_file = 0

\* One tick; it writes nothing when the target is met already.
auto_iterate_anchors ==
  /\ target_po > MinPo(current)
  /\ Worthwhile(Search)
  /\ next_file' = Search
  /\ UNCHANGED <<targets, current, overlays>>

ANext == auto_iterate_anchors

-----------------------------------------------------------------------------
\* The types of the search's state.
ATypeOK == next_file \in 0..Attempts

\* The overlay suggested is strictly closer to the peer the daemon is farthest
\* from, and no attempt before it would have been a better suggestion
\* (auto_iterate_anchors' tie-break and its final test).
SuggestionImproves ==
  next_file # 0 =>
    /\ MinPo(overlays[next_file]) > MinPo(current)
    /\ \A n \in 1..(next_file - 1) : ~ Beats(overlays[n], overlays[next_file])
=============================================================================
