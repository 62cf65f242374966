-------------------------------- MODULE Feed --------------------------------
(***************************************************************************)
(* Finding the head of a sequence feed (src/src/feed.rs: resolve_latest,   *)
(* confirm_anchor; src/src/client.rs: resolve_feed_root and the feed       *)
(* hints).  Several resolves share the hint; the publisher appends updates *)
(* meanwhile.  The probes of a round run together, so each may see any     *)
(* head the feed had during the round; a probe may also miss an update     *)
(* that is there (a deadline, or peers that do not answer).                *)
(***************************************************************************)
EXTENDS Integers, FiniteSets, FiniteSetsExt

CONSTANTS
  Resolvers,
  PROBE_BAND,       \* indices probed per round
  MAX_PROBE_INDEX,  \* no index above is probed
  ANCHOR_ATTEMPTS,
  Checked,          \* whether the build checks arithmetic overflow
  Heads,            \* heads the feed may have at first; -1 for none
  MaxHead,          \* bound: the last update published
  MaxNews,          \* bound: updates published during the resolves
  MaxMisses         \* bound: updates that are there and that a probe misses

VARIABLES
  head,    \* the last update published
  hint,    \* feed_index: the last index resolved, 0 if none
  res,     \* resolver -> its resolve
  misses,  \* updates missed so far
  news     \* updates published so far

fvars == <<head, hint, res, misses, news>>

Unbracketed == MAX_PROBE_INDEX + MaxHead + 1   \* u64::MAX: no index found absent yet

Resting == [pc |-> "rest", anchor |-> 0, tries |-> 0, lo |-> 0, hi |-> Unbracketed, step |-> 1,
            seen |-> 0, began |-> 0, clean |-> TRUE]

FTypeOK ==
  /\ head \in -1..MaxHead /\ hint \in 0..MAX_PROBE_INDEX /\ misses \in 0..MaxMisses /\ news \in 0..MaxNews
  /\ \A r \in Resolvers :
       /\ res[r].pc \in {"rest", "anchor", "gallop", "narrow", "done", "empty", "panic"}
       /\ res[r].tries \in 0..ANCHOR_ATTEMPTS /\ res[r].lo \in 0..MAX_PROBE_INDEX

FInit == head \in Heads /\ hint = 0 /\ res = [r \in Resolvers |-> Resting] /\ misses = 0 /\ news = 0

\* The publisher's next update.
Publish ==
  /\ head < MaxHead /\ news < MaxNews
  /\ head' = head + 1 /\ news' = news + 1
  /\ UNCHANGED <<hint, res, misses>>

-----------------------------------------------------------------------------
\* Resolve: the hint is the anchor.
Begin(r) ==
  /\ res[r].pc = "rest"
  /\ res' = [res EXCEPT ![r] = [Resting EXCEPT !.pc = "anchor", !.anchor = hint,
                                              !.seen = head, !.began = head]]
  /\ UNCHANGED <<head, hint, misses, news>>

Over(t) == [t EXCEPT !.pc = "done", !.hi = Unbracketed, !.step = 1, !.seen = 0]
Entered(t, pc) == [t EXCEPT !.pc = pc, !.seen = head]

\* confirm_anchor finds the anchor.
AnchorPresent(r) ==
  LET t == res[r]
  IN  /\ t.pc = "anchor" /\ t.anchor <= head
      /\ res' = [res EXCEPT ![r] = [Entered(t, "gallop") EXCEPT !.lo = t.anchor, !.tries = 0]]
      /\ UNCHANGED <<head, hint, misses, news>>

\* The anchor is given up: a hint falls back to index 0, index 0 to "no updates".
AnchorGone(t) ==
  IF t.anchor # 0 THEN [t EXCEPT !.anchor = 0, !.tries = 0, !.seen = head] ELSE [t EXCEPT !.pc = "empty"]

AnchorAbsent(r) ==
  /\ res[r].pc = "anchor" /\ res[r].anchor > res[r].seen
  /\ res' = [res EXCEPT ![r] = AnchorGone(res[r])]
  /\ UNCHANGED <<head, hint, misses, news>>

\* An inconclusive probe of the anchor is repeated.
AnchorUnresolved(r) ==
  LET t == [res[r] EXCEPT !.tries = @ + 1, !.clean = FALSE]
  IN  /\ res[r].pc = "anchor" /\ misses < MaxMisses
      /\ misses' = misses + 1
      /\ res' = [res EXCEPT ![r] = IF t.tries < ANCHOR_ATTEMPTS THEN t ELSE AnchorGone(t)]
      /\ UNCHANGED <<head, hint, news>>

-----------------------------------------------------------------------------
\* The answers a round's probes may give: what was there when the round began
\* is found unless missed, what is published meanwhile may be found.
Found(t, probes, missed) ==
  {S \in SUBSET probes :
     /\ \A i \in S : i <= head /\ i \notin missed
     /\ \A i \in probes \ S : i > t.seen \/ i \in missed}

\* Doubling offsets above lo.
Band(t) == {i \in {t.lo + t.step * 2^k : k \in 0..(PROBE_BAND - 1)} : i <= MAX_PROBE_INDEX}

\* One round of the gallop: bracketed once an index is absent, over at the top.
Gallop(r) ==
  LET t == res[r]  probes == Band(t)
  IN  /\ t.pc = "gallop"
      /\ \E missed \in SUBSET {i \in probes : i <= head} : \E S \in Found(t, probes, missed) :
           LET lo == Max(S \cup {t.lo})
               hi == Min((probes \ S) \cup {t.hi})
               top == Max(probes \cup {t.lo})
               u == [t EXCEPT !.lo = lo, !.hi = hi, !.clean = @ /\ missed = {}]
           IN  /\ misses' = misses + Cardinality(missed) /\ misses' <= MaxMisses
               /\ res' = [res EXCEPT ![r] =
                            IF hi # Unbracketed THEN Entered(u, "narrow")
                            ELSE IF S = {} \/ top >= MAX_PROBE_INDEX THEN Over(u)
                            ELSE [Entered(u, "gallop") EXCEPT !.step = (top - lo) + 1]]
      /\ UNCHANGED <<head, hint, news>>

\* Mutant: the candidates start at the lower bound itself.
bracket_candidatesOff(low, high) ==
  LET span == high - low - 1
      n == Min({PROBE_BAND, span})
  IN  IF high <= low + 1 THEN {} ELSE {low + (span * j) \div (n + 1) : j \in 1..n} \ {low}

\* Evenly spaced indices strictly between low and high.
bracket_candidates(low, high) ==
  LET span == high - low - 1
      n == Min({PROBE_BAND, span})
  IN  IF high <= low + 1 THEN {}
      ELSE {i \in {low + (span * j) \div (n + 1) + 1 : j \in 1..n} : i > low /\ i < high}

\* One round of the narrowing.  A bracket whose ends crossed wraps in a build
\* without overflow checks, where it has no candidates and ends the search.
Narrow(r) ==
  LET t == res[r]  probes == bracket_candidates(t.lo, t.hi)
  IN  /\ t.pc = "narrow"
      /\ IF t.hi < t.lo /\ Checked THEN res' = [res EXCEPT ![r].pc = "panic"] /\ UNCHANGED misses
         ELSE IF probes = {} THEN res' = [res EXCEPT ![r] = Over(t)] /\ UNCHANGED misses
         ELSE \E missed \in SUBSET {i \in probes : i <= head} : \E S \in Found(t, probes, missed) :
                /\ misses' = misses + Cardinality(missed) /\ misses' <= MaxMisses
                /\ res' = [res EXCEPT ![r] =
                     [Entered(t, "narrow") EXCEPT !.lo = Max(S \cup {t.lo}), !.hi = Min((probes \ S) \cup {t.hi}),
                                                  !.clean = @ /\ missed = {}]]
      /\ UNCHANGED <<head, hint, news>>

\* The hint never moves back.
set_feed_hint(i) == Max({hint, i})

\* The resolve returns.
End(r) ==
  /\ res[r].pc \in {"done", "empty"}
  /\ hint' = IF res[r].pc = "done" THEN set_feed_hint(res[r].lo) ELSE hint
  /\ res' = [res EXCEPT ![r] = Resting]
  /\ UNCHANGED <<head, misses, news>>

FNext ==
  \/ Publish
  \/ \E r \in Resolvers :
       \/ Begin(r) \/ AnchorPresent(r) \/ AnchorAbsent(r) \/ AnchorUnresolved(r)
       \/ Gallop(r) \/ Narrow(r) \/ End(r)

-----------------------------------------------------------------------------
\* Properties.

\* A resolve that missed nothing returns no update older than the head of when
\* it began, up to the last index probed, however the feed moves meanwhile.
ResolvesHead ==
  \A r \in Resolvers : (res[r].pc = "done" /\ res[r].clean) => res[r].lo >= Min({res[r].began, MAX_PROBE_INDEX})

\* A feed with updates is reported empty only after ANCHOR_ATTEMPTS misses.
EmptyForCause ==
  \A r \in Resolvers : (res[r].pc = "empty" /\ res[r].seen >= 0) => res[r].tries = ANCHOR_ATTEMPTS
=============================================================================
