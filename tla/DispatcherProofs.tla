-------------------------- MODULE DispatcherProofs --------------------------
(***************************************************************************)
(* The counts of the session pool are honest under every way out of a      *)
(* race, and a chunk is resolved once: proofs about Dispatcher for any     *)
(* chunks, peers and settings.                                             *)
(***************************************************************************)
EXTENDS Dispatcher, FiniteSetTheorems, TLAPS

ChunkStates == {"queued", "start", "wait", "race", "refresh", "backoff", "done"}
Phases == {"push", "cut", "again", "dial", "parked"}
Reports == {"overdraft", "shallow", "error", "fatal"}
Attempts == UNION {[D -> Phases] : D \in SUBSET Entries}

EntryType ==
  [alive : BOOLEAN, pending : BOOLEAN, warming : BOOLEAN, strikes : 0..DeadStrikes,
   dead : BOOLEAN, inflight : Int]
ChunkType ==
  [st : ChunkStates, tries : 0..(MaxChunkRetries - 1), order : Seq(Entries), idx : Nat,
   att : Attempts, seen : SUBSET Reports, todo : Seq(Entries)]
PushType ==
  [st : {"none", "on", "ok", "err"}, more : BOOLEAN, max_retries : Nat, buffer : Nat,
   parallel : Nat]
Callback == [is : {"ok", "shallow", "err"}, after : Nat]

\* The shape of the state.
Typed ==
  /\ pool \subseteq Entries /\ dials \subseteq Entries /\ ends \subseteq Entries
  /\ entry \in [Entries -> EntryType]
  /\ chunk \in [Chunks -> ChunkType]
  /\ push \in PushType
  /\ acked \in [Chunks -> Seq(Callback)]

\* The guards of a dispatch, and how many candidates it started with.
GuardsOf(x) == {e \in DOMAIN x.att : x.att[e] # "parked"}
Width(order) == Min({push.parallel, limit(order)})

\* A dispatch races distinct candidates of its order, none beyond idx, at most
\* `parallel' at once; the seeds are behind it when it goes on to others.
Orderly(x) ==
  /\ \A i, j \in 1..Len(x.order) : x.order[i] = x.order[j] => i = j
  /\ x.idx <= Len(x.order)
  /\ \A e \in DOMAIN x.att : \E i \in 1..x.idx : x.order[i] = e
  /\ Cardinality(DOMAIN x.att) <= push.parallel
  /\ x.st # "race" => DOMAIN x.att = {}
  /\ x.st = "race" => Width(x.order) <= x.idx
  /\ x.st = "refresh" => x.todo # <<>>

\* A call is at rest before it begins and after it ended; while it is on, the
\* chunks that were called back are those that are done; it ends well only when
\* all are.
Accounted ==
  /\ push.st # "on" => \A c \in Chunks : chunk[c].st \in {"queued", "done"}
  /\ push.st = "none" => push.more = TRUE /\ \A c \in Chunks : acked[c] = <<>>
  /\ push.st \in {"none", "on"} => \A c \in Chunks : acked[c] = <<>> <=> chunk[c].st # "done"
  /\ push.st = "on" /\ push.more = FALSE => Queued = {}
  /\ push.st = "ok" => \A c \in Chunks : acked[c] # <<>>
  /\ \A c \in Chunks : Len(acked[c]) <= 1
  /\ \A c \in Chunks : \A i \in 1..Len(acked[c]) :
       /\ acked[c][i].is = "err" => push.st = "err"
       /\ acked[c][i].is = "shallow" => acked[c][i].after = MaxChunkRetries

IInv ==
  /\ Typed /\ (\A c \in Chunks : Orderly(chunk[c])) /\ Accounted
  /\ InflightIsRacing /\ SeedsWithinCap /\ OneDialEach

-----------------------------------------------------------------------------
\* The smaller of two numbers.
LEMMA MinTwo ==
  ASSUME NEW a \in Int, NEW b \in Int PROVE Min({a, b}) = IF a <= b THEN a ELSE b
<1> DEFINE m == IF a <= b THEN a ELSE b
<1>1. m \in {a, b} /\ \A y \in {a, b} : m <= y
  OBVIOUS
<1>2. \A n \in {a, b} : (\A y \in {a, b} : n <= y) => n = m
  OBVIOUS
<1> HIDE DEF m
<1> QED
  BY Zenon, <1>1, <1>2 DEF Min, m

\* The larger of two numbers.
LEMMA MaxTwo ==
  ASSUME NEW a \in Int, NEW b \in Int PROVE Max({a, b}) = IF a >= b THEN a ELSE b
<1> DEFINE m == IF a >= b THEN a ELSE b
<1>1. m \in {a, b} /\ \A y \in {a, b} : m >= y
  OBVIOUS
<1>2. \A n \in {a, b} : (\A y \in {a, b} : n >= y) => n = m
  OBVIOUS
<1> HIDE DEF m
<1> QED
  BY Zenon, <1>1, <1>2 DEF Max, m

\* limit and Width stay within the order, Width within `parallel'.
LEMMA LimitBounds ==
  ASSUME push \in PushType, NEW order \in Seq(Entries)
  PROVE  /\ limit(order) \in Nat /\ limit(order) <= Len(order)
         /\ Width(order) \in Nat /\ Width(order) <= limit(order)
         /\ Width(order) <= Len(order) /\ Width(order) <= push.parallel
<1>1. push.max_retries \in Nat /\ push.parallel \in Nat /\ Len(order) \in Nat
  BY DEF PushType
<1>2. Max({push.max_retries, 1}) \in Nat
  <2>1. push.max_retries \in Int /\ 1 \in Int
    BY <1>1
  <2>2. Max({push.max_retries, 1}) = IF push.max_retries >= 1 THEN push.max_retries ELSE 1
    BY Zenon, <2>1, MaxTwo
  <2> QED
    BY <1>1, <2>2
<1>3. limit(order) \in Nat /\ limit(order) <= Len(order)
  <2> DEFINE m == Max({push.max_retries, 1})
  <2>1. limit(order) = Min({m, Len(order)}) /\ m \in Nat
    BY Zenon, <1>2 DEF limit
  <2> HIDE DEF m
  <2> QED
    BY <1>1, <2>1, MinTwo
<1>4. Width(order) \in Nat /\ Width(order) <= limit(order) /\ Width(order) <= push.parallel
  BY <1>1, <1>3, MinTwo DEF Width
<1> QED
  BY <1>1, <1>3, <1>4

\* The seeds of a race are the first candidates of its order.
LEMMA SeedsAre ==
  ASSUME push \in PushType, NEW order \in Seq(Entries)
  PROVE  /\ \A e : e \in Seeds(order) <=> \E i \in 1..Width(order) : order[i] = e
         /\ Seeds(order) \subseteq Entries
<1>1. Width(order) \in Nat /\ Width(order) <= Len(order) /\ Len(order) \in Nat
  BY LimitBounds
<1> DEFINE s == SubSeq(order, 1, Width(order))
<1>2. Seeds(order) = Range(s)
  BY Zenon DEF Seeds, Width
<1>3. DOMAIN s = 1..Width(order) /\ \A i \in 1..Width(order) : s[i] = order[i]
  BY <1>1
<1>4. \A i \in 1..Width(order) : order[i] \in Entries
  BY <1>1
<1> HIDE DEF s
<1> QED
  BY Zenon, <1>2, <1>3, <1>4 DEF Range

\* There are as many seeds as the width.
LEMMA SeedsCount ==
  ASSUME push \in PushType, NEW order \in Seq(Entries),
         \A i, j \in 1..Len(order) : order[i] = order[j] => i = j
  PROVE  IsFiniteSet(Seeds(order)) /\ Cardinality(Seeds(order)) = Width(order)
<1> DEFINE w == Width(order)
           S == Seeds(order)
           f == [i \in 1..w |-> order[i]]
<1>1. w \in Nat /\ w <= Len(order) /\ Len(order) \in Nat
  BY LimitBounds
<1>2. \A e : e \in S <=> \E i \in 1..w : order[i] = e
  BY Zenon, SeedsAre
<1>3. IsFiniteSet(1..w) /\ Cardinality(1..w) = w
  BY <1>1, FS_Interval
<1> HIDE DEF w, S
<1>4. f \in [1..w -> S] /\ \A i \in 1..w : f[i] = order[i]
  BY Zenon, <1>2
<1>5. \A i, j \in 1..w : f[i] = f[j] => i = j
  BY <1>1, <1>4
<1>6. \A e \in S : \E i \in 1..w : f[i] = e
  BY Zenon, <1>2, <1>4
<1> HIDE DEF f
<1>7. f \in Surjection(1..w, S) /\ f \in Injection(1..w, S)
  BY Zenon, <1>4, <1>5, <1>6 DEF Surjection, Injection, IsInjective
<1>8. IsFiniteSet(S) /\ Cardinality(S) = Cardinality(1..w)
  BY Zenon, <1>3, <1>7, FS_Surjection
<1> QED
  BY Zenon, <1>3, <1>8 DEF w, S

\* An order of some entries is a sequence that repeats none.
LEMMA OrderIs ==
  ASSUME NEW S \in SUBSET Entries, NEW order \in Orders(S)
  PROVE  /\ order \in Seq(Entries)
         /\ \A i, j \in 1..Len(order) : order[i] = order[j] => i = j
         /\ \A i \in 1..Len(order) : order[i] \in S
<1>1. IsFiniteSet(S)
  BY Zenon, DispatcherAssumption, FS_Subset
<1> DEFINE n == Cardinality(S)
<1>2. n \in Nat
  BY Zenon, <1>1, FS_CardinalityType
<1>3. order \in [1..n -> S] /\ \A i, j \in 1..n : order[i] = order[j] => i = j
  BY Zenon DEF Orders, Bijection, Injection, IsInjective
<1> HIDE DEF n
<1>4. order \in Seq(S) /\ Len(order) = n
  BY <1>2, <1>3
<1>5. order \in Seq(Entries)
  BY <1>2, <1>3
<1> QED
  BY Zenon, <1>3, <1>4, <1>5

-----------------------------------------------------------------------------
\* The dispatches other than c that hold a guard on e.
Others(c, e) == {d \in Chunks \ {c} : e \in GuardsOf(chunk[d])}

\* Sets of chunks are finite, and c is one more or not.
LEMMA CountOne ==
  ASSUME NEW R \in SUBSET Chunks, NEW c \in Chunks
  PROVE  /\ IsFiniteSet(R) /\ Cardinality(R) \in Nat
         /\ Cardinality(R \ {c}) \in Nat
         /\ Cardinality(R) = Cardinality(R \ {c}) + (IF c \in R THEN 1 ELSE 0)
         /\ Cardinality(R) <= Cardinality(Chunks)
<1>1. IsFiniteSet(R) /\ Cardinality(R) <= Cardinality(Chunks)
  BY Zenon, DispatcherAssumption, FS_Subset
<1>2. Cardinality(R) \in Nat
  BY Zenon, <1>1, FS_CardinalityType
<1>3. IsFiniteSet(R \ {c}) /\ Cardinality(R \ {c}) = IF c \in R THEN Cardinality(R) - 1 ELSE Cardinality(R)
  BY Zenon, <1>1, FS_RemoveElement
<1>4. Cardinality(R \ {c}) \in Nat
  BY Zenon, <1>3, FS_CardinalityType
<1> QED
  BY <1>1, <1>2, <1>3, <1>4

\* What a dispatch holds is part of the count.
LEMMA InflightSplit ==
  ASSUME InflightIsRacing, NEW c \in Chunks, NEW e \in Entries
  PROVE  /\ Cardinality(Others(c, e)) \in Nat
         /\ entry[e].inflight = Cardinality(Others(c, e)) + (IF e \in Guarded(c) THEN 1 ELSE 0)
<1> DEFINE R == {d \in Chunks : e \in Guarded(d)}
<1>1. R \ {c} = Others(c, e)
  BY Zenon DEF Others, Guarded, GuardsOf
<1>2. entry[e].inflight = Cardinality(R)
  BY Zenon DEF InflightIsRacing
<1>3. R \in SUBSET Chunks /\ (c \in R <=> e \in Guarded(c))
  BY Zenon
<1> HIDE DEF R
<1> QED
  BY <1>1, <1>2, <1>3, CountOne

\* The types of the properties follow from the invariant.
LEMMA IInvImplies == IInv => CountsHonest /\ ChunksResolved
<1> SUFFICES ASSUME IInv PROVE CountsHonest /\ ChunksResolved
  BY Zenon
<1>1. TypeOK
  <2>1. \A e \in Entries : /\ entry[e].strikes \in 0..DeadStrikes
                           /\ entry[e].inflight \in 0..Cardinality(Chunks)
    <3> SUFFICES ASSUME NEW e \in Entries
                 PROVE  /\ entry[e].strikes \in 0..DeadStrikes
                        /\ entry[e].inflight \in 0..Cardinality(Chunks)
      BY Zenon
    <3>1. entry[e].strikes \in 0..DeadStrikes
      BY Zenon DEF IInv, Typed, EntryType
    <3>2. entry[e].inflight = Cardinality({c \in Chunks : e \in Guarded(c)})
      BY Zenon DEF IInv, InflightIsRacing
    <3> DEFINE R == {c \in Chunks : e \in Guarded(c)}
    <3>3. R \in SUBSET Chunks
      BY Zenon
    <3> HIDE DEF R
    <3>4. Cardinality(R) \in Nat /\ Cardinality(R) <= Cardinality(Chunks) /\ Cardinality(Chunks) \in Nat
      <4>1. IsFiniteSet(R) /\ Cardinality(R) <= Cardinality(Chunks)
        BY Zenon, <3>3, DispatcherAssumption, FS_Subset
      <4> QED
        BY Zenon, <4>1, DispatcherAssumption, FS_CardinalityType
    <3> QED
      BY <3>1, <3>2, <3>4 DEF R
  <2>2. \A c \in Chunks :
          /\ chunk[c].st \in ChunkStates
          /\ chunk[c].tries \in 0..(MaxChunkRetries - 1)
          /\ chunk[c].idx <= Len(chunk[c].order)
          /\ Cardinality(DOMAIN chunk[c].att) <= push.parallel
    BY Zenon DEF IInv, Typed, ChunkType, Orderly
  <2>3. push.st \in {"none", "on", "ok", "err"}
    BY Zenon DEF IInv, Typed, PushType
  <2> QED
    BY Zenon, <2>1, <2>2, <2>3 DEF IInv, Typed, TypeOK, ChunkStates
<1>2. CalledBackOnce
  <2>1. \A c \in Chunks : Len(acked[c]) <= 1
    BY Zenon DEF IInv, Accounted
  <2>2. ASSUME push.st = "ok", NEW c \in Chunks
        PROVE  acked[c] # <<>> /\ acked[c][Len(acked[c])].is # "err"
    <3>1. acked[c] # <<>> /\ acked[c] \in Seq(Callback)
      BY Zenon, <2>2 DEF IInv, Accounted, Typed
    <3>2. Len(acked[c]) \in 1..Len(acked[c])
      BY <3>1
    <3> QED
      BY Zenon, <2>2, <3>1, <3>2 DEF IInv, Accounted
  <2> QED
    BY Zenon, <2>1, <2>2 DEF CalledBackOnce
<1>3. ShallowIsLastResort
  <2> SUFFICES ASSUME NEW c \in Chunks, NEW a \in Range(acked[c]), a.is = "shallow"
               PROVE  a.after = MaxChunkRetries
    BY Zenon DEF ShallowIsLastResort
  <2>1. acked[c] \in Seq(Callback)
    BY Zenon DEF IInv, Typed
  <2>2. PICK i \in 1..Len(acked[c]) : a = acked[c][i]
    BY <2>1 DEF Range
  <2> QED
    BY Zenon, <2>2 DEF IInv, Accounted
<1> QED
  BY Zenon, <1>1, <1>2, <1>3 DEF IInv, CountsHonest, ChunksResolved

-----------------------------------------------------------------------------
\* The counts when dispatch c goes on, ends or begins and the others keep their
\* guards: the entry's count is theirs and c's, and c adds no seed beyond the cap.
LEMMA CountStep ==
  ASSUME IInv, NEW c \in Chunks,
         push'.parallel = push.parallel, push'.max_retries = push.max_retries,
         \A d \in Chunks \ {c} : /\ GuardsOf(chunk'[d]) = GuardsOf(chunk[d])
                                 /\ GuardsOf(chunk[d]) # {} => chunk'[d].order = chunk[d].order,
         \A e \in Entries : entry'[e].inflight =
           Cardinality(Others(c, e)) + (IF e \in GuardsOf(chunk'[c]) THEN 1 ELSE 0),
         \A e \in Entries : e \in GuardsOf(chunk'[c]) /\ e \in Seeds(chunk'[c].order) =>
           \/ e \in GuardsOf(chunk[c]) /\ e \in Seeds(chunk[c].order)
           \/ Cardinality(Others(c, e)) < Cap
  PROVE  InflightIsRacing' /\ SeedsWithinCap'
<1>0. \A d \in Chunks : /\ Guarded(d) = GuardsOf(chunk[d]) /\ Guarded(d)' = GuardsOf(chunk'[d])
                        /\ Seeds(chunk[d].order)' = Seeds(chunk'[d].order)
  BY Zenon DEF Guarded, GuardsOf, Seeds, limit
<1>1. InflightIsRacing'
  <2> SUFFICES ASSUME NEW e \in Entries
               PROVE  entry'[e].inflight = Cardinality({d \in Chunks : e \in Guarded(d)'})
    BY Zenon DEF InflightIsRacing
  <2> DEFINE R == {d \in Chunks : e \in Guarded(d)'}
  <2>1. R \ {c} = Others(c, e) /\ (c \in R <=> e \in GuardsOf(chunk'[c])) /\ R \in SUBSET Chunks
    BY Zenon, <1>0 DEF Others
  <2>2. entry'[e].inflight = Cardinality(Others(c, e)) + (IF e \in GuardsOf(chunk'[c]) THEN 1 ELSE 0)
    BY Zenon
  <2> HIDE DEF R
  <2>3. Cardinality(R) = Cardinality(R \ {c}) + (IF c \in R THEN 1 ELSE 0)
    BY Zenon, <2>1, CountOne
  <2>4. entry'[e].inflight = Cardinality(R)
    BY Zenon, <2>1, <2>2, <2>3
  <2> QED
    BY Zenon, <2>4 DEF R
<1>2. SeedsWithinCap'
  <2> SUFFICES ASSUME NEW e \in Entries
               PROVE  Cardinality({d \in Chunks : e \in Guarded(d)' /\ e \in Seeds(chunk[d].order)'}) <= Cap
    BY Zenon DEF SeedsWithinCap
  <2> DEFINE R == {d \in Chunks : e \in Guarded(d) /\ e \in Seeds(chunk[d].order)}
             T == {d \in Chunks : e \in Guarded(d)' /\ e \in Seeds(chunk[d].order)'}
  <2>1. /\ T \in SUBSET Chunks /\ R \in SUBSET Chunks
        /\ T \ {c} = R \ {c}
        /\ T \ {c} \subseteq Others(c, e)
        /\ c \in T => c \in R \/ Cardinality(Others(c, e)) < Cap
    BY <1>0 DEF Others
  <2>2. Cardinality(R) <= Cap
    BY Zenon DEF IInv, SeedsWithinCap
  <2>3. Others(c, e) \in SUBSET Chunks
    BY Zenon DEF Others
  <2> HIDE DEF R, T
  <2>4. /\ Cardinality(T) = Cardinality(T \ {c}) + (IF c \in T THEN 1 ELSE 0)
        /\ Cardinality(R) = Cardinality(R \ {c}) + (IF c \in R THEN 1 ELSE 0)
        /\ Cardinality(T \ {c}) \in Nat /\ Cardinality(T) \in Nat
    BY Zenon, <2>1, CountOne
  <2>5. IsFiniteSet(Others(c, e)) /\ Cardinality(Others(c, e)) \in Nat
    BY Zenon, <2>3, CountOne
  <2>6. Cardinality(T \ {c}) <= Cardinality(Others(c, e))
    BY Zenon, <2>1, <2>5, FS_Subset
  <2>7. Cardinality(T) <= Cap
    <3> DEFINE t == Cardinality(T)
               u == Cardinality(T \ {c})
               r == Cardinality(R)
               n == Cardinality(Others(c, e))
    <3>1. t \in Nat /\ u \in Nat /\ n \in Nat /\ u <= n /\ r <= Cap /\ Cap \in Nat
      BY Zenon, <2>2, <2>4, <2>5, <2>6, DispatcherAssumption
    <3>2. CASE c \in T /\ c \in R
      <4>1. t = u + 1 /\ r = u + 1
        BY Zenon, <2>1, <2>4, <3>2
      <4> QED
        BY Zenon, <3>1, <4>1
    <3>3. CASE c \in T /\ n < Cap
      <4>1. t = u + 1
        BY Zenon, <2>4, <3>3
      <4> HIDE DEF t, u, n, r
      <4> QED
        BY <3>1, <3>3, <4>1 DEF t
    <3>4. CASE c \notin T
      <4>1. t = u /\ (r = u \/ r = u + 1)
        BY Zenon, <2>1, <2>4, <3>4
      <4> HIDE DEF t, u, n, r
      <4> QED
        BY <3>1, <4>1 DEF t
    <3> QED
      BY Zenon, <2>1, <3>2, <3>3, <3>4
  <2> QED
    BY Zenon, <2>7 DEF T
<1> QED
  BY Zenon, <1>1, <1>2

\* No guard moves.
LEMMA CountsKept ==
  ASSUME IInv,
         push'.parallel = push.parallel, push'.max_retries = push.max_retries,
         \A d \in Chunks : /\ GuardsOf(chunk'[d]) = GuardsOf(chunk[d])
                           /\ GuardsOf(chunk[d]) # {} => chunk'[d].order = chunk[d].order,
         \A e \in Entries : entry'[e].inflight = entry[e].inflight
                             \/ (entry'[e].inflight = 0 /\ \A d \in Chunks : e \notin GuardsOf(chunk[d]))
  PROVE  InflightIsRacing' /\ SeedsWithinCap'
<1>0. \A d \in Chunks : /\ Guarded(d) = GuardsOf(chunk[d]) /\ Guarded(d)' = GuardsOf(chunk'[d])
                        /\ Seeds(chunk[d].order)' = Seeds(chunk'[d].order)
  BY Zenon DEF Guarded, GuardsOf, Seeds, limit
<1>1. ASSUME NEW e \in Entries
      PROVE  entry'[e].inflight = Cardinality({d \in Chunks : e \in Guarded(d)'})
  <2>1. {d \in Chunks : e \in Guarded(d)'} = {d \in Chunks : e \in Guarded(d)}
    BY <1>0
  <2>2. entry[e].inflight = Cardinality({d \in Chunks : e \in Guarded(d)})
    BY Zenon DEF IInv, InflightIsRacing
  <2>3. CASE entry'[e].inflight = entry[e].inflight
    BY Zenon, <2>1, <2>2, <2>3
  <2>4. CASE entry'[e].inflight = 0 /\ \A d \in Chunks : e \notin GuardsOf(chunk[d])
    <3>1. {d \in Chunks : e \in Guarded(d)'} = {}
      BY <1>0, <2>4
    <3> QED
      BY Zenon, <2>4, <3>1, FS_EmptySet
  <2> QED
    BY Zenon, <2>3, <2>4
<1>2. ASSUME NEW e \in Entries
      PROVE  Cardinality({d \in Chunks : e \in Guarded(d)' /\ e \in Seeds(chunk[d].order)'}) <= Cap
  <2>1. {d \in Chunks : e \in Guarded(d)' /\ e \in Seeds(chunk[d].order)'}
          = {d \in Chunks : e \in Guarded(d) /\ e \in Seeds(chunk[d].order)}
    BY <1>0
  <2> QED
    BY Zenon, <2>1 DEF IInv, SeedsWithinCap
<1> QED
  BY Zenon, <1>1, <1>2 DEF InflightIsRacing, SeedsWithinCap

\* A chunk at rest.
LEMMA RestIs ==
  ASSUME push \in PushType, NEW st \in {"queued", "start", "backoff", "done", "refresh"},
         NEW tries \in 0..(MaxChunkRetries - 1)
  PROVE  /\ Rest(st, tries) \in ChunkType /\ Rest(st, tries).st = st
         /\ Rest(st, tries).tries = tries
         /\ GuardsOf(Rest(st, tries)) = {}
         /\ st # "refresh" => Orderly(Rest(st, tries))
<1> DEFINE x == Rest(st, tries)
<1>1. /\ x.st = st /\ x.tries = tries /\ x.order = <<>> /\ x.idx = 0 /\ x.att = NoAttempts
      /\ x.seen = {} /\ x.todo = <<>>
  BY Zenon DEF Rest
<1>2. DOMAIN NoAttempts = {} /\ NoAttempts \in Attempts
  <2>1. NoAttempts \in [{} -> Phases] /\ {} \in SUBSET Entries
    BY Zenon DEF NoAttempts
  <2> QED
    BY Zenon, <2>1 DEF Attempts, NoAttempts
<1>3. x \in ChunkType
  BY <1>2 DEF Rest, ChunkType, ChunkStates
<1>4. push.parallel \in Nat /\ Len(<<>>) = 0
  BY Zenon DEF PushType
<1>5. st # "refresh" => Orderly(x)
  <2> HIDE DEF x
  <2> QED
    BY <1>1, <1>2, <1>4, FS_EmptySet DEF Orderly
<1>6. GuardsOf(x) = {}
  <2> HIDE DEF x
  <2> QED
    BY Zenon, <1>1, <1>2 DEF GuardsOf
<1> QED
  BY Zenon, <1>1, <1>3, <1>5, <1>6

\* A dispatch that is not at rest belongs to a call that is on.
LEMMA BusyIsOn ==
  ASSUME IInv, NEW c \in Chunks, chunk[c].st \notin {"queued", "done"}
  PROVE  push.st = "on" /\ acked[c] = <<>>
  BY Zenon DEF IInv, Accounted, Typed, PushType

\* Dispatch c goes on as x.
LEMMA StayStep ==
  ASSUME IInv, NEW c \in Chunks, NEW x \in ChunkType, chunk' = [chunk EXCEPT ![c] = x],
         chunk[c].st \notin {"queued", "done"}, x.st \notin {"queued", "done"}, Orderly(x),
         entry' \in [Entries -> EntryType],
         \A e \in Entries : entry'[e].inflight =
           Cardinality(Others(c, e)) + (IF e \in GuardsOf(x) THEN 1 ELSE 0),
         \A e \in Entries : e \in GuardsOf(x) /\ e \in Seeds(x.order) =>
           \/ e \in GuardsOf(chunk[c]) /\ e \in Seeds(chunk[c].order)
           \/ Cardinality(Others(c, e)) < Cap,
         dials' \subseteq Entries, \A e \in dials' : entry'[e].warming,
         UNCHANGED <<pool, push, acked, ends>>
  PROVE  IInv'
<1>0. chunk \in [Chunks -> ChunkType]
  BY Zenon DEF IInv, Typed
<1>1. chunk'[c] = x /\ \A d \in Chunks \ {c} : chunk'[d] = chunk[d]
  BY Zenon, <1>0
<1>2. chunk' \in [Chunks -> ChunkType]
  BY Zenon, <1>0
<1>3. InflightIsRacing' /\ SeedsWithinCap'
  BY Zenon, <1>1, CountStep
<1>4. \A d \in Chunks : Orderly(chunk[d])'
  <2>1. \A d \in Chunks : Orderly(chunk'[d])
    BY Zenon, <1>1 DEF IInv
  <2> QED
    BY Zenon, <2>1 DEF Orderly, Width, limit
<1>5. Accounted'
  <2>1. push.st = "on"
    BY Zenon, BusyIsOn
  <2>2. \A d \in Chunks : chunk'[d].st = "done" <=> chunk[d].st = "done"
    BY Zenon, <1>1
  <2>3. Queued' = Queued
    BY Zenon, <1>1 DEF Queued
  <2> QED
    BY Zenon, <2>1, <2>2, <2>3 DEF IInv, Accounted
<1>6. Typed'
  BY Zenon, <1>2 DEF IInv, Typed
<1> QED
  BY Zenon, <1>3, <1>4, <1>5, <1>6 DEF IInv, OneDialEach

\* The entries once dispatch c let go of its guards.
Without(c, ent) ==
  /\ ent \in [Entries -> EntryType]
  /\ \A e \in Entries : ent[e].inflight = Cardinality(Others(c, e))
  /\ \A e \in Entries : ent[e].warming = entry[e].warming

\* The sweep that begins every resolution only raises flags, of what it dials.
LEMMA SweepStep ==
  ASSUME IInv, NEW ent \in [Entries -> EntryType], Sweep(ent),
         \A e \in Entries : ent[e].warming = entry[e].warming
  PROVE  /\ entry' \in [Entries -> EntryType]
         /\ \A e \in Entries : entry'[e].inflight = ent[e].inflight
         /\ dials' \subseteq Entries /\ \A e \in dials' : entry'[e].warming
<1>0. dials \subseteq Entries /\ pool \subseteq Entries
  BY Zenon DEF IInv, Typed
<1>1. Warmable(ent) \subseteq Entries
  BY Zenon, <1>0 DEF Warmable
<1>2. dials' = dials \cup Warmable(ent) /\ dials' \subseteq Entries
  BY Zenon, <1>0, <1>1 DEF Sweep
<1>3. ASSUME NEW e \in Entries
      PROVE  /\ entry'[e] \in EntryType /\ entry'[e].inflight = ent[e].inflight
             /\ e \in dials' => entry'[e].warming
  <2> DEFINE w == ent[e].warming \/ e \in Warmable(ent)
  <2>1. entry'[e] = [ent[e] EXCEPT !.warming = w]
    BY Zenon DEF Sweep
  <2>2. w \in BOOLEAN
    BY Zenon
  <2>3. e \in dials' => w = TRUE
    <3>1. e \in dials => entry[e].warming
      BY Zenon DEF IInv, OneDialEach
    <3> QED
      BY Zenon, <1>2, <3>1
  <2> HIDE DEF w
  <2>4. entry'[e] \in EntryType /\ entry'[e].inflight = ent[e].inflight /\ entry'[e].warming = w
    BY <2>1, <2>2 DEF EntryType
  <2> QED
    BY Zenon, <2>3, <2>4
<1>4. entry' \in [Entries -> EntryType]
  BY Zenon, <1>3 DEF Sweep
<1> QED
  BY Zenon, <1>2, <1>3, <1>4

\* Another try.
LEMMA RetryStep ==
  ASSUME IInv, NEW c \in Chunks, chunk[c].st \notin {"queued", "done"}, NEW ent, Without(c, ent),
         NEW seen, ~Spent(c, seen), Retry(c, ent), UNCHANGED <<pool, ends>>
  PROVE  IInv'
<1> DEFINE n == chunk[c].tries + 1
<1>0. chunk \in [Chunks -> ChunkType] /\ push \in PushType
  BY Zenon DEF IInv, Typed
<1>1. n \in 0..(MaxChunkRetries - 1)
  BY <1>0, DispatcherAssumption DEF Spent, ChunkType
<1>2. /\ chunk' = [chunk EXCEPT ![c] = Rest("backoff", n)] /\ Sweep(ent)
      /\ UNCHANGED <<push, acked>>
  BY Zenon, <1>0 DEF Retry
<1> DEFINE x == Rest("backoff", n)
<1> HIDE DEF n
<1>3. x \in ChunkType /\ x.st = "backoff" /\ GuardsOf(x) = {} /\ Orderly(x)
  BY Zenon, <1>0, <1>1, RestIs
<1>4. chunk' = [chunk EXCEPT ![c] = x]
  BY Zenon, <1>2
<1> HIDE DEF x
<1>5. /\ entry' \in [Entries -> EntryType]
      /\ \A e \in Entries : entry'[e].inflight = ent[e].inflight
      /\ dials' \subseteq Entries /\ \A e \in dials' : entry'[e].warming
  BY Zenon, <1>2, SweepStep DEF Without
<1>6. \A e \in Entries : entry'[e].inflight =
           Cardinality(Others(c, e)) + (IF e \in GuardsOf(x) THEN 1 ELSE 0)
  <2> SUFFICES ASSUME NEW e \in Entries
               PROVE  entry'[e].inflight = Cardinality(Others(c, e)) + (IF e \in GuardsOf(x) THEN 1 ELSE 0)
    BY Zenon
  <2>1. Cardinality(Others(c, e)) \in Nat
    BY Zenon, InflightSplit DEF IInv
  <2>2. entry'[e].inflight = Cardinality(Others(c, e))
    BY Zenon, <1>5 DEF Without
  <2> QED
    BY <1>3, <2>1, <2>2
<1>7. \A e \in Entries : e \notin GuardsOf(x)
  BY Zenon, <1>3
<1> QED
  BY Zenon, <1>2, <1>3, <1>4, <1>5, <1>6, <1>7, StayStep

\* The callback of a chunk.
LEMMA CalledBack ==
  ASSUME IInv, NEW c \in Chunks, chunk[c].st \notin {"queued", "done"},
         NEW is \in {"ok", "shallow", "err"}, NEW n \in Nat,
         is = "shallow" => n = MaxChunkRetries,
         acked' = [acked EXCEPT ![c] = Append(@, [is |-> is, after |-> n])],
         is = "err" => push'.st = "err", push.st = "err" => push'.st = "err"
  PROVE  /\ acked' \in [Chunks -> Seq(Callback)]
         /\ acked'[c] # <<>> /\ \A d \in Chunks \ {c} : acked'[d] = acked[d]
         /\ \A d \in Chunks : Len(acked'[d]) <= 1
         /\ \A d \in Chunks : \A i \in 1..Len(acked'[d]) :
              /\ acked'[d][i].is = "err" => push'.st = "err"
              /\ acked'[d][i].is = "shallow" => acked'[d][i].after = MaxChunkRetries
<1> DEFINE a == [is |-> is, after |-> n]
<1>0. acked \in [Chunks -> Seq(Callback)]
  BY Zenon DEF IInv, Typed
<1>1. acked[c] = <<>>
  BY Zenon, BusyIsOn
<1>2. a \in Callback /\ a.is = is /\ a.after = n
  BY Zenon DEF Callback
<1>3. acked' = [acked EXCEPT ![c] = Append(<<>>, a)]
  BY Zenon, <1>0, <1>1
<1> HIDE DEF a
<1>4. Append(<<>>, a) = <<a>> /\ <<a>> \in Seq(Callback) /\ Len(<<a>>) = 1 /\ <<a>>[1] = a /\ <<a>> # <<>>
  BY <1>2
<1>5. acked'[c] = <<a>> /\ \A d \in Chunks \ {c} : acked'[d] = acked[d]
  BY Zenon, <1>0, <1>3, <1>4
<1>6. acked' \in [Chunks -> Seq(Callback)]
  BY Zenon, <1>0, <1>3, <1>4
<1>7. \A d \in Chunks : Len(acked'[d]) <= 1
  <2>1. \A d \in Chunks : Len(acked[d]) <= 1
    BY Zenon DEF IInv, Accounted
  <2> QED
    BY <1>4, <1>5, <2>1
<1>8. ASSUME NEW d \in Chunks, NEW i \in 1..Len(acked'[d])
      PROVE  /\ acked'[d][i].is = "err" => push'.st = "err"
             /\ acked'[d][i].is = "shallow" => acked'[d][i].after = MaxChunkRetries
  <2>1. CASE d = c
    <3>1. i = 1
      BY <1>4, <1>5, <1>8, <2>1
    <3> QED
      BY Zenon, <1>2, <1>4, <1>5, <2>1, <3>1
  <2>2. CASE d # c
    BY <1>5, <1>8, <2>2 DEF IInv, Accounted
  <2> QED
    BY Zenon, <2>1, <2>2
<1> QED
  BY Zenon, <1>4, <1>5, <1>6, <1>7, <1>8

\* The chunk is resolved, and the next one is taken.
LEMMA ResolveStep ==
  ASSUME IInv, NEW c \in Chunks, chunk[c].st \notin {"queued", "done"}, NEW ent, Without(c, ent),
         NEW verdict \in {"ok", "shallow"},
         verdict = "shallow" => chunk[c].tries + 1 = MaxChunkRetries,
         Resolve(c, verdict, ent), UNCHANGED <<pool, ends>>
  PROVE  IInv'
<1> DEFINE n == chunk[c].tries + 1
<1>0. chunk \in [Chunks -> ChunkType] /\ push \in PushType /\ n \in Nat
  BY DispatcherAssumption DEF IInv, Typed, ChunkType
<1>1. Sweep(ent) /\ acked' = [acked EXCEPT ![c] = Append(@, [is |-> verdict, after |-> n])]
  BY Zenon DEF Resolve
<1> HIDE DEF n
<1>2. push.st = "on" /\ acked[c] = <<>>
  BY Zenon, BusyIsOn
<1>3. 0 \in 0..(MaxChunkRetries - 1)
  BY DispatcherAssumption
<1> DEFINE x == Rest("done", 0)
           y == Rest("start", 0)
<1>4. /\ x \in ChunkType /\ x.st = "done" /\ GuardsOf(x) = {} /\ Orderly(x)
      /\ y \in ChunkType /\ y.st = "start" /\ GuardsOf(y) = {} /\ Orderly(y)
  BY Zenon, <1>0, <1>3, RestIs
<1>5. \/ Queued = {} /\ chunk' = [chunk EXCEPT ![c] = x] /\ push' = [push EXCEPT !.more = FALSE]
      \/ /\ \E d \in Queued : chunk' = [chunk EXCEPT ![c] = x, ![d] = y]
         /\ push' = push
  BY Zenon DEF Resolve
<1> HIDE DEF x, y
<1>6. /\ push' \in PushType /\ push'.st = "on" /\ push'.parallel = push.parallel
      /\ push'.max_retries = push.max_retries
      /\ push'.more = FALSE => Queued = {} \/ push.more = FALSE
  BY Zenon, <1>0, <1>2, <1>5 DEF PushType
<1>7. /\ chunk'[c] = x /\ chunk' \in [Chunks -> ChunkType]
      /\ \A d \in Chunks \ {c} : chunk'[d] = chunk[d] \/ (chunk[d].st = "queued" /\ chunk'[d] = y)
  BY Zenon, <1>0, <1>4, <1>5 DEF Queued
<1>8. /\ acked' \in [Chunks -> Seq(Callback)]
      /\ acked'[c] # <<>> /\ \A d \in Chunks \ {c} : acked'[d] = acked[d]
      /\ \A d \in Chunks : Len(acked'[d]) <= 1
      /\ \A d \in Chunks : \A i \in 1..Len(acked'[d]) :
           /\ acked'[d][i].is = "err" => push'.st = "err"
           /\ acked'[d][i].is = "shallow" => acked'[d][i].after = MaxChunkRetries
  BY Zenon, <1>0, <1>1, <1>2, CalledBack DEF n
<1>9. /\ entry' \in [Entries -> EntryType]
      /\ \A e \in Entries : entry'[e].inflight = ent[e].inflight
      /\ dials' \subseteq Entries /\ \A e \in dials' : entry'[e].warming
  BY Zenon, <1>1, SweepStep DEF Without
<1>10. InflightIsRacing' /\ SeedsWithinCap'
  <2>1. ASSUME NEW d \in Chunks \ {c}
        PROVE  /\ GuardsOf(chunk'[d]) = GuardsOf(chunk[d])
               /\ GuardsOf(chunk[d]) # {} => chunk'[d].order = chunk[d].order
    <3>1. chunk[d].st = "queued" => GuardsOf(chunk[d]) = {}
      BY Zenon DEF IInv, Orderly, GuardsOf
    <3> QED
      BY Zenon, <1>4, <1>7, <3>1
  <2>2. ASSUME NEW e \in Entries
        PROVE  entry'[e].inflight = Cardinality(Others(c, e)) + (IF e \in GuardsOf(chunk'[c]) THEN 1 ELSE 0)
    <3>1. Cardinality(Others(c, e)) \in Nat
      BY Zenon, InflightSplit DEF IInv
    <3>2. entry'[e].inflight = Cardinality(Others(c, e))
      BY Zenon, <1>9 DEF Without
    <3> QED
      BY <1>4, <1>7, <3>1, <3>2
  <2>3. \A e \in Entries : e \notin GuardsOf(chunk'[c])
    BY Zenon, <1>4, <1>7
  <2> QED
    BY Zenon, <1>6, <2>1, <2>2, <2>3, CountStep
<1>11. \A d \in Chunks : Orderly(chunk[d])'
  <2>1. \A d \in Chunks : Orderly(chunk'[d])
    BY Zenon, <1>4, <1>7 DEF IInv
  <2> QED
    BY Zenon, <1>6, <2>1 DEF Orderly, Width, limit
<1>12. Accounted'
  <2>1. \A d \in Chunks : acked'[d] = <<>> <=> chunk'[d].st # "done"
    <3>1. \A d \in Chunks : acked[d] = <<>> <=> chunk[d].st # "done"
      BY Zenon, <1>2 DEF IInv, Accounted
    <3> QED
      BY Zenon, <1>4, <1>7, <1>8, <3>1
  <2>2. push'.more = FALSE => Queued' = {}
    <3>1. push'.more = FALSE => Queued = {}
      BY Zenon, <1>2, <1>6 DEF IInv, Accounted
    <3>2. Queued' \subseteq Queued
      BY Zenon, <1>4, <1>7 DEF Queued
    <3> QED
      BY Zenon, <3>1, <3>2
  <2> QED
    BY Zenon, <1>6, <1>8, <2>1, <2>2 DEF Accounted
<1> QED
  BY Zenon, <1>6, <1>7, <1>8, <1>9, <1>10, <1>11, <1>12 DEF IInv, Typed, OneDialEach

\* An entry with its flag and its count set.
LEMMA EntryWith ==
  ASSUME NEW r \in EntryType, NEW w \in BOOLEAN, NEW k \in Int,
         NEW x, x = [r EXCEPT !.warming = w, !.inflight = k]
  PROVE  x \in EntryType /\ x.inflight = k
  BY Zenon DEF EntryType

\* The call ends with an error.
LEMMA AbortStep ==
  ASSUME IInv, NEW c \in Chunks, chunk[c].st \notin {"queued", "done"}, NEW ent, Without(c, ent),
         Abort(c, ent), UNCHANGED <<pool, ends>>
  PROVE  IInv'
<1> DEFINE n == chunk[c].tries + 1
<1>0. chunk \in [Chunks -> ChunkType] /\ push \in PushType /\ n \in Nat
  BY DispatcherAssumption DEF IInv, Typed, ChunkType
<1>1. /\ acked' = [acked EXCEPT ![c] = Append(@, [is |-> "err", after |-> n])]
      /\ push' = [push EXCEPT !.st = "err"] /\ dials' = {}
      /\ chunk' = [d \in Chunks |-> Rest(IF d = c THEN "done" ELSE "queued", 0)]
  BY Zenon DEF Abort
<1> HIDE DEF n
<1>2. push' \in PushType /\ push'.st = "err"
  BY Zenon, <1>0, <1>1 DEF PushType
<1>3. /\ acked' \in [Chunks -> Seq(Callback)]
      /\ \A d \in Chunks : Len(acked'[d]) <= 1
      /\ \A d \in Chunks : \A i \in 1..Len(acked'[d]) :
           /\ acked'[d][i].is = "err" => push'.st = "err"
           /\ acked'[d][i].is = "shallow" => acked'[d][i].after = MaxChunkRetries
  BY Zenon, <1>0, <1>1, <1>2, CalledBack
<1>4. 0 \in 0..(MaxChunkRetries - 1)
  BY DispatcherAssumption
<1>5. ASSUME NEW d \in Chunks
      PROVE  /\ chunk'[d] \in ChunkType /\ chunk'[d].st \in {"queued", "done"}
             /\ GuardsOf(chunk'[d]) = {} /\ Orderly(chunk'[d])
  <2> DEFINE st == IF d = c THEN "done" ELSE "queued"
  <2>1. chunk'[d] = Rest(st, 0) /\ st \in {"queued", "done"}
    BY Zenon, <1>1
  <2> HIDE DEF st
  <2> QED
    BY <1>0, <1>4, <2>1, RestIs
<1>6. chunk' \in [Chunks -> ChunkType]
  BY Zenon, <1>1, <1>5
<1>7. \A d \in Chunks : Orderly(chunk[d])'
  <2>1. push'.parallel = push.parallel /\ push'.max_retries = push.max_retries
    BY Zenon, <1>0, <1>1 DEF PushType
  <2> QED
    BY Zenon, <1>5, <2>1 DEF Orderly, Width, limit
<1>8. ASSUME NEW e \in Entries
      PROVE  entry'[e] \in EntryType /\ entry'[e].inflight = 0
  <2> DEFINE w == ent[e].warming \/ e \in Warmable(ent)
             k == ent[e].inflight - Cardinality({d \in Chunks \ {c} : e \in Guarded(d)})
  <2>1. entry'[e] = [ent[e] EXCEPT !.warming = w, !.inflight = k]
    BY Zenon DEF Abort
  <2>2. {d \in Chunks \ {c} : e \in Guarded(d)} = Others(c, e)
    BY Zenon DEF Others, Guarded, GuardsOf
  <2>3. Cardinality(Others(c, e)) \in Nat
    BY Zenon, InflightSplit DEF IInv
  <2>4. ent[e].inflight = Cardinality(Others(c, e)) /\ ent[e] \in EntryType
    BY Zenon DEF Without
  <2>5. w \in BOOLEAN
    BY Zenon
  <2>6. k = ent[e].inflight - Cardinality(Others(c, e))
    BY Zenon, <2>2
  <2> HIDE DEF w, k
  <2>7. k = 0
    BY <2>3, <2>4, <2>6
  <2>8. k \in Int
    BY <2>7
  <2> DEFINE r == ent[e]
             x == entry'[e]
  <2>9. r \in EntryType /\ x = [r EXCEPT !.warming = w, !.inflight = k]
    BY Zenon, <2>1, <2>4
  <2> HIDE DEF r, x
  <2>10. x \in EntryType /\ x.inflight = k
    BY ZenonT(60), <2>5, <2>8, <2>9, EntryWith
  <2> QED
    BY Zenon, <2>7, <2>10 DEF x
<1>9. entry' \in [Entries -> EntryType]
  BY Zenon, <1>8 DEF Abort
<1>10. \A e \in Entries :
         /\ {d \in Chunks : e \in Guarded(d)'} = {}
         /\ {d \in Chunks : e \in Guarded(d)' /\ e \in Seeds(chunk[d].order)'} = {}
  BY Zenon, <1>5 DEF Guarded, GuardsOf
<1>11. InflightIsRacing' /\ SeedsWithinCap'
  <2>1. Cardinality({}) = 0 /\ 0 <= Cap
    BY FS_EmptySet, DispatcherAssumption
  <2> QED
    BY Zenon, <1>8, <1>10, <2>1 DEF InflightIsRacing, SeedsWithinCap
<1>12. Accounted'
  BY Zenon, <1>2, <1>3, <1>5 DEF Accounted
<1> QED
  BY Zenon, <1>1, <1>2, <1>3, <1>6, <1>7, <1>9, <1>11, <1>12 DEF IInv, Typed, OneDialEach

\* A dispatch that got no receipt.
LEMMA FailedStep ==
  ASSUME IInv, NEW c \in Chunks, chunk[c].st \notin {"queued", "done"}, NEW ent, Without(c, ent),
         NEW seen, Failed(c, ent, seen), UNCHANGED <<pool, ends>>
  PROVE  IInv'
<1>1. CASE Abort(c, ent)
  BY Zenon, <1>1, AbortStep
<1>2. CASE ~Spent(c, seen) /\ Retry(c, ent)
  BY Zenon, <1>2, RetryStep
<1>3. CASE Spent(c, seen) /\ Resolve(c, "shallow", ent)
  <2>1. chunk[c].tries + 1 = MaxChunkRetries
    <3>1. chunk[c].tries \in 0..(MaxChunkRetries - 1)
      BY Zenon DEF IInv, Typed, ChunkType
    <3> QED
      BY <1>3, <3>1, DispatcherAssumption DEF Spent
  <2> QED
    BY Zenon, <1>3, <2>1, ResolveStep
<1> QED
  BY Zenon, <1>1, <1>2, <1>3 DEF Failed

-----------------------------------------------------------------------------
\* What the attempts of a dispatch are.
LEMMA AttemptsAre ==
  ASSUME NEW att \in Attempts
  PROVE  /\ DOMAIN att \subseteq Entries /\ IsFiniteSet(DOMAIN att)
         /\ \A e \in DOMAIN att : att[e] \in Phases
<1>1. PICK D \in SUBSET Entries : att \in [D -> Phases]
  BY Zenon DEF Attempts
<1>2. DOMAIN att = D
  BY Zenon, <1>1
<1>3. IsFiniteSet(D)
  BY Zenon, DispatcherAssumption, FS_Subset
<1> QED
  BY Zenon, <1>1, <1>2, <1>3

\* New attempts beside those that are racing.
LEMMA StartedIs ==
  ASSUME NEW ent, NEW att \in Attempts, NEW S \in SUBSET Entries
  PROVE  Started(ent, att, S) \in Attempts
<1> DEFINE D == DOMAIN att \cup S
           f == [e \in D |-> IF e \in S THEN First(ent, e) ELSE att[e]]
<1>1. Started(ent, att, S) = f
  BY Zenon DEF Started
<1>2. \A e \in Entries : First(ent, e) \in Phases
  BY Zenon DEF First, Phases
<1>3. DOMAIN att \subseteq Entries /\ \A e \in DOMAIN att : att[e] \in Phases
  BY Zenon, AttemptsAre
<1>4. D \in SUBSET Entries
  BY Zenon, <1>3
<1>5. f \in [D -> Phases]
  BY Zenon, <1>2, <1>3, <1>4
<1>6. f \in Attempts
  BY Zenon, <1>4, <1>5 DEF Attempts
<1> HIDE DEF f
<1> QED
  BY Zenon, <1>1, <1>6

\* Where they begin, and the others are where they were.
LEMMA StartedAt ==
  ASSUME NEW ent, NEW att \in Attempts, NEW S \in SUBSET Entries
  PROVE  /\ \A e \in DOMAIN att \ S : Started(ent, att, S)[e] = att[e]
         /\ \A e \in S : Started(ent, att, S)[e] = "parked" <=> ent[e].dead
<1>1. \A e \in DOMAIN att \ S : Started(ent, att, S)[e] = att[e]
  BY Zenon DEF Started
<1>2. \A e \in S : Started(ent, att, S)[e] = First(ent, e)
  BY Zenon DEF Started
<1>3. \A e \in S : First(ent, e) = "parked" <=> ent[e].dead
  BY Zenon DEF First
<1> QED
  BY Zenon, <1>1, <1>2, <1>3

\* Counts that went up and down.
LEMMA CountedAt ==
  ASSUME NEW ent \in [Entries -> EntryType], NEW S, NEW T, NEW e \in Entries
  PROVE  /\ Counted(ent, S, T)[e] \in EntryType
         /\ Counted(ent, S, T)[e].inflight =
              ent[e].inflight + (IF e \in S /\ ~ent[e].dead THEN 1 ELSE 0) - (IF e \in T THEN 1 ELSE 0)
         /\ Counted(ent, S, T)[e].warming = ent[e].warming
<1> DEFINE a == IF e \in S /\ ~ent[e].dead THEN 1 ELSE 0
           b == IF e \in T THEN 1 ELSE 0
           k == ent[e].inflight + a - b
<1>1. Counted(ent, S, T)[e] = [ent[e] EXCEPT !.inflight = k]
  BY Zenon DEF Counted
<1>2. a \in Int /\ b \in Int
  OBVIOUS
<1> HIDE DEF a, b
<1>3. ent[e] \in EntryType /\ ent[e].inflight \in Int
  BY Zenon DEF EntryType
<1>4. k \in Int
  BY <1>2, <1>3
<1> HIDE DEF k
<1>5. /\ Counted(ent, S, T)[e] \in EntryType /\ Counted(ent, S, T)[e].inflight = k
      /\ Counted(ent, S, T)[e].warming = ent[e].warming
  BY Zenon, <1>1, <1>3, <1>4 DEF EntryType
<1> QED
  BY Zenon, <1>5 DEF k, a, b

\* They are still entries.
LEMMA CountedIs ==
  ASSUME NEW ent \in [Entries -> EntryType], NEW S, NEW T
  PROVE  /\ Counted(ent, S, T) \in [Entries -> EntryType]
         /\ \A e \in Entries : Counted(ent, S, T)[e].warming = ent[e].warming
<1>1. \A e \in Entries : Counted(ent, S, T)[e] \in EntryType
  BY Zenon, CountedAt
<1>2. \A e \in Entries : Counted(ent, S, T)[e].warming = ent[e].warming
  BY CountedAt
<1>3. Counted(ent, S, T) = [e \in Entries |-> Counted(ent, S, T)[e]]
  BY Zenon DEF Counted
<1> QED
  BY Zenon, <1>1, <1>2, <1>3

\* A race starts.
LEMMA DispatchStep ==
  ASSUME IInv, NEW c \in Chunks, NEW cool \in SUBSET Entries, Dispatch(c, cool)
  PROVE  IInv'
<1>0. /\ chunk \in [Chunks -> ChunkType] /\ push \in PushType /\ entry \in [Entries -> EntryType]
      /\ chunk[c] \in ChunkType /\ dials \subseteq Entries
  BY Zenon DEF IInv, Typed
<1>1. chunk[c].st \in {"start", "wait"} /\ UNCHANGED <<pool, push, dials, acked, ends>>
  BY Zenon DEF Dispatch
<1>2. PICK order \in Orders(Eligible(cool)) : Seed(c, order)
  BY Zenon DEF Dispatch
<1>3. /\ order \in Seq(Entries)
      /\ \A i, j \in 1..Len(order) : order[i] = order[j] => i = j
      /\ \A i \in 1..Len(order) : order[i] \in Eligible(cool)
  <2>1. Eligible(cool) \in SUBSET Entries
    BY Zenon DEF IInv, Typed, Eligible
  <2> QED
    BY Zenon, <2>1, OrderIs
<1> DEFINE S == Seeds(order)
           n == Cardinality(S)
           st == IF n = 0 THEN "wait" ELSE "race"
           att == Started(entry, NoAttempts, S)
           x == [chunk[c] EXCEPT !.st = st, !.order = order, !.idx = n, !.att = att]
<1>4. chunk' = [chunk EXCEPT ![c] = x] /\ entry' = Counted(entry, S, {})
  BY Zenon, <1>2 DEF Seed
<1>5. IsFiniteSet(S) /\ n = Width(order)
  BY Zenon, <1>0, <1>3, SeedsCount
<1>6. Width(order) \in Nat /\ Width(order) <= Len(order) /\ Width(order) <= push.parallel
  BY Zenon, <1>0, <1>3, LimitBounds
<1>7. (\A e : e \in S <=> \E i \in 1..Width(order) : order[i] = e) /\ S \in SUBSET Entries
  BY Zenon, <1>0, <1>3, SeedsAre
<1>8. NoAttempts \in Attempts /\ DOMAIN NoAttempts = {}
  <2>1. NoAttempts \in [{} -> Phases] /\ {} \in SUBSET Entries
    BY Zenon DEF NoAttempts
  <2> QED
    BY Zenon, <2>1 DEF Attempts, NoAttempts
<1>9. /\ att \in Attempts /\ DOMAIN att = S
      /\ \A e \in S : att[e] = "parked" <=> entry[e].dead
  <2> HIDE DEF S
  <2> DEFINE none == NoAttempts
             ent == entry
  <2>0. S \in SUBSET Entries /\ none \in Attempts /\ ent \in [Entries -> EntryType]
    BY Zenon, <1>0, <1>7, <1>8
  <2> HIDE DEF none, ent
  <2>1. Started(ent, none, S) \in Attempts
    BY Zenon, <2>0, StartedIs
  <2>2. DOMAIN Started(ent, none, S) = S
    BY Zenon, <1>8 DEF Started, none
  <2>6. \A e \in S : Started(ent, none, S)[e] = "parked" <=> ent[e].dead
    BY <2>0, StartedAt
  <2>3. Started(ent, none, S) = att
    BY Zenon DEF none, ent, att
  <2>4. \A e \in S : att[e] = "parked" <=> ent[e].dead
    BY Zenon, <2>3, <2>6
  <2>5. att \in Attempts /\ DOMAIN att = S
    BY Zenon, <2>1, <2>2, <2>3
  <2> QED
    BY Zenon, <2>4, <2>5 DEF ent
<1>10. st \in {"wait", "race"} /\ (st = "wait" => S = {})
  BY Zenon, <1>5, FS_EmptySet
<1>11. S = Seeds(order)
  BY Zenon
<1> HIDE DEF S, n, st, att
<1>12. /\ x \in ChunkType /\ x.st = st /\ x.order = order /\ x.idx = n /\ x.att = att
  BY Zenon, <1>0, <1>3, <1>5, <1>6, <1>9, <1>10 DEF ChunkType, ChunkStates
<1> HIDE DEF x
<1>13. Orderly(x)
  <2>1. \A e \in DOMAIN x.att : \E i \in 1..x.idx : x.order[i] = e
    BY <1>5, <1>7, <1>9, <1>12
  <2>2. Cardinality(DOMAIN x.att) <= push.parallel
    BY Zenon, <1>5, <1>6, <1>9, <1>12 DEF n
  <2>3. x.idx <= Len(x.order) /\ Width(x.order) <= x.idx
    BY <1>5, <1>6, <1>12
  <2>4. x.st # "race" => DOMAIN x.att = {}
    BY Zenon, <1>9, <1>10, <1>12
  <2> QED
    BY Zenon, <1>3, <1>10, <1>12, <2>1, <2>2, <2>3, <2>4 DEF Orderly
<1>14. \A e \in Entries : e \in GuardsOf(x) <=> e \in S /\ ~entry[e].dead
  BY Zenon, <1>9, <1>12 DEF GuardsOf
<1>15. GuardsOf(chunk[c]) = {} /\ Guarded(c) = {}
  BY Zenon, <1>1 DEF IInv, Orderly, GuardsOf, Guarded
<1>16. ASSUME NEW e \in Entries
       PROVE  /\ Cardinality(Others(c, e)) \in Nat
              /\ entry[e].inflight = Cardinality(Others(c, e))
  BY <1>15, InflightSplit DEF IInv
<1>17. ASSUME NEW e \in Entries
       PROVE  entry'[e].inflight = Cardinality(Others(c, e)) + (IF e \in GuardsOf(x) THEN 1 ELSE 0)
  <2>1. entry'[e].inflight = entry[e].inflight + (IF e \in S /\ ~entry[e].dead THEN 1 ELSE 0)
                               - (IF e \in {} THEN 1 ELSE 0)
    BY <1>0, <1>4, CountedAt
  <2>2. CASE e \in GuardsOf(x)
    <3>1. e \in S /\ ~entry[e].dead
      BY Zenon, <1>14, <2>2
    <3> QED
      BY <1>16, <2>1, <2>2, <3>1
  <2>3. CASE e \notin GuardsOf(x)
    <3>1. ~(e \in S /\ ~entry[e].dead)
      BY Zenon, <1>14, <2>3
    <3> QED
      BY <1>16, <2>1, <2>3, <3>1
  <2> QED
    BY Zenon, <2>2, <2>3
<1>18. ASSUME NEW e \in Entries, e \in GuardsOf(x) PROVE Cardinality(Others(c, e)) < Cap
  <2>1. PICK i \in 1..Width(order) : order[i] = e
    BY Zenon, <1>7, <1>14, <1>18
  <2>2. e \in Eligible(cool)
    BY <1>3, <1>6, <2>1
  <2> QED
    BY Zenon, <1>16, <2>2 DEF Eligible
<1>19. entry' \in [Entries -> EntryType] /\ \A e \in dials' : entry'[e].warming
  <2>1. entry' \in [Entries -> EntryType] /\ \A e \in Entries : entry'[e].warming = entry[e].warming
    BY <1>0, <1>4, CountedIs
  <2> QED
    BY Zenon, <1>0, <1>1, <2>1 DEF IInv, OneDialEach
<1>20. chunk[c].st \notin {"queued", "done"} /\ x.st \notin {"queued", "done"}
  BY Zenon, <1>1, <1>10, <1>12
<1> QED
  BY Zenon, <1>0, <1>1, <1>4, <1>12, <1>13, <1>17, <1>18, <1>19, <1>20, StayStep
-----------------------------------------------------------------------------
\* A dispatch that is not racing holds no guard.
LEMMA NoGuards ==
  ASSUME IInv, NEW c \in Chunks, chunk[c].st # "race"
  PROVE  /\ GuardsOf(chunk[c]) = {} /\ Guarded(c) = {}
         /\ \A e \in Entries : entry[e].inflight = Cardinality(Others(c, e))
<1>1. GuardsOf(chunk[c]) = {} /\ Guarded(c) = {}
  BY Zenon DEF IInv, Orderly, GuardsOf, Guarded
<1>2. ASSUME NEW e \in Entries PROVE entry[e].inflight = Cardinality(Others(c, e))
  BY <1>1, InflightSplit DEF IInv
<1> QED
  BY Zenon, <1>1, <1>2

\* Then nothing is to let go of.
LEMMA NothingHeld ==
  ASSUME IInv, NEW c \in Chunks, chunk[c].st # "race", NEW ent \in [Entries -> EntryType],
         \A e \in Entries : ent[e].inflight = entry[e].inflight,
         \A e \in Entries : ent[e].warming = entry[e].warming
  PROVE  Without(c, ent)
  BY Zenon, NoGuards DEF Without

\* Dispatch c goes on as x with the guards it has.
LEMMA SameGuards ==
  ASSUME IInv, NEW c \in Chunks, NEW x \in ChunkType, chunk' = [chunk EXCEPT ![c] = x],
         chunk[c].st \notin {"queued", "done"}, x.st \notin {"queued", "done"}, Orderly(x),
         GuardsOf(x) = GuardsOf(chunk[c]), x.order = chunk[c].order,
         entry' \in [Entries -> EntryType],
         \A e \in Entries : entry'[e].inflight = entry[e].inflight,
         \A e \in Entries : entry'[e].warming = entry[e].warming,
         UNCHANGED <<pool, push, dials, acked, ends>>
  PROVE  IInv'
<1>1. ASSUME NEW e \in Entries
      PROVE  entry'[e].inflight = Cardinality(Others(c, e)) + (IF e \in GuardsOf(x) THEN 1 ELSE 0)
  <2>1. entry[e].inflight = Cardinality(Others(c, e)) + (IF e \in Guarded(c) THEN 1 ELSE 0)
    BY Zenon, InflightSplit DEF IInv
  <2>2. Guarded(c) = GuardsOf(x)
    BY Zenon DEF Guarded, GuardsOf
  <2> QED
    BY Zenon, <2>1, <2>2
<1>2. dials' \subseteq Entries /\ \A e \in dials' : entry'[e].warming
  BY Zenon DEF IInv, Typed, OneDialEach
<1> QED
  BY Zenon, <1>1, <1>2, StayStep

\* A retry starts.
LEMMA AgainStep ==
  ASSUME IInv, NEW c \in Chunks, Again(c)
  PROVE  IInv'
<1> DEFINE x == [chunk[c] EXCEPT !.st = "start"]
<1>0. /\ chunk \in [Chunks -> ChunkType] /\ chunk[c] \in ChunkType /\ entry \in [Entries -> EntryType]
      /\ Orderly(chunk[c])
  BY Zenon DEF IInv, Typed
<1>1. /\ chunk[c].st = "backoff" /\ chunk' = [chunk EXCEPT ![c] = x]
      /\ UNCHANGED <<pool, entry, push, dials, acked, ends>>
  BY Zenon DEF Again
<1>2. /\ x \in ChunkType /\ x.st = "start" /\ x.order = chunk[c].order /\ x.idx = chunk[c].idx
      /\ x.att = chunk[c].att
  BY Zenon, <1>0 DEF ChunkType, ChunkStates
<1> HIDE DEF x
<1>3. Orderly(x) /\ GuardsOf(x) = GuardsOf(chunk[c])
  BY Zenon, <1>0, <1>1, <1>2 DEF Orderly, GuardsOf
<1> QED
  BY Zenon, <1>0, <1>1, <1>2, <1>3, SameGuards

\* A dispatch that found no candidate in time.
LEMMA WaitingStep ==
  ASSUME IInv, NEW c \in Chunks, GivesUpWaiting(c)
  PROVE  IInv'
<1>1. chunk[c].st = "wait" /\ Failed(c, entry, {}) /\ UNCHANGED <<pool, ends>>
  BY Zenon DEF GivesUpWaiting
<1>2. entry \in [Entries -> EntryType]
  BY Zenon DEF IInv, Typed
<1>3. Without(c, entry)
  BY Zenon, <1>1, <1>2, NothingHeld
<1> QED
  BY Zenon, <1>1, <1>3, FailedStep

\* An attempt moves on from one phase to another.
LEMMA PhaseStep ==
  ASSUME IInv, NEW c \in Chunks, NEW e \in DOMAIN chunk[c].att, chunk[c].att[e] # "parked",
         NEW p \in Phases \ {"parked"}, chunk' = [chunk EXCEPT ![c].att[e] = p],
         entry' \in [Entries -> EntryType],
         \A d \in Entries : entry'[d].inflight = entry[d].inflight,
         \A d \in Entries : entry'[d].warming = entry[d].warming,
         UNCHANGED <<pool, push, dials, acked, ends>>
  PROVE  IInv'
<1> DEFINE att == [chunk[c].att EXCEPT ![e] = p]
           x == [chunk[c] EXCEPT !.att = att]
<1>0. chunk \in [Chunks -> ChunkType] /\ chunk[c] \in ChunkType /\ Orderly(chunk[c])
  BY Zenon DEF IInv, Typed
<1>1. chunk' = [chunk EXCEPT ![c] = x]
  BY Zenon, <1>0 DEF ChunkType
<1>2. chunk[c].att \in Attempts
  BY Zenon, <1>0 DEF ChunkType
<1>3. PICK D \in SUBSET Entries : chunk[c].att \in [D -> Phases]
  BY Zenon, <1>2 DEF Attempts
<1>4. att \in [D -> Phases] /\ DOMAIN att = DOMAIN chunk[c].att
  BY Zenon, <1>3
<1>5. att \in Attempts
  BY Zenon, <1>4 DEF Attempts
<1>6. \A d \in DOMAIN att : att[d] = "parked" <=> chunk[c].att[d] = "parked"
  BY Zenon, <1>3
<1>7. chunk[c].st = "race"
  BY Zenon, <1>0 DEF Orderly
<1> HIDE DEF att
<1>8. /\ x \in ChunkType /\ x.st = "race" /\ x.order = chunk[c].order /\ x.idx = chunk[c].idx
      /\ x.att = att
  BY Zenon, <1>0, <1>5, <1>7 DEF ChunkType
<1> HIDE DEF x
<1>9. GuardsOf(x) = GuardsOf(chunk[c])
  BY Zenon, <1>4, <1>6, <1>8 DEF GuardsOf
<1>10. Orderly(x)
  BY <1>0, <1>4, <1>7, <1>8 DEF Orderly
<1> QED
  BY Zenon, <1>1, <1>7, <1>8, <1>9, <1>10, SameGuards

\* An entry that changed but for its count and its flag.
Kept(x, r) == x \in EntryType /\ x.inflight = r.inflight /\ x.warming = r.warming

\* One entry of all changes so.
LEMMA OneEntry ==
  ASSUME NEW ent \in [Entries -> EntryType], NEW e \in Entries, NEW r, Kept(r, ent[e]),
         NEW f, f = [ent EXCEPT ![e] = r]
  PROVE  /\ f \in [Entries -> EntryType]
         /\ \A d \in Entries : f[d].inflight = ent[d].inflight
         /\ \A d \in Entries : f[d].warming = ent[d].warming
<1>0. r \in EntryType /\ r.inflight = ent[e].inflight /\ r.warming = ent[e].warming
  BY Zenon DEF Kept
<1>1. f \in [Entries -> EntryType]
  BY Zenon, <1>0
<1>2. f[e] = r /\ \A d \in Entries \ {e} : f[d] = ent[d]
  BY Zenon
<1> QED
  BY Zenon, <1>0, <1>1, <1>2

\* The ways an entry changes so.
LEMMA EntryMoves ==
  ASSUME NEW r \in EntryType, NEW n \in 0..DeadStrikes, NEW b \in BOOLEAN
  PROVE  /\ Kept([r EXCEPT !.alive = b], r)
         /\ Kept([r EXCEPT !.pending = FALSE, !.alive = TRUE], r)
         /\ Kept([r EXCEPT !.strikes = n, !.dead = b], r)
         /\ Kept([r EXCEPT !.strikes = n], r)
         /\ Kept([r EXCEPT !.strikes = n, !.alive = TRUE], r)
         /\ Kept([r EXCEPT !.dead = b], r)
<1>1. Kept([r EXCEPT !.alive = b], r)
  BY Zenon DEF Kept, EntryType
<1>2. Kept([r EXCEPT !.pending = FALSE, !.alive = TRUE], r)
  BY Zenon DEF Kept, EntryType
<1>3. Kept([r EXCEPT !.strikes = n, !.dead = b], r)
  BY Zenon DEF Kept, EntryType
<1>4. Kept([r EXCEPT !.strikes = n], r)
  BY Zenon DEF Kept, EntryType
<1>5. Kept([r EXCEPT !.strikes = n, !.alive = TRUE], r)
  BY Zenon DEF Kept, EntryType
<1>6. Kept([r EXCEPT !.dead = b], r)
  BY Zenon DEF Kept, EntryType
<1> QED
  BY Zenon, <1>1, <1>2, <1>3, <1>4, <1>5, <1>6

\* A strike.
LEMMA StruckIs ==
  ASSUME NEW ent \in [Entries -> EntryType], NEW e \in Entries
  PROVE  /\ Struck(ent, e) \in [Entries -> EntryType]
         /\ \A d \in Entries : Struck(ent, e)[d].inflight = ent[d].inflight
         /\ \A d \in Entries : Struck(ent, e)[d].warming = ent[d].warming
<1> DEFINE n == Min({ent[e].strikes + 1, DeadStrikes})
           b == ent[e].dead \/ n >= DeadStrikes
           r == [ent[e] EXCEPT !.strikes = n, !.dead = b]
           f == Struck(ent, e)
<1>1. ent[e] \in EntryType /\ ent[e].strikes \in 0..DeadStrikes /\ DeadStrikes \in Nat
  BY Zenon, DispatcherAssumption DEF EntryType
<1>2. n \in 0..DeadStrikes
  <2>1. ent[e].strikes + 1 \in Int /\ DeadStrikes \in Int
    BY <1>1
  <2>2. n = IF ent[e].strikes + 1 <= DeadStrikes THEN ent[e].strikes + 1 ELSE DeadStrikes
    BY Zenon, <2>1, MinTwo
  <2> QED
    BY <1>1, <2>2
<1>3. f = [ent EXCEPT ![e] = r]
  BY Zenon DEF Struck
<1>4. b \in BOOLEAN
  BY Zenon
<1> HIDE DEF n, b, f
<1>5. Kept(r, ent[e])
  BY Zenon, <1>1, <1>2, <1>4, EntryMoves
<1> HIDE DEF r
<1>6. /\ f \in [Entries -> EntryType]
      /\ \A d \in Entries : f[d].inflight = ent[d].inflight
      /\ \A d \in Entries : f[d].warming = ent[d].warming
  BY <1>3, <1>5, OneEntry
<1> QED
  BY Zenon, <1>6 DEF f

\* A pushed-to session ended: a replacement, or a dial.
LEMMA RotateStep ==
  ASSUME IInv, NEW c \in Chunks, NEW e \in Entries, Rotate(c, e)
  PROVE  IInv'
<1>0. entry \in [Entries -> EntryType] /\ entry[e] \in EntryType
  BY Zenon DEF IInv, Typed
<1>1. /\ e \in DOMAIN chunk[c].att /\ chunk[c].att[e] # "parked"
      /\ UNCHANGED <<pool, push, dials, acked, ends>>
  BY Zenon DEF Rotate
<1>2. "again" \in Phases \ {"parked"} /\ "dial" \in Phases \ {"parked"}
  BY Zenon DEF Phases
<1>3. CASE entry[e].pending
  <2> DEFINE r == [entry[e] EXCEPT !.pending = FALSE, !.alive = TRUE]
  <2>1. entry' = [entry EXCEPT ![e] = r] /\ chunk' = [chunk EXCEPT ![c].att[e] = "again"]
    BY Zenon, <1>0, <1>3 DEF Rotate
  <2>2. 0 \in 0..DeadStrikes /\ TRUE \in BOOLEAN
    BY DispatcherAssumption
  <2>3. Kept(r, entry[e])
    BY Zenon, <1>0, <2>2, EntryMoves
  <2> HIDE DEF r
  <2>4. /\ entry' \in [Entries -> EntryType]
        /\ \A d \in Entries : entry'[d].inflight = entry[d].inflight
        /\ \A d \in Entries : entry'[d].warming = entry[d].warming
    BY <1>0, <2>1, <2>3, OneEntry
  <2> QED
    BY Zenon, <1>1, <1>2, <2>1, <2>4, PhaseStep
<1>4. CASE ~entry[e].pending
  <2>1. entry' = entry /\ chunk' = [chunk EXCEPT ![c].att[e] = "dial"]
    BY Zenon, <1>4 DEF Rotate
  <2> QED
    BY Zenon, <1>0, <1>1, <1>2, <2>1, PhaseStep
<1> QED
  BY Zenon, <1>3, <1>4

\* The dial of an attempt succeeded.
LEMMA RedialledStep ==
  ASSUME IInv, NEW c \in Chunks, NEW e \in Entries, Redialled(c, e)
  PROVE  IInv'
<1> DEFINE r == [entry[e] EXCEPT !.alive = TRUE]
<1>0. entry \in [Entries -> EntryType] /\ entry[e] \in EntryType
  BY Zenon DEF IInv, Typed
<1>1. /\ e \in DOMAIN chunk[c].att /\ chunk[c].att[e] # "parked"
      /\ entry' = [entry EXCEPT ![e] = r] /\ chunk' = [chunk EXCEPT ![c].att[e] = "again"]
      /\ UNCHANGED <<pool, push, dials, acked, ends>>
  BY Zenon, <1>0 DEF Redialled
<1>2. "again" \in Phases \ {"parked"}
  BY Zenon DEF Phases
<1>3. 0 \in 0..DeadStrikes /\ TRUE \in BOOLEAN
  BY DispatcherAssumption
<1>4. Kept(r, entry[e])
  BY Zenon, <1>0, <1>3, EntryMoves
<1> HIDE DEF r
<1>5. /\ entry' \in [Entries -> EntryType]
      /\ \A d \in Entries : entry'[d].inflight = entry[d].inflight
      /\ \A d \in Entries : entry'[d].warming = entry[d].warming
  BY <1>0, <1>1, <1>4, OneEntry
<1> QED
  BY Zenon, <1>1, <1>2, <1>5, PhaseStep

\* The guards of dispatch c are gone from the counts.
LEMMA LetGo ==
  ASSUME IInv, NEW c \in Chunks, NEW hit \in [Entries -> EntryType],
         \A d \in Entries : hit[d].inflight = entry[d].inflight,
         \A d \in Entries : hit[d].warming = entry[d].warming,
         NEW ent, NEW T, T = Guarded(c), ent = Counted(hit, {}, T)
  PROVE  Without(c, ent)
<1>1. ent \in [Entries -> EntryType] /\ \A d \in Entries : ent[d].warming = entry[d].warming
  BY CountedIs
<1>2. ASSUME NEW d \in Entries PROVE ent[d].inflight = Cardinality(Others(c, d))
  <2>1. ent[d].inflight =
          hit[d].inflight + (IF d \in {} /\ ~hit[d].dead THEN 1 ELSE 0) - (IF d \in T THEN 1 ELSE 0)
    BY CountedAt
  <2>2. ent[d].inflight = hit[d].inflight + 0 - (IF d \in T THEN 1 ELSE 0)
    BY Zenon, <2>1
  <2>3. /\ Cardinality(Others(c, d)) \in Nat
        /\ entry[d].inflight = Cardinality(Others(c, d)) + (IF d \in Guarded(c) THEN 1 ELSE 0)
    BY Zenon, InflightSplit DEF IInv
  <2> QED
    BY <2>2, <2>3
<1> QED
  BY Zenon, <1>1, <1>2 DEF Without

\* A full receipt.
LEMMA ReceiptStep ==
  ASSUME IInv, NEW c \in Chunks, NEW e \in Entries, Receipt(c, e)
  PROVE  IInv'
<1> DEFINE r == [entry[e] EXCEPT !.strikes = 0]
           hit == [entry EXCEPT ![e].strikes = 0]
           ent == Counted(hit, {}, Dropped(c, e))
<1>0. entry \in [Entries -> EntryType] /\ entry[e] \in EntryType
  BY Zenon DEF IInv, Typed
<1>1. e \in DOMAIN chunk[c].att /\ Resolve(c, "ok", ent) /\ UNCHANGED <<pool, ends>>
  BY Zenon DEF Receipt
<1>2. chunk[c].st = "race"
  BY Zenon, <1>1 DEF IInv, Orderly
<1>3. 0 \in 0..DeadStrikes /\ TRUE \in BOOLEAN
  BY DispatcherAssumption
<1>4. Kept(r, entry[e])
  BY Zenon, <1>0, <1>3, EntryMoves
<1>5. hit = [entry EXCEPT ![e] = r]
  BY Zenon, <1>0
<1> HIDE DEF r, hit
<1>6. /\ hit \in [Entries -> EntryType]
      /\ \A d \in Entries : hit[d].inflight = entry[d].inflight
      /\ \A d \in Entries : hit[d].warming = entry[d].warming
  BY <1>0, <1>4, <1>5, OneEntry
<1>7. Dropped(c, e) = Guarded(c)
  BY Zenon DEF Dropped
<1> DEFINE T == Dropped(c, e)
<1>8. ent = Counted(hit, {}, T) /\ T = Guarded(c)
  BY Zenon, <1>7
<1> HIDE DEF ent, T
<1>9. Without(c, ent)
  BY Zenon, <1>6, <1>8, LetGo
<1> QED
  BY Zenon, <1>1, <1>2, <1>9, ResolveStep

\* The attempts after a race.
LEMMA SequentialStep ==
  ASSUME IInv, NEW c \in Chunks, NEW how, Sequential(c, how)
  PROVE  IInv'
<1> DEFINE x == chunk[c]
           e == Head(x.todo)
<1>0. /\ entry \in [Entries -> EntryType] /\ chunk \in [Chunks -> ChunkType] /\ x \in ChunkType
      /\ Orderly(x)
  BY Zenon DEF IInv, Typed
<1>1. x.st = "refresh" /\ UNCHANGED <<pool, ends>>
  BY Zenon DEF Sequential
<1>2. x.todo \in Seq(Entries) /\ x.todo # <<>>
  BY Zenon, <1>0, <1>1 DEF ChunkType, Orderly
<1>3. e \in Entries /\ entry[e] \in EntryType
  BY <1>0, <1>2
<1>4. ASSUME NEW ent, Without(c, ent), NEW seen, Failed(c, ent, seen) PROVE IInv'
  BY Zenon, <1>1, <1>4, FailedStep
<1>5. Without(c, entry)
  BY Zenon, <1>0, <1>1, NothingHeld
<1>6. CASE Resolve(c, "ok", [entry EXCEPT ![e].strikes = 0, ![e].alive = TRUE])
  <2> DEFINE r == [entry[e] EXCEPT !.strikes = 0, !.alive = TRUE]
             hit == [entry EXCEPT ![e].strikes = 0, ![e].alive = TRUE]
  <2>1. 0 \in 0..DeadStrikes /\ TRUE \in BOOLEAN
    BY DispatcherAssumption
  <2>2. Kept(r, entry[e])
    BY Zenon, <1>3, <2>1, EntryMoves
  <2>3. hit = [entry EXCEPT ![e] = r]
    BY Zenon, <1>0, <1>3
  <2> HIDE DEF r, hit, e
  <2>4. /\ hit \in [Entries -> EntryType]
        /\ \A d \in Entries : hit[d].inflight = entry[d].inflight
        /\ \A d \in Entries : hit[d].warming = entry[d].warming
    BY <1>0, <1>3, <2>2, <2>3, OneEntry
  <2>5. Without(c, hit)
    BY Zenon, <1>1, <2>4, NothingHeld
  <2>6. Resolve(c, "ok", hit)
    BY Zenon, <1>6 DEF hit
  <2> QED
    BY Zenon, <1>1, <2>5, <2>6, ResolveStep
<1>7. CASE Failed(c, Struck(entry, e), Report(x.seen, how))
  <2> DEFINE hit == Struck(entry, e)
  <2> HIDE DEF e
  <2>1. /\ hit \in [Entries -> EntryType]
        /\ \A d \in Entries : hit[d].inflight = entry[d].inflight
        /\ \A d \in Entries : hit[d].warming = entry[d].warming
    BY Zenon, <1>0, <1>3, StruckIs
  <2> HIDE DEF hit
  <2>2. Without(c, hit)
    BY Zenon, <1>1, <2>1, NothingHeld
  <2> QED
    BY Zenon, <1>4, <1>7, <2>2 DEF hit
<1>8. CASE /\ Len(x.todo) > 1 /\ chunk' = [chunk EXCEPT ![c].todo = Tail(@)]
           /\ UNCHANGED <<entry, push, dials, acked>>
  <2> DEFINE y == [x EXCEPT !.todo = Tail(x.todo)]
  <2>1. chunk' = [chunk EXCEPT ![c] = y]
    BY Zenon, <1>0, <1>8
  <2>2. Tail(x.todo) \in Seq(Entries) /\ Tail(x.todo) # <<>>
    <3> DEFINE s == x.todo
    <3>1. s \in Seq(Entries) /\ Len(s) > 1 /\ s # <<>>
      BY Zenon, <1>2, <1>8
    <3> HIDE DEF s
    <3>2. Tail(s) \in Seq(Entries) /\ Len(Tail(s)) = Len(s) - 1
      BY <3>1
    <3>3. Len(Tail(s)) # 0 /\ Len(<<>>) = 0
      BY <3>1, <3>2
    <3> DEFINE t == Tail(s)
    <3>4. Tail(s) # <<>>
      <4>1. Len(t) # 0 /\ Len(<<>>) = 0
        BY Zenon, <3>3
      <4> HIDE DEF t
      <4>2. t # <<>>
        BY Zenon, <4>1
      <4> QED
        BY Zenon, <4>2 DEF t
    <3> QED
      BY Zenon, <3>2, <3>4 DEF s
  <2>3. /\ y \in ChunkType /\ y.st = x.st /\ y.order = x.order /\ y.idx = x.idx /\ y.att = x.att
        /\ y.todo # <<>>
    BY Zenon, <1>0, <2>2 DEF ChunkType
  <2> HIDE DEF y
  <2>4. GuardsOf(y) = GuardsOf(x) /\ Orderly(y)
    BY <1>0, <2>3 DEF GuardsOf, Orderly
  <2> QED
    BY Zenon, <1>0, <1>1, <1>8, <2>1, <2>3, <2>4, SameGuards
<1>9. CASE \E seen : Failed(c, entry, seen)
  BY Zenon, <1>4, <1>5, <1>9
<1> HIDE DEF e
<1> QED
  BY Zenon, <1>6, <1>7, <1>8, <1>9 DEF Sequential, e

\* The candidate that takes a loser's place, if any is left within the limit.
NextOf(x) == IF x.idx < limit(x.order) THEN {x.order[x.idx + 1]} ELSE {}

\* It is one the race has not tried, so no seed either.
LEMMA NextIs ==
  ASSUME push \in PushType, NEW x \in ChunkType, Orderly(x), x.st = "race", NEW N, N = NextOf(x)
  PROVE  /\ N \in SUBSET Entries /\ N \cap DOMAIN x.att = {} /\ N \cap Seeds(x.order) = {}
         /\ IsFiniteSet(N) /\ Cardinality(N) \in {0, 1} /\ x.idx + Cardinality(N) <= Len(x.order)
         /\ \A m \in N : x.order[x.idx + Cardinality(N)] = m /\ Cardinality(N) = 1
<1>0. x.order \in Seq(Entries) /\ x.idx \in Nat /\ Len(x.order) \in Nat
  BY DEF ChunkType
<1>1. /\ limit(x.order) \in Nat /\ limit(x.order) <= Len(x.order)
      /\ Width(x.order) \in Nat /\ Width(x.order) <= Len(x.order)
  BY Zenon, <1>0, LimitBounds
<1>2. /\ \A i, j \in 1..Len(x.order) : x.order[i] = x.order[j] => i = j
      /\ x.idx <= Len(x.order) /\ Width(x.order) <= x.idx
      /\ \A e \in DOMAIN x.att : \E i \in 1..x.idx : x.order[i] = e
  BY Zenon DEF Orderly
<1>3. CASE x.idx < limit(x.order)
  <2> DEFINE m == x.order[x.idx + 1]
  <2>1. N = {m} /\ x.idx + 1 \in 1..Len(x.order) /\ m \in Entries
    BY <1>0, <1>1, <1>3 DEF NextOf
  <2>2. \A i \in 1..x.idx : x.order[i] # m
    BY <1>0, <1>2, <2>1
  <2>3. m \notin DOMAIN x.att
    BY Zenon, <1>2, <2>2
  <2>4. m \notin Seeds(x.order)
    <3>1. m \in Seeds(x.order) => \E i \in 1..Width(x.order) : x.order[i] = m
      BY Zenon, <1>0, SeedsAre
    <3> QED
      BY <1>0, <1>1, <1>2, <2>2, <3>1
  <2>5. IsFiniteSet({m}) /\ Cardinality({m}) = 1
    BY Zenon, FS_Singleton
  <2>6. x.order[x.idx + 1] = m /\ x.idx + 1 <= Len(x.order)
    BY <1>0, <2>1
  <2> HIDE DEF m
  <2>7. IsFiniteSet(N) /\ Cardinality(N) = 1
    BY Zenon, <2>1, <2>5
  <2> QED
    BY Zenon, <2>1, <2>3, <2>4, <2>6, <2>7
<1>4. CASE ~(x.idx < limit(x.order))
  <2>1. N = {} /\ IsFiniteSet(N) /\ Cardinality(N) = 0
    BY Zenon, <1>4, FS_EmptySet DEF NextOf
  <2> QED
    BY <1>0, <1>2, <2>1
<1> QED
  BY Zenon, <1>3, <1>4

\* What is left of the attempts.
LEMMA RestrictIs ==
  ASSUME NEW att \in Attempts, NEW e, NEW f, f = Restrict(att, DOMAIN att \ {e})
  PROVE  f \in Attempts
<1> DEFINE D == DOMAIN att \ {e}
<1>1. f = [d \in D |-> att[d]]
  BY Zenon DEF Restrict
<1>2. DOMAIN att \subseteq Entries /\ \A d \in DOMAIN att : att[d] \in Phases
  BY Zenon, AttemptsAre
<1>3. D \in SUBSET Entries /\ f \in [D -> Phases]
  BY Zenon, <1>1, <1>2
<1> QED
  BY Zenon, <1>3 DEF Attempts

\* The reports of a dispatch.
LEMMA ReportIs ==
  ASSUME NEW seen \in SUBSET Reports, NEW how \in {"strike", "overdraft", "shallow", "error", "fatal"}
  PROVE  Report(seen, how) \in SUBSET Reports
<1>1. CASE how \in {"strike", "error"}
  BY Zenon, <1>1 DEF Report, Reports
<1>2. CASE how = "fatal"
  BY Zenon, <1>2 DEF Report, Reports
<1>3. CASE how \in {"overdraft", "shallow"}
  BY Zenon, <1>3 DEF Report, Reports
<1> QED
  BY Zenon, <1>1, <1>2, <1>3

\* One attempt less and at most one more are at most as many.
LEMMA SwapCount ==
  ASSUME NEW A, IsFiniteSet(A), NEW e \in A, NEW N, IsFiniteSet(N), Cardinality(N) \in {0, 1}
  PROVE  Cardinality((A \ {e}) \cup N) <= Cardinality(A)
<1>1. Cardinality(A) \in Nat /\ IsFiniteSet(A \ {e}) /\ Cardinality(A \ {e}) = Cardinality(A) - 1
  BY Zenon, FS_RemoveElement, FS_CardinalityType
<1>2. /\ IsFiniteSet((A \ {e}) \cap N) /\ Cardinality((A \ {e}) \cap N) \in Nat
  BY Zenon, <1>1, FS_Intersection, FS_CardinalityType
<1>3. Cardinality((A \ {e}) \cup N)
        = Cardinality(A \ {e}) + Cardinality(N) - Cardinality((A \ {e}) \cap N)
  BY Zenon, <1>1, FS_Union
<1> QED
  BY <1>1, <1>2, <1>3

\* A loser is replaced, or the others race on: `hit' are the entries once a
\* strike was recorded.
LEMMA RacesOn ==
  ASSUME IInv, NEW c \in Chunks, NEW e \in DOMAIN chunk[c].att,
         NEW hit \in [Entries -> EntryType],
         \A d \in Entries : hit[d].inflight = entry[d].inflight,
         \A d \in Entries : hit[d].warming = entry[d].warming,
         NEW seen \in SUBSET Reports, NEW N, N = NextOf(chunk[c]),
         NEW rest, rest = Restrict(chunk[c].att, DOMAIN chunk[c].att \ {e}),
         NEW y, chunk' = [chunk EXCEPT ![c] = y],
         y = [chunk[c] EXCEPT !.idx = @ + Cardinality(N), !.att = Started(hit, rest, N), !.seen = seen],
         NEW T, T = {e} \cap Guarded(c), entry' = Counted(hit, N, T),
         UNCHANGED <<pool, push, dials, acked, ends>>
  PROVE  IInv'
<1> DEFINE x == chunk[c]
           att == Started(hit, rest, N)
           k == Cardinality(N)
<1>0. /\ x \in ChunkType /\ chunk \in [Chunks -> ChunkType] /\ Orderly(x) /\ push \in PushType
      /\ x.att \in Attempts /\ x.order \in Seq(Entries) /\ x.idx \in Nat /\ dials \subseteq Entries
  BY Zenon DEF IInv, Typed, ChunkType
<1>1. x.st = "race"
  BY Zenon, <1>0 DEF Orderly
<1> HIDE DEF x
<1>2. /\ N \in SUBSET Entries /\ N \cap DOMAIN x.att = {} /\ N \cap Seeds(x.order) = {}
      /\ IsFiniteSet(N) /\ k \in {0, 1} /\ x.idx + k <= Len(x.order)
      /\ \A m \in N : x.order[x.idx + k] = m /\ k = 1
  BY <1>0, <1>1, NextIs DEF x
<1>3. /\ rest \in Attempts /\ DOMAIN rest = DOMAIN x.att \ {e}
      /\ \A d \in DOMAIN x.att \ {e} : rest[d] = x.att[d]
  <2>1. rest = Restrict(x.att, DOMAIN x.att \ {e})
    BY Zenon DEF x
  <2>2. rest \in Attempts
    BY Zenon, <1>0, <2>1, RestrictIs
  <2> QED
    BY Zenon, <2>1, <2>2 DEF Restrict
<1>4. att \in Attempts
  BY Zenon, <1>2, <1>3, StartedIs
<1>5. DOMAIN att = (DOMAIN x.att \ {e}) \cup N
  BY Zenon, <1>3 DEF Started
<1>6. /\ \A d \in DOMAIN rest \ N : att[d] = rest[d]
      /\ \A d \in N : att[d] = "parked" <=> hit[d].dead
  <2>1. \A d \in DOMAIN rest \ N : att[d] = rest[d]
    BY Zenon DEF Started
  <2>2. \A d \in N : att[d] = First(hit, d)
    BY Zenon DEF Started
  <2>3. \A d \in N : First(hit, d) = "parked" <=> hit[d].dead
    BY Zenon DEF First
  <2> HIDE DEF att
  <2> QED
    BY Zenon, <2>1, <2>2, <2>3
<1>7. y = [x EXCEPT !.idx = x.idx + k, !.att = att, !.seen = seen]
  BY Zenon DEF x
<1> HIDE DEF att, k
<1>8. /\ y \in ChunkType /\ y.st = "race" /\ y.order = x.order /\ y.idx = x.idx + k /\ y.att = att
  <2> DEFINE i == x.idx + k
  <2>1. i \in Nat
    BY <1>0, <1>2
  <2> HIDE DEF i
  <2>2. y = [x EXCEPT !.idx = i, !.att = att, !.seen = seen]
    BY Zenon, <1>7 DEF i
  <2>3. y \in ChunkType /\ y.st = x.st /\ y.order = x.order /\ y.idx = i /\ y.att = att
    BY Zenon, <1>0, <1>4, <2>1, <2>2 DEF ChunkType
  <2> QED
    BY Zenon, <1>1, <2>3 DEF i
<1>9. Orderly(y)
  <2>1. \A d \in DOMAIN y.att : \E i \in 1..y.idx : y.order[i] = d
    <3> SUFFICES ASSUME NEW d \in DOMAIN y.att PROVE \E i \in 1..y.idx : y.order[i] = d
      BY Zenon
    <3>1. CASE d \in DOMAIN x.att
      <4>1. PICK i \in 1..x.idx : x.order[i] = d
        BY Zenon, <1>0, <3>1 DEF Orderly
      <4>2. i \in 1..y.idx
        BY <1>0, <1>2, <1>8
      <4> QED
        BY Zenon, <1>8, <4>1, <4>2
    <3>2. CASE d \in N
      <4>1. x.idx + k \in 1..y.idx
        BY <1>0, <1>2, <1>8, <3>2
      <4> QED
        BY Zenon, <1>2, <1>8, <3>2, <4>1
    <3> QED
      BY Zenon, <1>5, <1>8, <3>1, <3>2
  <2>2. Cardinality(DOMAIN y.att) <= push.parallel
    <3> DEFINE A == DOMAIN x.att
               B == DOMAIN y.att
    <3>1. A \subseteq Entries /\ e \in A
      BY Zenon, <1>0, AttemptsAre DEF x
    <3>2. IsFiniteSet(A)
      BY Zenon, <3>1, DispatcherAssumption, FS_Subset
    <3>3. B = (A \ {e}) \cup N
      BY Zenon, <1>5, <1>8
    <3>4. Cardinality(A) <= push.parallel /\ push.parallel \in Nat
      BY Zenon, <1>0 DEF Orderly, PushType
    <3>5. Cardinality(A) \in Nat
      BY Zenon, <3>2, FS_CardinalityType
    <3>6. IsFiniteSet(B)
      <4>1. B \subseteq Entries
        BY Zenon, <1>2, <3>1, <3>3
      <4> QED
        BY Zenon, <4>1, DispatcherAssumption, FS_Subset
    <3> HIDE DEF A
    <3>7. Cardinality((A \ {e}) \cup N) <= Cardinality(A)
      BY Zenon, <1>2, <3>1, <3>2, SwapCount DEF k
    <3>8. Cardinality(B) \in Nat
      BY Zenon, <3>6, FS_CardinalityType
    <3> HIDE DEF B
    <3>9. Cardinality(B) <= Cardinality(A)
      BY Zenon, <3>3, <3>7
    <3>10. Cardinality(B) <= push.parallel
      BY <3>4, <3>5, <3>8, <3>9
    <3> QED
      BY Zenon, <3>10 DEF B
  <2>3. y.idx <= Len(y.order) /\ Width(y.order) <= y.idx
    <3>1. Width(x.order) \in Nat /\ Width(x.order) <= x.idx
      BY Zenon, <1>0, <1>1, LimitBounds DEF Orderly
    <3> QED
      BY <1>0, <1>2, <1>8, <3>1
  <2>4. \A i, j \in 1..Len(y.order) : y.order[i] = y.order[j] => i = j
    BY <1>0, <1>8 DEF Orderly
  <2> QED
    BY Zenon, <1>8, <2>1, <2>2, <2>3, <2>4 DEF Orderly
<1>10. \A d \in Entries : d \in GuardsOf(y) <=>
         (d \in GuardsOf(x) /\ d # e) \/ (d \in N /\ ~hit[d].dead)
  <2> SUFFICES ASSUME NEW d \in Entries
               PROVE  d \in GuardsOf(y) <=>
                        (d \in GuardsOf(x) /\ d # e) \/ (d \in N /\ ~hit[d].dead)
    BY Zenon
  <2>1. d \in GuardsOf(y) <=> d \in DOMAIN att /\ att[d] # "parked"
    BY Zenon, <1>8 DEF GuardsOf
  <2>2. d \in GuardsOf(x) <=> d \in DOMAIN x.att /\ x.att[d] # "parked"
    BY Zenon DEF GuardsOf
  <2>3. CASE d \in N
    BY Zenon, <1>2, <1>5, <1>6, <2>1, <2>2, <2>3
  <2>4. CASE d \notin N
    BY Zenon, <1>3, <1>5, <1>6, <2>1, <2>2, <2>4
  <2> QED
    BY Zenon, <2>3, <2>4
<1>11. Guarded(c) = GuardsOf(x)
  BY Zenon DEF Guarded, GuardsOf, x
<1>12. ASSUME NEW d \in Entries
       PROVE  entry'[d].inflight = Cardinality(Others(c, d)) + (IF d \in GuardsOf(y) THEN 1 ELSE 0)
  <2>1. entry'[d].inflight = hit[d].inflight + (IF d \in N /\ ~hit[d].dead THEN 1 ELSE 0)
                               - (IF d \in T THEN 1 ELSE 0)
    <3>1. Counted(hit, N, T)[d].inflight =
            hit[d].inflight + (IF d \in N /\ ~hit[d].dead THEN 1 ELSE 0) - (IF d \in T THEN 1 ELSE 0)
      BY CountedAt
    <3> QED
      BY Zenon, <3>1
  <2>2. /\ Cardinality(Others(c, d)) \in Nat
        /\ hit[d].inflight = Cardinality(Others(c, d)) + (IF d \in GuardsOf(x) THEN 1 ELSE 0)
    BY Zenon, <1>11, InflightSplit DEF IInv
  <2>3. d \in N => d \notin GuardsOf(x)
    BY Zenon, <1>2 DEF GuardsOf
  <2>4. d \in T <=> d = e /\ d \in GuardsOf(x)
    BY Zenon, <1>11
  <2>5. d \in GuardsOf(y) <=> (d \in GuardsOf(x) /\ d # e) \/ (d \in N /\ ~hit[d].dead)
    BY Zenon, <1>10
  <2> DEFINE on == d \in N /\ ~hit[d].dead
  <2>6. on => d \notin GuardsOf(x)
    BY Zenon, <2>3
  <2>7. /\ entry'[d].inflight = hit[d].inflight + (IF on THEN 1 ELSE 0) - (IF d \in T THEN 1 ELSE 0)
        /\ d \in GuardsOf(y) <=> (d \in GuardsOf(x) /\ d # e) \/ on
    BY Zenon, <2>1, <2>5
  <2> HIDE DEF on
  <2>8. CASE on
    BY <2>2, <2>4, <2>6, <2>7, <2>8
  <2>9. CASE ~on
    BY <2>2, <2>4, <2>7, <2>9
  <2> QED
    BY Zenon, <2>8, <2>9
<1>13. ASSUME NEW d \in Entries, d \in GuardsOf(y), d \in Seeds(y.order)
       PROVE  d \in GuardsOf(chunk[c]) /\ d \in Seeds(chunk[c].order)
  BY Zenon, <1>2, <1>8, <1>10, <1>13 DEF x
<1>14. entry' \in [Entries -> EntryType] /\ \A d \in dials' : entry'[d].warming
  <2>1. entry' \in [Entries -> EntryType] /\ \A d \in Entries : entry'[d].warming = hit[d].warming
    BY CountedIs
  <2> QED
    BY Zenon, <1>0, <2>1 DEF IInv, OneDialEach
<1>15. chunk[c].st \notin {"queued", "done"} /\ y.st \notin {"queued", "done"} /\ dials' \subseteq Entries
  BY Zenon, <1>0, <1>1, <1>8 DEF x
<1> QED
  BY ZenonT(60), <1>8, <1>9, <1>12, <1>13, <1>14, <1>15, StayStep

\* What is tried after a race are candidates of its order.
LEMMA AfterIs ==
  ASSUME push \in PushType, NEW x \in ChunkType, NEW seen
  PROVE  After(x, seen) \in Seq(Entries)
<1>0. x.order \in Seq(Entries) /\ x.idx \in Nat
  BY Zenon DEF ChunkType
<1>1. limit(x.order) \in Nat /\ limit(x.order) <= Len(x.order)
  BY Zenon, <1>0, LimitBounds
<1> DEFINE s == x.order
           m == limit(x.order)
           i == x.idx + 1
<1>2. s \in Seq(Entries) /\ m \in Nat /\ m <= Len(s) /\ i \in Nat /\ i >= 1
  BY <1>0, <1>1
<1> HIDE DEF s, m, i
<1>3. SubSeq(s, 1, m) \in Seq(Entries) /\ SubSeq(s, i, Len(s)) \in Seq(Entries)
  <2>1. \A j \in 1..Len(s) : s[j] \in Entries
    BY <1>2
  <2>2. SubSeq(s, 1, m) \in Seq(Entries)
    BY <1>2, <2>1
  <2>3. SubSeq(s, i, Len(s)) \in Seq(Entries)
    BY <1>2, <2>1
  <2> QED
    BY Zenon, <2>2, <2>3
<1>4. <<>> \in Seq(Entries)
  OBVIOUS
<1>5. After(x, seen) \in {<<>>, SubSeq(s, i, Len(s)), SubSeq(s, 1, m)}
  BY Zenon DEF After, s, m, i
<1> QED
  BY Zenon, <1>3, <1>4, <1>5

\* The race is over, and others are tried one by one.
LEMMA GoesOn ==
  ASSUME IInv, NEW c \in Chunks, chunk[c].st = "race", NEW ent, Without(c, ent),
         NEW todo \in Seq(Entries), todo # <<>>, NEW seen \in SUBSET Reports,
         NEW y, y = [Rest("refresh", chunk[c].tries) EXCEPT !.todo = todo, !.seen = seen],
         chunk' = [chunk EXCEPT ![c] = y],
         entry' = ent, UNCHANGED <<pool, push, dials, acked, ends>>
  PROVE  IInv'
<1> DEFINE r == Rest("refresh", chunk[c].tries)
<1>0. push \in PushType /\ chunk[c].tries \in 0..(MaxChunkRetries - 1) /\ dials \subseteq Entries
  BY Zenon DEF IInv, Typed, ChunkType
<1>1. r \in ChunkType /\ r.st = "refresh"
  BY Zenon, <1>0, RestIs
<1>2. r.order = <<>> /\ r.idx = 0 /\ DOMAIN r.att = {}
  BY Zenon DEF Rest, NoAttempts
<1>3. y = [r EXCEPT !.todo = todo, !.seen = seen]
  BY Zenon
<1> HIDE DEF r
<1>4. /\ y \in ChunkType /\ y.st = "refresh" /\ y.order = <<>> /\ y.idx = 0 /\ DOMAIN y.att = {}
      /\ y.todo # <<>>
  BY Zenon, <1>1, <1>2, <1>3 DEF ChunkType
<1>5. GuardsOf(y) = {}
  BY Zenon, <1>4 DEF GuardsOf
<1>6. Orderly(y)
  <2>1. Cardinality(DOMAIN y.att) = 0 /\ push.parallel \in Nat /\ Len(<<>>) = 0
    BY Zenon, <1>0, <1>4, FS_EmptySet DEF PushType
  <2> QED
    BY SMTT(60), <1>4, <2>1 DEF Orderly
<1>7. ASSUME NEW e \in Entries
      PROVE  entry'[e].inflight = Cardinality(Others(c, e)) + (IF e \in GuardsOf(y) THEN 1 ELSE 0)
  <2>1. Cardinality(Others(c, e)) \in Nat /\ entry'[e].inflight = Cardinality(Others(c, e))
    BY Zenon, InflightSplit DEF IInv, Without
  <2> QED
    BY <1>5, <2>1
<1>8. entry' \in [Entries -> EntryType] /\ dials' \subseteq Entries /\ \A e \in dials' : entry'[e].warming
  BY Zenon, <1>0 DEF IInv, OneDialEach, Without
<1>9. \A e \in Entries : e \notin GuardsOf(y)
  BY Zenon, <1>5
<1> QED
  BY Zenon, <1>4, <1>6, <1>7, <1>8, <1>9, StayStep

\* An attempt ends without a receipt.
LEMMA LosesStep ==
  ASSUME IInv, NEW c \in Chunks, NEW e \in Entries,
         NEW how \in {"strike", "overdraft", "shallow", "error", "fatal"}, Loses(c, e, how)
  PROVE  IInv'
<1> DEFINE x == chunk[c]
           N == NextOf(x)
           rest == Restrict(x.att, DOMAIN x.att \ {e})
           hit == IF how = "strike" THEN Struck(entry, e) ELSE entry
           T == {e} \cap Guarded(c)
           ent == Counted(hit, N, T)
           seen == Report(x.seen, how)
<1>0. /\ x \in ChunkType /\ Orderly(x) /\ push \in PushType /\ entry \in [Entries -> EntryType]
      /\ x.seen \in SUBSET Reports
  BY Zenon DEF IInv, Typed, ChunkType
<1>1. e \in DOMAIN x.att /\ UNCHANGED <<pool, ends>>
  BY Zenon DEF Loses
<1>2. x.st = "race"
  BY Zenon, <1>0, <1>1 DEF Orderly
<1>3. /\ hit \in [Entries -> EntryType]
      /\ \A d \in Entries : hit[d].inflight = entry[d].inflight
      /\ \A d \in Entries : hit[d].warming = entry[d].warming
  <2>1. CASE how = "strike"
    BY Zenon, <1>0, <2>1, StruckIs
  <2>2. CASE how # "strike"
    BY Zenon, <1>0, <2>2
  <2> QED
    BY Zenon, <2>1, <2>2
<1>4. seen \in SUBSET Reports
  BY Zenon, <1>0, ReportIs
<1>5. \/ /\ chunk' = [chunk EXCEPT ![c] =
              [x EXCEPT !.idx = @ + Cardinality(N), !.att = Started(hit, rest, N), !.seen = seen]]
         /\ entry' = ent /\ UNCHANGED <<push, dials, acked>>
      \/ /\ DOMAIN rest \cup N = {} /\ After(x, seen) # <<>>
         /\ chunk' = [chunk EXCEPT ![c] =
              [Rest("refresh", x.tries) EXCEPT !.todo = After(x, seen), !.seen = seen \cap {"shallow"}]]
         /\ entry' = ent /\ UNCHANGED <<push, dials, acked>>
      \/ DOMAIN rest \cup N = {} /\ Failed(c, ent, seen)
  BY Zenon DEF Loses, NextOf
<1>6. DOMAIN rest \cup N = {} => Without(c, ent)
  <2> SUFFICES ASSUME DOMAIN rest \cup N = {} PROVE Without(c, ent)
    BY Zenon
  <2>1. N = {} /\ DOMAIN x.att \subseteq {e}
    BY Zenon DEF Restrict
  <2>2. T = Guarded(c)
    BY Zenon, <2>1 DEF Guarded
  <2>3. ent = Counted(hit, {}, T)
    BY Zenon, <2>1
  <2> HIDE DEF hit, T, ent, N, x, rest
  <2> QED
    BY Zenon, <1>3, <2>2, <2>3, LetGo
<1>7. CASE /\ chunk' = [chunk EXCEPT ![c] =
                [x EXCEPT !.idx = @ + Cardinality(N), !.att = Started(hit, rest, N), !.seen = seen]]
           /\ entry' = ent /\ UNCHANGED <<push, dials, acked>>
  <2> DEFINE y == [x EXCEPT !.idx = @ + Cardinality(N), !.att = Started(hit, rest, N), !.seen = seen]
  <2>1. N = NextOf(chunk[c]) /\ rest = Restrict(chunk[c].att, DOMAIN chunk[c].att \ {e})
    BY Zenon
  <2>2. chunk' = [chunk EXCEPT ![c] = y] /\ entry' = Counted(hit, N, T) /\ e \in DOMAIN chunk[c].att
    BY Zenon, <1>1, <1>7
  <2>3. T = {e} \cap Guarded(c)
    BY Zenon
  <2> HIDE DEF hit, T, ent, N, rest, seen
  <2>4. y = [chunk[c] EXCEPT !.idx = @ + Cardinality(N), !.att = Started(hit, rest, N), !.seen = seen]
    BY Zenon
  <2>5. UNCHANGED <<pool, push, dials, acked, ends>>
    BY Zenon, <1>1, <1>7
  <2> HIDE DEF y
  <2> QED
    BY Zenon, <1>3, <1>4, <2>1, <2>2, <2>3, <2>4, <2>5, RacesOn
<1>8. CASE /\ DOMAIN rest \cup N = {} /\ After(x, seen) # <<>>
           /\ chunk' = [chunk EXCEPT ![c] =
                [Rest("refresh", x.tries) EXCEPT !.todo = After(x, seen), !.seen = seen \cap {"shallow"}]]
           /\ entry' = ent /\ UNCHANGED <<push, dials, acked>>
  <2> DEFINE todo == After(x, seen)
             some == seen \cap {"shallow"}
  <2>1. todo \in Seq(Entries) /\ todo # <<>> /\ some \in SUBSET Reports
    BY Zenon, <1>0, <1>4, <1>8, AfterIs
  <2> DEFINE y == [Rest("refresh", x.tries) EXCEPT !.todo = todo, !.seen = some]
  <2>2. chunk' = [chunk EXCEPT ![c] = y] /\ entry' = ent
    BY Zenon, <1>8
  <2>3. Without(c, ent) /\ chunk[c].st = "race"
    BY Zenon, <1>2, <1>6, <1>8
  <2>4. UNCHANGED <<pool, push, dials, acked, ends>>
    BY Zenon, <1>1, <1>8
  <2> HIDE DEF hit, T, ent, N, rest, seen, todo, some
  <2>5. y = [Rest("refresh", chunk[c].tries) EXCEPT !.todo = todo, !.seen = some]
    BY Zenon
  <2> HIDE DEF y
  <2> QED
    BY Zenon, <2>1, <2>2, <2>3, <2>4, <2>5, GoesOn
<1>9. CASE DOMAIN rest \cup N = {} /\ Failed(c, ent, seen)
  <2>1. Without(c, ent) /\ chunk[c].st = "race"
    BY Zenon, <1>2, <1>6, <1>9
  <2> HIDE DEF hit, T, ent, N, rest, seen
  <2> QED
    BY Zenon, <1>1, <1>9, <2>1, FailedStep
<1> QED
  BY Zenon, <1>5, <1>7, <1>8, <1>9

-----------------------------------------------------------------------------
\* The entries and the pool change under the dispatches.
LEMMA AroundStep ==
  ASSUME IInv, entry' \in [Entries -> EntryType], pool' \subseteq Entries,
         \A e \in Entries : entry'[e].inflight = entry[e].inflight
                             \/ (entry'[e].inflight = 0 /\ \A d \in Chunks : e \notin GuardsOf(chunk[d])),
         dials' \subseteq Entries, \A e \in dials' : entry'[e].warming,
         UNCHANGED <<chunk, push, acked, ends>>
  PROVE  IInv'
<1>1. InflightIsRacing' /\ SeedsWithinCap'
  BY Zenon, CountsKept
<1>2. \A d \in Chunks : Orderly(chunk[d])'
  <2>1. \A d \in Chunks : Orderly(chunk'[d])
    BY Zenon DEF IInv
  <2> QED
    BY Zenon, <2>1 DEF Orderly, Width, limit
<1>3. Accounted'
  BY Zenon DEF IInv, Accounted, Queued
<1>4. Typed'
  BY Zenon DEF IInv, Typed
<1> QED
  BY Zenon, <1>1, <1>2, <1>3, <1>4 DEF IInv, OneDialEach

\* The call begins.
LEMMA BeginStep ==
  ASSUME IInv, Begin
  PROVE  IInv'
<1> DEFINE s == IF pool = {} THEN "err" ELSE "on"
<1>0. push \in PushType /\ push.st = "none" /\ chunk \in [Chunks -> ChunkType]
  BY Zenon DEF IInv, Typed, Begin
<1>1. push' = [push EXCEPT !.st = s] /\ UNCHANGED <<pool, entry, dials, acked, ends>>
  BY Zenon DEF Begin
<1>2. PICK S \in SUBSET Chunks :
        chunk' = [c \in Chunks |-> Rest(IF c \in S /\ pool # {} THEN "start" ELSE "queued", 0)]
  BY Zenon DEF Begin
<1>3. s \in {"err", "on"} /\ (s = "err" => pool = {})
  BY Zenon
<1> HIDE DEF s
<1>4. /\ push' \in PushType /\ push'.st = s /\ push'.more = push.more /\ push'.parallel = push.parallel
      /\ push'.max_retries = push.max_retries
  BY Zenon, <1>0, <1>1, <1>3 DEF PushType
<1>5. 0 \in 0..(MaxChunkRetries - 1)
  BY DispatcherAssumption
<1>6. ASSUME NEW c \in Chunks
      PROVE  /\ chunk'[c] \in ChunkType /\ chunk'[c].st \in {"queued", "start"}
             /\ (pool = {} => chunk'[c].st = "queued")
             /\ GuardsOf(chunk'[c]) = {} /\ Orderly(chunk'[c])
  <2> DEFINE st == IF c \in S /\ pool # {} THEN "start" ELSE "queued"
  <2>1. chunk'[c] = Rest(st, 0) /\ st \in {"queued", "start"} /\ (pool = {} => st = "queued")
    BY Zenon, <1>2
  <2> HIDE DEF st
  <2> QED
    BY <1>0, <1>5, <2>1, RestIs
<1>7. chunk' \in [Chunks -> ChunkType]
  BY Zenon, <1>2, <1>6
<1>8. /\ push.more = TRUE /\ \A c \in Chunks : acked[c] = <<>>
      /\ \A c \in Chunks : chunk[c].st \in {"queued", "done"}
  BY Zenon, <1>0 DEF IInv, Accounted
<1>9. InflightIsRacing' /\ SeedsWithinCap'
  <2>1. \A c \in Chunks : GuardsOf(chunk[c]) = {}
    BY Zenon, <1>8 DEF IInv, Orderly, GuardsOf
  <2>2. \A c \in Chunks : GuardsOf(chunk'[c]) = {}
    BY Zenon, <1>6
  <2> QED
    BY Zenon, <1>1, <1>4, <2>1, <2>2, CountsKept
<1>10. \A c \in Chunks : Orderly(chunk[c])'
  <2>1. \A c \in Chunks : Orderly(chunk'[c])
    BY Zenon, <1>6
  <2> QED
    BY Zenon, <1>4, <2>1 DEF Orderly, Width, limit
<1>11. Accounted'
  <2>1. \A c \in Chunks : acked'[c] = <<>> /\ chunk'[c].st # "done"
    BY Zenon, <1>1, <1>6, <1>8
  <2>2. \A c \in Chunks : Len(acked'[c]) = 0
    BY <2>1
  <2>3. push'.st # "on" => \A c \in Chunks : chunk'[c].st \in {"queued", "done"}
    BY Zenon, <1>3, <1>4, <1>6
  <2>4. push'.st \in {"err", "on"} /\ push'.more = TRUE
    BY Zenon, <1>3, <1>4, <1>8
  <2>5. \A c \in Chunks : \A i \in 1..Len(acked'[c]) : FALSE
    BY <2>2
  <2>6. \A c \in Chunks : Len(acked'[c]) <= 1
    BY <2>2
  <2> QED
    BY Zenon, <2>1, <2>3, <2>4, <2>5, <2>6 DEF Accounted
<1>12. Typed'
  BY Zenon, <1>1, <1>4, <1>7 DEF IInv, Typed
<1> QED
  BY Zenon, <1>1, <1>9, <1>10, <1>11, <1>12 DEF IInv, OneDialEach

\* The call returns.
LEMMA ReturnStep ==
  ASSUME IInv, Return
  PROVE  IInv'
<1>0. push \in PushType /\ push.st = "on" /\ push.more = FALSE /\ Busy = {}
  BY Zenon DEF IInv, Typed, Return, PushType
<1>1. push' = [push EXCEPT !.st = "ok"] /\ dials' = {} /\ UNCHANGED <<pool, entry, chunk, acked, ends>>
  BY Zenon DEF Return
<1>2. /\ push' \in PushType /\ push'.st = "ok" /\ push'.parallel = push.parallel
      /\ push'.max_retries = push.max_retries
  BY Zenon, <1>0, <1>1 DEF PushType
<1>3. \A c \in Chunks : chunk[c].st = "done"
  <2>1. Queued = {}
    BY Zenon, <1>0 DEF IInv, Accounted
  <2> QED
    BY Zenon, <1>0, <2>1 DEF Queued, Busy
<1>4. InflightIsRacing' /\ SeedsWithinCap'
  BY Zenon, <1>1, <1>2, CountsKept
<1>5. \A c \in Chunks : Orderly(chunk[c])'
  <2>1. \A c \in Chunks : Orderly(chunk'[c])
    BY Zenon, <1>1 DEF IInv
  <2> QED
    BY Zenon, <1>2, <2>1 DEF Orderly, Width, limit
<1>6. Accounted'
  BY Zenon, <1>0, <1>1, <1>2, <1>3 DEF IInv, Accounted
<1>7. Typed'
  BY Zenon, <1>1, <1>2 DEF IInv, Typed
<1> QED
  BY Zenon, <1>1, <1>4, <1>5, <1>6, <1>7 DEF IInv, OneDialEach

\* The heartbeat.
LEMMA HeartbeatStep ==
  ASSUME IInv, Heartbeat
  PROVE  IInv'
<1>1. Sweep(entry) /\ UNCHANGED <<pool, chunk, push, acked, ends>>
  BY Zenon DEF Heartbeat
<1>2. entry \in [Entries -> EntryType] /\ pool \subseteq Entries
  BY Zenon DEF IInv, Typed
<1>3. /\ entry' \in [Entries -> EntryType]
      /\ \A e \in Entries : entry'[e].inflight = entry[e].inflight
      /\ dials' \subseteq Entries /\ \A e \in dials' : entry'[e].warming
  BY Zenon, <1>1, <1>2, SweepStep
<1> QED
  BY Zenon, <1>1, <1>2, <1>3, AroundStep

\* A pre-warm dial ends.
LEMMA WarmedStep ==
  ASSUME IInv, NEW e \in Entries, NEW how, Warmed(e, how)
  PROVE  IInv'
<1> DEFINE off == [entry EXCEPT ![e].warming = FALSE]
           won == [off EXCEPT ![e].strikes = 0, ![e].pending = TRUE]
<1>0. entry \in [Entries -> EntryType] /\ pool \subseteq Entries /\ dials \subseteq Entries
  BY Zenon DEF IInv, Typed
<1>1. dials' = dials \ {e} /\ UNCHANGED <<pool, chunk, push, acked, ends>>
  BY Zenon DEF Warmed
<1>2. entry' \in {won, Struck(off, e), off}
  BY Zenon DEF Warmed
<1>3. /\ off \in [Entries -> EntryType]
      /\ \A d \in Entries : off[d].inflight = entry[d].inflight
      /\ \A d \in Entries \ {e} : off[d].warming = entry[d].warming
  <2> DEFINE r == [entry[e] EXCEPT !.warming = FALSE]
  <2>1. off = [entry EXCEPT ![e] = r]
    BY Zenon, <1>0
  <2>2. r \in EntryType /\ r.inflight = entry[e].inflight
    BY Zenon, <1>0 DEF EntryType
  <2> HIDE DEF r
  <2>3. off[e] = r /\ \A d \in Entries \ {e} : off[d] = entry[d]
    BY Zenon, <1>0, <2>1
  <2>4. off \in [Entries -> EntryType]
    BY Zenon, <1>0, <2>1, <2>2
  <2> HIDE DEF off
  <2> QED
    BY Zenon, <2>2, <2>3, <2>4
<1>4. won = [off EXCEPT ![e] = [off[e] EXCEPT !.strikes = 0, !.pending = TRUE]]
  BY Zenon, <1>3
<1> HIDE DEF off, won
<1>5. Kept([off[e] EXCEPT !.strikes = 0, !.pending = TRUE], off[e])
  <2> DEFINE r == off[e]
  <2>1. r \in EntryType /\ 0 \in 0..DeadStrikes
    BY <1>3, DispatcherAssumption
  <2> HIDE DEF r
  <2>2. Kept([r EXCEPT !.strikes = 0, !.pending = TRUE], r)
    BY Zenon, <2>1 DEF Kept, EntryType
  <2> QED
    BY Zenon, <2>2 DEF r
<1>6. /\ entry' \in [Entries -> EntryType]
      /\ \A d \in Entries : entry'[d].inflight = off[d].inflight
      /\ \A d \in Entries : entry'[d].warming = off[d].warming
  <2>1. CASE entry' = off
    BY Zenon, <1>3, <2>1
  <2>2. CASE entry' = Struck(off, e)
    BY Zenon, <1>3, <2>2, StruckIs
  <2>3. CASE entry' = won
    <3> DEFINE r == [off[e] EXCEPT !.strikes = 0, !.pending = TRUE]
    <3>1. entry' = [off EXCEPT ![e] = r] /\ Kept(r, off[e])
      BY Zenon, <1>4, <1>5, <2>3
    <3>2. off \in [Entries -> EntryType]
      BY Zenon, <1>3
    <3> HIDE DEF r
    <3>3. /\ r \in EntryType /\ r.inflight = off[e].inflight /\ r.warming = off[e].warming
          /\ entry'[e] = r /\ \A d \in Entries \ {e} : entry'[d] = off[d]
      BY Zenon, <3>1, <3>2 DEF Kept
    <3>4. entry' \in [Entries -> EntryType]
      BY Zenon, <3>1, <3>2, <3>3
    <3> QED
      BY Zenon, <3>3, <3>4
  <2> QED
    BY Zenon, <1>2, <2>1, <2>2, <2>3
<1>7. \A d \in dials' : entry'[d].warming
  BY Zenon, <1>0, <1>1, <1>3, <1>6 DEF IInv, OneDialEach
<1>8. dials' \subseteq Entries /\ pool' \subseteq Entries /\ \A d \in Entries : entry'[d].inflight = entry[d].inflight
  BY Zenon, <1>0, <1>1, <1>3, <1>6
<1> QED
  BY Zenon, <1>1, <1>6, <1>7, <1>8, AroundStep

\* The dead window of an entry runs out.
LEMMA RevivesStep ==
  ASSUME IInv, NEW e \in Entries, Revives(e)
  PROVE  IInv'
<1> DEFINE r == [entry[e] EXCEPT !.dead = FALSE]
<1>0. entry \in [Entries -> EntryType] /\ entry[e] \in EntryType /\ pool \subseteq Entries /\ dials \subseteq Entries
  BY Zenon DEF IInv, Typed
<1>1. entry' = [entry EXCEPT ![e] = r] /\ UNCHANGED <<pool, chunk, push, dials, acked, ends>>
  BY Zenon, <1>0 DEF Revives
<1>2. 0 \in 0..DeadStrikes /\ FALSE \in BOOLEAN
  BY DispatcherAssumption
<1>3. Kept(r, entry[e])
  BY Zenon, <1>0, <1>2, EntryMoves
<1> HIDE DEF r
<1>4. /\ entry' \in [Entries -> EntryType]
      /\ \A d \in Entries : entry'[d].inflight = entry[d].inflight
      /\ \A d \in Entries : entry'[d].warming = entry[d].warming
  BY <1>0, <1>1, <1>3, OneEntry
<1>5. \A d \in dials' : entry'[d].warming
  BY Zenon, <1>0, <1>1, <1>4 DEF IInv, OneDialEach
<1> QED
  BY Zenon, <1>0, <1>1, <1>4, <1>5, AroundStep

\* The pool is pruned.
LEMMA PruneStep ==
  ASSUME IInv, prune_dead
  PROVE  IInv'
<1>1. /\ entry \in [Entries -> EntryType] /\ pool \subseteq Entries /\ dials \subseteq Entries
      /\ \A e \in dials : entry[e].warming
  BY Zenon DEF IInv, Typed, OneDialEach
<1>2. pool' \subseteq pool /\ UNCHANGED <<entry, chunk, push, dials, acked, ends>>
  BY Zenon DEF prune_dead
<1>3. pool' \subseteq Entries
  BY Zenon, <1>1, <1>2
<1> QED
  BY Zenon, <1>1, <1>2, <1>3, AroundStep

\* A new entry for a peer nothing holds on to.
LEMMA TopUpStep ==
  ASSUME IInv, NEW e \in Entries, top_up(e)
  PROVE  IInv'
<1>0. /\ entry \in [Entries -> EntryType] /\ pool \subseteq Entries /\ dials \subseteq Entries
      /\ chunk \in [Chunks -> ChunkType]
  BY Zenon DEF IInv, Typed
<1>1. /\ ~Held(e) /\ pool' = pool \cup {e} /\ entry' = [entry EXCEPT ![e] = NewEntry]
      /\ UNCHANGED <<chunk, push, dials, acked, ends>>
  BY Zenon DEF top_up
<1>2. NewEntry \in EntryType /\ NewEntry.inflight = 0
  BY DispatcherAssumption DEF NewEntry, EntryType
<1>3. /\ entry' \in [Entries -> EntryType] /\ entry'[e].inflight = 0
      /\ \A d \in Entries \ {e} : entry'[d] = entry[d]
  BY Zenon, <1>0, <1>1, <1>2
<1>4. ASSUME NEW c \in Chunks PROVE e \notin GuardsOf(chunk[c])
  <2> SUFFICES ASSUME e \in DOMAIN chunk[c].att PROVE FALSE
    BY Zenon DEF GuardsOf
  <2>1. chunk[c].order \in Seq(Entries) /\ chunk[c].idx \in Nat /\ chunk[c].idx <= Len(chunk[c].order)
    BY Zenon, <1>0 DEF IInv, Orderly, ChunkType
  <2>2. PICK i \in 1..chunk[c].idx : chunk[c].order[i] = e
    BY Zenon DEF IInv, Orderly
  <2>3. i \in DOMAIN chunk[c].order
    BY <2>1
  <2>4. e \in Range(chunk[c].order)
    BY Zenon, <2>2, <2>3 DEF Range
  <2> QED
    BY Zenon, <1>1, <2>4 DEF Held
<1>5. e \notin dials
  BY Zenon, <1>1 DEF Held
<1>6. \A d \in dials' : entry'[d].warming
  BY Zenon, <1>0, <1>1, <1>3, <1>5 DEF IInv, OneDialEach
<1>7. \A d \in Entries : entry'[d].inflight = entry[d].inflight
                          \/ (entry'[d].inflight = 0 /\ \A c \in Chunks : d \notin GuardsOf(chunk[c]))
  BY Zenon, <1>3, <1>4
<1>8. pool' \subseteq Entries /\ dials' \subseteq Entries
  BY Zenon, <1>0, <1>1
<1> QED
  BY Zenon, <1>1, <1>3, <1>6, <1>7, <1>8, AroundStep

\* A session ends under the pushes to it: they are cut, and still guarded.
LEMMA EndsStep ==
  ASSUME IInv, NEW e \in Entries, SessionEnds(e)
  PROVE  IInv'
<1> DEFINE r == [entry[e] EXCEPT !.alive = FALSE]
<1>0. /\ entry \in [Entries -> EntryType] /\ entry[e] \in EntryType /\ dials \subseteq Entries
      /\ chunk \in [Chunks -> ChunkType]
  BY Zenon DEF IInv, Typed
<1>1. /\ entry' = [entry EXCEPT ![e] = r] /\ ends' = ends \ {e}
      /\ UNCHANGED <<pool, push, dials, acked>>
  BY Zenon, <1>0 DEF SessionEnds
<1>2. 0 \in 0..DeadStrikes /\ FALSE \in BOOLEAN
  BY DispatcherAssumption
<1>3. Kept(r, entry[e])
  BY Zenon, <1>0, <1>2, EntryMoves
<1> HIDE DEF r
<1>4. /\ entry' \in [Entries -> EntryType]
      /\ \A d \in Entries : entry'[d].inflight = entry[d].inflight
      /\ \A d \in Entries : entry'[d].warming = entry[d].warming
  BY <1>0, <1>1, <1>3, OneEntry
<1>5. ASSUME NEW c \in Chunks
      PROVE  /\ chunk'[c] \in ChunkType /\ chunk'[c].st = chunk[c].st
             /\ chunk'[c].order = chunk[c].order /\ chunk'[c].idx = chunk[c].idx
             /\ chunk'[c].todo = chunk[c].todo
             /\ DOMAIN chunk'[c].att = DOMAIN chunk[c].att
             /\ GuardsOf(chunk'[c]) = GuardsOf(chunk[c])
  <2> DEFINE a == chunk[c].att
             D == DOMAIN a
             f == [d \in D |-> IF d = e /\ a[d] = "push" THEN "cut" ELSE a[d]]
             x == chunk[c]
             y == chunk'[c]
  <2>1. y = [x EXCEPT !.att = f]
    BY Zenon DEF SessionEnds
  <2>2. x \in ChunkType /\ a \in Attempts
    BY Zenon, <1>0 DEF ChunkType
  <2>3. D \in SUBSET Entries /\ \A d \in D : a[d] \in Phases
    BY Zenon, <2>2, AttemptsAre
  <2>4. f \in [D -> Phases] /\ DOMAIN f = D
    BY Zenon, <2>3 DEF Phases
  <2>5. \A d \in D : f[d] = "parked" <=> a[d] = "parked"
    BY Zenon
  <2>6. f \in Attempts
    BY Zenon, <2>3, <2>4 DEF Attempts
  <2> HIDE DEF f
  <2>7. /\ y \in ChunkType /\ y.st = x.st /\ y.order = x.order /\ y.idx = x.idx /\ y.todo = x.todo
        /\ y.att = f
    BY Zenon, <2>1, <2>2, <2>6 DEF ChunkType
  <2>8. GuardsOf(y) = GuardsOf(x) /\ DOMAIN y.att = DOMAIN x.att
    <3>1. DOMAIN y.att = D /\ \A d \in D : y.att[d] = "parked" <=> x.att[d] = "parked"
      BY Zenon, <2>4, <2>5, <2>7
    <3> QED
      BY Zenon, <3>1 DEF GuardsOf
  <2> QED
    BY Zenon, <2>7, <2>8
<1>6. chunk' \in [Chunks -> ChunkType]
  BY Zenon, <1>5 DEF SessionEnds
<1>7. InflightIsRacing' /\ SeedsWithinCap'
  BY Zenon, <1>1, <1>4, <1>5, CountsKept
<1>8. \A c \in Chunks : Orderly(chunk[c])'
  <2>1. ASSUME NEW c \in Chunks PROVE Orderly(chunk'[c])
    <3>1. Orderly(chunk[c])
      BY Zenon DEF IInv
    <3> QED
      BY Zenon, <1>5, <3>1 DEF Orderly
  <2> QED
    BY Zenon, <1>1, <2>1 DEF Orderly, Width, limit
<1>9. Accounted'
  <2>1. Queued' = Queued
    BY Zenon, <1>5 DEF Queued
  <2> QED
    BY Zenon, <1>1, <1>5, <2>1 DEF IInv, Accounted
<1>10. Typed'
  BY Zenon, <1>1, <1>4, <1>6 DEF IInv, Typed
<1>11. \A d \in dials' : entry'[d].warming
  BY Zenon, <1>0, <1>1, <1>4 DEF IInv, OneDialEach
<1> QED
  BY Zenon, <1>7, <1>8, <1>9, <1>10, <1>11 DEF IInv, OneDialEach

-----------------------------------------------------------------------------
\* The invariant holds before the call begins.
LEMMA InitInv == Init => IInv
<1> SUFFICES ASSUME Init PROVE IInv
  BY Zenon
<1>1. /\ pool \subseteq Entries /\ dials = {} /\ entry = [e \in Entries |-> NewEntry]
      /\ chunk = [c \in Chunks |-> Rest("queued", 0)] /\ acked = [c \in Chunks |-> <<>>]
  BY Zenon DEF Init
<1>2. push \in PushType /\ push.st = "none" /\ push.more = TRUE /\ ends \subseteq Entries
  <2>1. PICK s \in Settings :
          /\ push = [st |-> "none", more |-> TRUE, max_retries |-> s.max_retries,
                     buffer |-> s.buffer, parallel |-> s.parallel]
          /\ ends = s.ends
    BY Zenon DEF Init
  <2>2. s.max_retries \in Nat /\ s.buffer \in Nat /\ s.parallel \in Nat /\ s.ends \subseteq Entries
    BY Zenon, DispatcherAssumption
  <2> QED
    BY Zenon, <2>1, <2>2 DEF PushType
<1>3. NewEntry \in EntryType /\ NewEntry.inflight = 0
  BY DispatcherAssumption DEF NewEntry, EntryType
<1>4. 0 \in 0..(MaxChunkRetries - 1)
  BY DispatcherAssumption
<1>5. \A c \in Chunks : /\ chunk[c] \in ChunkType /\ chunk[c].st = "queued"
                        /\ GuardsOf(chunk[c]) = {} /\ Orderly(chunk[c])
  BY Zenon, <1>1, <1>2, <1>4, RestIs
<1>6. Typed
  <2>1. entry \in [Entries -> EntryType] /\ chunk \in [Chunks -> ChunkType]
    BY Zenon, <1>1, <1>3, <1>5
  <2>2. acked \in [Chunks -> Seq(Callback)]
    BY <1>1
  <2> QED
    BY Zenon, <1>1, <1>2, <2>1, <2>2 DEF Typed
<1>7. \A e \in Entries :
        /\ {d \in Chunks : e \in Guarded(d)} = {}
        /\ {d \in Chunks : e \in Guarded(d) /\ e \in Seeds(chunk[d].order)} = {}
  BY Zenon, <1>5 DEF Guarded, GuardsOf
<1>8. InflightIsRacing /\ SeedsWithinCap
  <2>1. Cardinality({}) = 0 /\ 0 <= Cap
    BY FS_EmptySet, DispatcherAssumption
  <2>2. \A e \in Entries : entry[e].inflight = 0
    BY Zenon, <1>1, <1>3
  <2> QED
    BY Zenon, <1>7, <2>1, <2>2 DEF InflightIsRacing, SeedsWithinCap
<1>9. Accounted
  <2>1. \A c \in Chunks : acked[c] = <<>> /\ Len(acked[c]) = 0
    BY Zenon, <1>1
  <2>2. \A c \in Chunks : \A i \in 1..Len(acked[c]) : FALSE
    BY <2>1
  <2>3. \A c \in Chunks : Len(acked[c]) <= 1
    BY <2>1
  <2> QED
    BY Zenon, <1>2, <1>5, <2>1, <2>2, <2>3 DEF Accounted
<1> QED
  BY Zenon, <1>1, <1>5, <1>6, <1>8, <1>9 DEF IInv, OneDialEach

\* Every step keeps it.
LEMMA StepInv == IInv /\ [Next]_vars => IInv'
<1> SUFFICES ASSUME IInv, [Next]_vars PROVE IInv'
  BY Zenon
<1>1. ASSUME NEW c \in Chunks, Step(c) PROVE IInv'
  <2>1. ASSUME NEW cool \in SUBSET Entries, Dispatch(c, cool) PROVE IInv'
    BY Zenon, <2>1, DispatchStep
  <2>2. CASE GivesUpWaiting(c)
    BY Zenon, <2>2, WaitingStep
  <2>3. CASE Again(c)
    BY Zenon, <2>3, AgainStep
  <2>4. ASSUME NEW e \in Entries, Rotate(c, e) PROVE IInv'
    BY Zenon, <2>4, RotateStep
  <2>5. ASSUME NEW e \in Entries, Redialled(c, e) PROVE IInv'
    BY Zenon, <2>5, RedialledStep
  <2>6. ASSUME NEW e \in Entries, Receipt(c, e) PROVE IInv'
    BY Zenon, <2>6, ReceiptStep
  <2>7. ASSUME NEW e \in Entries, NEW how \in {"strike", "overdraft", "shallow", "error", "fatal"},
               Loses(c, e, how)
        PROVE  IInv'
    BY Zenon, <2>7, LosesStep
  <2>8. ASSUME NEW how \in {"receipt", "strike", "overdraft", "shallow", "error", "fatal"},
               Sequential(c, how)
        PROVE  IInv'
    BY Zenon, <2>8, SequentialStep
  <2> QED
    BY Zenon, <1>1, <2>1, <2>2, <2>3, <2>4, <2>5, <2>6, <2>7, <2>8 DEF Step
<1>2. CASE Return
  BY Zenon, <1>2, ReturnStep
<1>3. CASE Around
  <2>1. CASE Begin
    BY Zenon, <2>1, BeginStep
  <2>2. ASSUME NEW e \in Entries, SessionEnds(e) PROVE IInv'
    BY Zenon, <2>2, EndsStep
  <2>3. ASSUME NEW e \in Entries, Revives(e) PROVE IInv'
    BY Zenon, <2>3, RevivesStep
  <2>4. ASSUME NEW e \in Entries, top_up(e) PROVE IInv'
    BY Zenon, <2>4, TopUpStep
  <2>5. ASSUME NEW e \in Entries, NEW how \in {"ok", "strike", "too_soon"}, Warmed(e, how) PROVE IInv'
    BY Zenon, <2>5, WarmedStep
  <2>6. CASE Heartbeat
    BY Zenon, <2>6, HeartbeatStep
  <2>7. CASE prune_dead
    BY Zenon, <2>7, PruneStep
  <2> QED
    BY Zenon, <1>3, <2>1, <2>2, <2>3, <2>4, <2>5, <2>6, <2>7 DEF Around
<1>4. CASE UNCHANGED vars
  <2>1. /\ entry \in [Entries -> EntryType] /\ pool \subseteq Entries /\ dials \subseteq Entries
        /\ \A e \in dials : entry[e].warming
    BY Zenon DEF IInv, Typed, OneDialEach
  <2> QED
    BY Zenon, <1>4, <2>1, AroundStep DEF vars
<1> QED
  BY Zenon, <1>1, <1>2, <1>3, <1>4 DEF Next, Driver

\* The invariant always holds.
LEMMA InvHolds == Spec => []IInv
<1>1. Init => IInv
  BY Zenon, InitInv
<1>2. IInv /\ [Next]_vars => IInv'
  BY Zenon, StepInv
<1> QED
  BY <1>1, <1>2, PTL DEF Spec

\* For any chunks, peers and settings of a push: inflight_pushes of an entry is
\* the number of guarded attempts racing on it whatever cancels, loses, strikes
\* or aborts them, the cap holds for the peers a race starts with, and a
\* pre-warm dial has its flag up.
THEOREM CountsStayHonest == Spec => []CountsHonest
<1>1. IInv => CountsHonest
  BY Zenon, IInvImplies
<1> QED
  BY <1>1, InvHolds, PTL

\* The callback fires at most once for a chunk, a call that succeeds resolved
\* every chunk, and a shallow receipt is taken only after MAX_CHUNK_RETRIES tries.
THEOREM ResolvedOnce == Spec => []ChunksResolved
<1>1. IInv => ChunksResolved
  BY Zenon, IInvImplies
<1> QED
  BY <1>1, InvHolds, PTL
=============================================================================
