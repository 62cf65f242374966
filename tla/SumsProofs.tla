----------------------------- MODULE SumsProofs -----------------------------
(***************************************************************************)
(* What a sum over a finite set does when an element is added or removed,  *)
(* when a summand changes, and when the set grows.  The induction over a   *)
(* finite set is the least-number principle on the cardinality of a        *)
(* counterexample.                                                         *)
(***************************************************************************)
EXTENDS Sums, FiniteSetTheorems, WellFoundedInduction, TLAPS

\* Every non-empty set of natural numbers has a least element.
LEMMA LeastNat ==
  ASSUME NEW T, T \subseteq Nat, T # {}
  PROVE  \E n \in T : \A m \in T : n <= m
<1> DEFINE R == {ss \in Nat \X Nat : ss[1] < ss[2]}
<1>1. IsWellFoundedOn(R, Nat)
  BY Zenon, NatLessThanWellFounded DEF OpToRel
<1>2. PICK n \in T : \A m \in T : ~ (<<m, n>> \in R)
  <2> HIDE DEF R
  <2> QED
    BY <1>1, WFMin, Zenon
<1>3. ASSUME NEW m \in T
      PROVE  n <= m
  <2> DEFINE ss == <<m, n>>
  <2>1. m \in Nat /\ n \in Nat /\ ss \in Nat \X Nat /\ ss[1] = m /\ ss[2] = n
    BY Zenon
  <2>2. ~ (ss[1] < ss[2])
    BY Zenon, <1>2, <2>1
  <2> QED
    BY <2>1, <2>2
<1> QED
  BY Zenon, <1>3

-----------------------------------------------------------------------------
\* The element the sum takes first, and the equation of the function that
\* MapThenSumSet defines.

Pick(s) == CHOOSE x \in s : TRUE

IsSum(g, f, S) ==
  g = [s \in SUBSET S |-> IF s = {} THEN 0 ELSE f[Pick(s)] + g[s \ {Pick(s)}]]

Iter(f, S) == CHOOSE g : IsSum(g, f, S)

\* A non-empty set contains its Pick.
LEMMA PickIn ==
  ASSUME NEW s, s # {}
  PROVE  Pick(s) \in s
BY Zenon DEF Pick

\* The sum is the value of that function on the whole set.
LEMMA SumIsIter ==
  ASSUME NEW f, NEW S
  PROVE  SumOver(f, S) = Iter(f, S)[S]
BY Zenon DEF SumOver, MapThenSumSet, MapThenFoldSet, Iter, IsSum, Pick

\* Subsets of a finite set, with one element less.
LEMMA Smaller ==
  ASSUME NEW S, IsFiniteSet(S), NEW s \in SUBSET S
  PROVE  /\ IsFiniteSet(s) /\ Cardinality(s) \in Nat
         /\ s = {} <=> Cardinality(s) = 0
         /\ \A x \in s : /\ s \ {x} \in SUBSET S
                         /\ Cardinality(s \ {x}) = Cardinality(s) - 1
<1>1. IsFiniteSet(s)
  BY Zenon, FS_Subset
<1>2. Cardinality(s) \in Nat
  BY Zenon, <1>1, FS_CardinalityType
<1>3. s = {} <=> Cardinality(s) = 0
  BY Zenon, <1>1, FS_EmptySet
<1>4. ASSUME NEW x \in s
      PROVE  s \ {x} \in SUBSET S /\ Cardinality(s \ {x}) = Cardinality(s) - 1
  BY <1>1, FS_RemoveElement, Zenon
<1> QED
  BY Zenon, <1>1, <1>2, <1>3, <1>4

\* A function that satisfies the equation exists: built up by cardinality.
LEMMA IterDef ==
  ASSUME NEW f, NEW S, IsFiniteSet(S)
  PROVE  IsSum(Iter(f, S), f, S)
<1> DEFINE Body(h, s) == IF s = {} THEN 0 ELSE f[Pick(s)] + h[s \ {Pick(s)}]
           Upto(h, k) == \A s \in SUBSET S : Cardinality(s) <= k => h[s] = Body(h, s)
           T == {k \in Nat : ~ \E h : Upto(h, k)}
<1>1. T = {}
  <2> SUFFICES ASSUME T # {} PROVE FALSE
    BY Zenon
  <2>1. PICK n \in T : \A m \in T : n <= m
    BY LeastNat, Zenon
  <2>2. CASE n = 0
    <3> DEFINE h == [s \in SUBSET S |-> 0]
    <3>1. Upto(h, 0)
      BY Smaller
    <3> QED
      BY <2>1, <2>2, <3>1, Zenon
  <2>3. CASE n # 0
    <3>1. n - 1 \in Nat /\ n - 1 \notin T
      <4>1. n \in Nat
        BY Zenon
      <4>2. ~ (n <= n - 1)
        BY <4>1
      <4> QED
        <5> HIDE DEF T
        <5> QED
          BY <2>1, <2>3, <4>1, <4>2
    <3>2. PICK h : Upto(h, n - 1)
      BY <3>1, Zenon
    <3> DEFINE g == [s \in SUBSET S |-> IF Cardinality(s) <= n - 1 THEN h[s] ELSE Body(h, s)]
    <3>3. ASSUME NEW s \in SUBSET S, Cardinality(s) <= n
          PROVE  g[s] = Body(g, s)
      <4>1. CASE s = {}
        <5>1. Cardinality(s) <= n - 1
          BY <4>1, <3>1, Smaller
        <5> QED
          BY <4>1, <5>1, <3>2, Zenon
      <4>2. CASE s # {}
        <5>1. Pick(s) \in s
          BY Zenon, <4>2, PickIn
        <5>2. s \ {Pick(s)} \in SUBSET S /\ Cardinality(s \ {Pick(s)}) <= n - 1
          BY <5>1, <3>3, <3>1, Smaller
        <5>3. g[s \ {Pick(s)}] = h[s \ {Pick(s)}]
          BY Zenon, <5>2
        <5>4. g[s] = Body(h, s)
          BY <3>2, Zenon
        <5> QED
          BY Zenon, <4>2, <5>3, <5>4
      <4> QED
        BY Zenon, <4>1, <4>2
    <3>4. Upto(g, n)
      BY <3>3, Zenon
    <3> QED
      BY <2>1, <3>4, Zenon
  <2> QED
    BY Zenon, <2>2, <2>3
<1>2. Cardinality(S) \in Nat
  BY Zenon, FS_CardinalityType
<1>3. PICK h : Upto(h, Cardinality(S))
  BY <1>1, <1>2, Zenon
<1> DEFINE g == [s \in SUBSET S |-> h[s]]
<1>4. ASSUME NEW s \in SUBSET S
      PROVE  g[s] = Body(g, s)
  <2>1. h[s] = Body(h, s)
    BY <1>3, FS_Subset, Zenon
  <2>2. CASE s # {}
    <3>1. s \ {Pick(s)} \in SUBSET S
      BY Zenon
    <3> QED
      BY Zenon, <2>1, <2>2, <3>1
  <2> QED
    BY Zenon, <2>1, <2>2
<1>5. IsSum(g, f, S)
  BY <1>4, Zenon DEF IsSum
<1> QED
  BY Zenon, <1>5 DEF Iter

\* Induction over the subsets of a finite set: a family of them has a member
\* that leaves the family whatever element it loses.
LEMMA MinimalSubset ==
  ASSUME NEW S, IsFiniteSet(S), NEW F, F \subseteq SUBSET S, F # {}
  PROVE  \E R \in F : \A x \in R : R \ {x} \notin F
<1> DEFINE T == {Cardinality(R) : R \in F}
<1>1. T \subseteq Nat /\ T # {}
  BY Smaller
<1>2. PICK n \in T : \A m \in T : n <= m
  <2> HIDE DEF T
  <2> QED
    BY <1>1, LeastNat, Zenon
<1>3. PICK R \in F : Cardinality(R) = n
  BY Zenon
<1>4. ASSUME NEW x \in R, R \ {x} \in F
      PROVE  FALSE
  <2>1. Cardinality(R) \in Nat /\ Cardinality(R \ {x}) = Cardinality(R) - 1
    BY Smaller
  <2>2. Cardinality(R) <= Cardinality(R \ {x})
    BY Zenon, <1>2, <1>3, <1>4
  <2> QED
    BY <2>1, <2>2
<1> QED
  BY Zenon, <1>4

\* The functions for two sets agree where both are defined.
LEMMA IterAgree ==
  ASSUME NEW f, NEW S, IsFiniteSet(S), NEW R \in SUBSET S
  PROVE  \A s \in SUBSET R : Iter(f, S)[s] = Iter(f, R)[s]
<1> DEFINE g == Iter(f, S)
           h == Iter(f, R)
           F == {s \in SUBSET R : g[s] # h[s]}
<1>1. IsFiniteSet(R)
  BY Zenon, FS_Subset
<1>2. IsSum(g, f, S) /\ IsSum(h, f, R)
  BY Zenon, <1>1, IterDef
<1> HIDE DEF g, h
<1>3. F = {}
  <2> SUFFICES ASSUME F # {} PROVE FALSE
    BY Zenon
  <2>1. PICK s \in F : \A x \in s : s \ {x} \notin F
    <3> HIDE DEF F
    <3>1. F \subseteq SUBSET R
      BY Zenon DEF F
    <3> QED
      BY <3>1, <1>1, MinimalSubset, Zenon
  <2>2. g[s] = IF s = {} THEN 0 ELSE f[Pick(s)] + g[s \ {Pick(s)}]
    BY <1>2, Zenon DEF IsSum
  <2>3. h[s] = IF s = {} THEN 0 ELSE f[Pick(s)] + h[s \ {Pick(s)}]
    BY <1>2, Zenon DEF IsSum
  <2>4. s # {}
    BY Zenon, <2>2, <2>3
  <2>5. Pick(s) \in s
    BY Zenon, <2>4, PickIn
  <2>6. g[s \ {Pick(s)}] = h[s \ {Pick(s)}]
    BY Zenon, <2>1, <2>5
  <2> QED
    BY Zenon, <2>2, <2>3, <2>6
<1> QED
  BY Zenon, <1>3 DEF g, h

\* The sum over no element.
LEMMA SumEmpty ==
  ASSUME NEW f
  PROVE  SumOver(f, {}) = 0
<1>1. IsSum(Iter(f, {}), f, {})
  BY Zenon, FS_EmptySet, IterDef
<1>2. Iter(f, {})[{}] = 0
  BY Zenon, <1>1 DEF IsSum
<1> QED
  BY Zenon, <1>2, SumIsIter

\* The sum over a non-empty set, by its Pick.
LEMMA SumPick ==
  ASSUME NEW f, NEW S, IsFiniteSet(S), S # {}
  PROVE  SumOver(f, S) = f[Pick(S)] + SumOver(f, S \ {Pick(S)})
<1> DEFINE R == S \ {Pick(S)}
<1>1. IsSum(Iter(f, S), f, S)
  BY Zenon, IterDef
<1>2. Iter(f, S)[S] = f[Pick(S)] + Iter(f, S)[R]
  BY <1>1, Zenon DEF IsSum
<1>3. Iter(f, S)[R] = Iter(f, R)[R]
  BY IterAgree
<1> QED
  BY Zenon, <1>2, <1>3, SumIsIter

\* A sum of natural numbers is one.
LEMMA SumNat ==
  ASSUME NEW f, NEW S, IsFiniteSet(S), \A x \in S : f[x] \in Nat
  PROVE  SumOver(f, S) \in Nat
<1> DEFINE F == {R \in SUBSET S : SumOver(f, R) \notin Nat}
<1>1. F = {}
  <2> SUFFICES ASSUME F # {} PROVE FALSE
    BY Zenon
  <2>1. PICK R \in F : \A x \in R : R \ {x} \notin F
    <3> HIDE DEF F
    <3>1. F \subseteq SUBSET S
      BY Zenon DEF F
    <3> QED
      BY <3>1, MinimalSubset, Zenon
  <2>2. R # {}
    BY SumEmpty
  <2>3. Pick(R) \in R
    BY Zenon, <2>2, PickIn
  <2>4. IsFiniteSet(R)
    BY Zenon, FS_Subset
  <2>5. SumOver(f, R) = f[Pick(R)] + SumOver(f, R \ {Pick(R)})
    BY Zenon, <2>2, <2>4, SumPick
  <2>6. SumOver(f, R \ {Pick(R)}) \in Nat /\ f[Pick(R)] \in Nat
    BY Zenon, <2>1, <2>3
  <2> QED
    BY <2>5, <2>6
<1> QED
  BY Zenon, <1>1

\* Any element may be taken out first.
THEOREM SumRemove ==
  ASSUME NEW f, NEW S, IsFiniteSet(S), \A x \in S : f[x] \in Nat, NEW e \in S
  PROVE  SumOver(f, S) = f[e] + SumOver(f, S \ {e})
<1> DEFINE F == {R \in SUBSET S : \E x \in R : SumOver(f, R) # f[x] + SumOver(f, R \ {x})}
<1>1. F = {}
  <2> SUFFICES ASSUME F # {} PROVE FALSE
    BY Zenon
  <2>1. PICK R \in F : \A x \in R : R \ {x} \notin F
    <3> HIDE DEF F
    <3>1. F \subseteq SUBSET S
      BY Zenon DEF F
    <3> QED
      BY <3>1, MinimalSubset, Zenon
  <2>2. PICK x \in R : SumOver(f, R) # f[x] + SumOver(f, R \ {x})
    BY Zenon
  <2> DEFINE y == Pick(R)
  <2>3. y \in R
    BY Zenon, PickIn
  <2>4. IsFiniteSet(R)
    BY Zenon, FS_Subset
  <2>5. SumOver(f, R) = f[y] + SumOver(f, R \ {y})
    BY Zenon, <2>3, <2>4, SumPick
  <2> HIDE DEF y
  <2>6. x # y
    BY <2>2, <2>5, Zenon
  <2>7. SumOver(f, R \ {y}) = f[x] + SumOver(f, (R \ {y}) \ {x})
    <3>1. R \ {y} \in SUBSET S /\ R \ {y} \notin F /\ x \in R \ {y}
      BY <2>1, <2>3, <2>6, Zenon
    <3> QED
      BY <3>1, Zenon
  <2>8. SumOver(f, R \ {x}) = f[y] + SumOver(f, (R \ {x}) \ {y})
    <3>1. R \ {x} \in SUBSET S /\ R \ {x} \notin F /\ y \in R \ {x}
      BY <2>1, <2>3, <2>6, SMTT(60)
    <3> QED
      BY <3>1, Zenon
  <2>9. (R \ {x}) \ {y} = (R \ {y}) \ {x}
    BY Zenon
  <2>10. SumOver(f, (R \ {y}) \ {x}) \in Nat
    <3>1. IsFiniteSet((R \ {y}) \ {x})
      BY Zenon, <2>4, FS_Subset
    <3>2. \A z \in (R \ {y}) \ {x} : f[z] \in Nat
      BY Zenon
    <3> QED
      BY Zenon, <3>1, <3>2, SumNat
  <2>11. f[x] \in Nat /\ f[y] \in Nat
    BY Zenon, <2>3
  <2> HIDE DEF F
  <2> QED
    BY <2>2, <2>5, <2>7, <2>8, <2>9, <2>10, <2>11
<1> QED
  BY <1>1, Zenon

\* An element added.
LEMMA SumAdd ==
  ASSUME NEW f, NEW S, IsFiniteSet(S), NEW e, e \notin S, \A x \in S \cup {e} : f[x] \in Nat
  PROVE  SumOver(f, S \cup {e}) = f[e] + SumOver(f, S)
<1>1. IsFiniteSet(S \cup {e})
  BY Zenon, FS_AddElement
<1>2. (S \cup {e}) \ {e} = S
  BY Zenon
<1> QED
  BY <1>1, <1>2, SumRemove

\* Functions that agree on the set have the same sum.
LEMMA SumEqual ==
  ASSUME NEW f, NEW g, NEW S, IsFiniteSet(S), \A x \in S : f[x] = g[x]
  PROVE  SumOver(f, S) = SumOver(g, S)
<1> DEFINE F == {R \in SUBSET S : SumOver(f, R) # SumOver(g, R)}
<1>1. F = {}
  <2> SUFFICES ASSUME F # {} PROVE FALSE
    BY Zenon
  <2>1. PICK R \in F : \A x \in R : R \ {x} \notin F
    <3> HIDE DEF F
    <3>1. F \subseteq SUBSET S
      BY Zenon DEF F
    <3> QED
      BY <3>1, MinimalSubset, Zenon
  <2>2. R # {}
    BY Zenon, SumEmpty
  <2>3. Pick(R) \in R
    BY Zenon, <2>2, PickIn
  <2>4. IsFiniteSet(R)
    BY Zenon, FS_Subset
  <2>5. SumOver(f, R) = f[Pick(R)] + SumOver(f, R \ {Pick(R)})
    BY Zenon, <2>2, <2>4, SumPick
  <2>6. SumOver(g, R) = g[Pick(R)] + SumOver(g, R \ {Pick(R)})
    BY Zenon, <2>2, <2>4, SumPick
  <2>7. SumOver(f, R \ {Pick(R)}) = SumOver(g, R \ {Pick(R)})
    BY Zenon, <2>1, <2>3
  <2>8. f[Pick(R)] = g[Pick(R)]
    BY Zenon, <2>3
  <2> QED
    BY Zenon, <2>5, <2>6, <2>7, <2>8
<1> QED
  BY Zenon, <1>1

\* Nothing adds up to nothing.
LEMMA SumZero ==
  ASSUME NEW S, IsFiniteSet(S) PROVE SumOver([x \in S |-> 0], S) = 0
<1> DEFINE f == [x \in S |-> 0]
           F == {R \in SUBSET S : SumOver(f, R) # 0}
<1>1. F = {}
  <2> SUFFICES ASSUME F # {} PROVE FALSE
    BY Zenon
  <2>1. PICK R \in F : \A x \in R : R \ {x} \notin F
    <3>1. F \subseteq SUBSET S
      BY Zenon DEF F
    <3> HIDE DEF F
    <3> QED
      BY <3>1, MinimalSubset, Zenon
  <2>2. R \in SUBSET S /\ SumOver(f, R) # 0
    BY Zenon DEF F
  <2>3. R # {}
    BY Zenon, <2>2, SumEmpty
  <2>4. PICK e \in R : TRUE
    BY Zenon, <2>3
  <2>5. IsFiniteSet(R) /\ \A x \in R : f[x] \in Nat
    BY Zenon, <2>2, FS_Subset
  <2>6. SumOver(f, R \ {e}) = 0
    BY Zenon, <2>1, <2>2, <2>4 DEF F
  <2>7. f[e] = 0
    BY Zenon, <2>2, <2>4
  <2> HIDE DEF f
  <2>8. SumOver(f, R) = f[e] + SumOver(f, R \ {e})
    BY <2>4, <2>5, SumRemove
  <2> QED
    BY <2>2, <2>6, <2>7, <2>8
<1> QED
  BY Zenon, <1>1 DEF F

\* A larger set has no smaller sum.
LEMMA SumSubset ==
  ASSUME NEW f, NEW S, IsFiniteSet(S), \A x \in S : f[x] \in Nat, NEW R \in SUBSET S
  PROVE  SumOver(f, R) <= SumOver(f, S)
<1> DEFINE F == {Q \in SUBSET S : R \subseteq Q /\ ~ (SumOver(f, R) <= SumOver(f, Q))}
<1>0. \A Q \in SUBSET S : SumOver(f, Q) \in Nat
  <2> SUFFICES ASSUME NEW Q \in SUBSET S PROVE SumOver(f, Q) \in Nat
    BY Zenon
  <2>1. IsFiniteSet(Q) /\ \A x \in Q : f[x] \in Nat
    BY Zenon, FS_Subset
  <2> QED
    BY Zenon, <2>1, SumNat
<1>1. F = {}
  <2> SUFFICES ASSUME F # {} PROVE FALSE
    BY Zenon
  <2>1. PICK Q \in F : \A x \in Q : Q \ {x} \notin F
    <3> HIDE DEF F
    <3>1. F \subseteq SUBSET S
      BY Zenon DEF F
    <3> QED
      BY <3>1, MinimalSubset, Zenon
  <2>2. Q # R
    BY <1>0
  <2>3. PICK e \in Q : e \notin R
    BY Zenon, <2>2
  <2>4. SumOver(f, Q) = f[e] + SumOver(f, Q \ {e})
    <3>1. IsFiniteSet(Q) /\ \A x \in Q : f[x] \in Nat
      BY Zenon, FS_Subset
    <3> QED
      BY <3>1, SumRemove
  <2>5. SumOver(f, R) <= SumOver(f, Q \ {e})
    BY Zenon, <2>1, <2>3
  <2>6. f[e] \in Nat /\ SumOver(f, R) \in Nat /\ SumOver(f, Q) \in Nat
        /\ SumOver(f, Q \ {e}) \in Nat
    BY Zenon, <1>0
  <2>7. ~ (SumOver(f, R) <= SumOver(f, Q))
    BY Zenon
  <2> HIDE DEF F
  <2> QED
    BY <2>4, <2>5, <2>6, <2>7
<1> QED
  BY Zenon, <1>0, <1>1

\* One summand changes.
LEMMA SumChange ==
  ASSUME NEW f, NEW g, NEW S, IsFiniteSet(S), NEW e \in S,
         \A x \in S : f[x] \in Nat /\ g[x] \in Nat,
         \A x \in S \ {e} : f[x] = g[x]
  PROVE  SumOver(f, S) + g[e] = SumOver(g, S) + f[e]
<1> DEFINE R == S \ {e}
<1>1. IsFiniteSet(R)
  BY Zenon, FS_Subset
<1>2. SumOver(f, R) = SumOver(g, R)
  BY Zenon, <1>1, SumEqual
<1>3. SumOver(f, S) = f[e] + SumOver(f, R)
  BY SumRemove
<1>4. SumOver(g, S) = g[e] + SumOver(g, R)
  BY SumRemove
<1>5. SumOver(f, R) \in Nat
  BY Zenon, <1>1, SumNat
<1> QED
  BY <1>2, <1>3, <1>4, <1>5

\* Pointwise smaller functions have smaller sums.
LEMMA SumMonotone ==
  ASSUME NEW f, NEW g, NEW S, IsFiniteSet(S),
         \A x \in S : f[x] \in Nat /\ g[x] \in Nat /\ f[x] <= g[x]
  PROVE  SumOver(f, S) <= SumOver(g, S)
<1> DEFINE F == {R \in SUBSET S : ~ (SumOver(f, R) <= SumOver(g, R))}
<1>0. \A R \in SUBSET S : SumOver(f, R) \in Nat /\ SumOver(g, R) \in Nat
  <2> SUFFICES ASSUME NEW R \in SUBSET S PROVE SumOver(f, R) \in Nat /\ SumOver(g, R) \in Nat
    BY Zenon
  <2>1. IsFiniteSet(R) /\ \A x \in R : f[x] \in Nat /\ g[x] \in Nat
    BY Zenon, FS_Subset
  <2> QED
    BY Zenon, <2>1, SumNat
<1>1. F = {}
  <2> SUFFICES ASSUME F # {} PROVE FALSE
    BY Zenon
  <2>1. PICK R \in F : \A x \in R : R \ {x} \notin F
    <3> HIDE DEF F
    <3>1. F \subseteq SUBSET S
      BY Zenon DEF F
    <3> QED
      BY <3>1, MinimalSubset, Zenon
  <2>2. R # {}
    BY SumEmpty
  <2>3. Pick(R) \in R
    BY Zenon, <2>2, PickIn
  <2>4. IsFiniteSet(R)
    BY Zenon, FS_Subset
  <2>5. /\ SumOver(f, R) = f[Pick(R)] + SumOver(f, R \ {Pick(R)})
        /\ SumOver(g, R) = g[Pick(R)] + SumOver(g, R \ {Pick(R)})
    BY Zenon, <2>2, <2>4, SumPick
  <2>6. SumOver(f, R \ {Pick(R)}) <= SumOver(g, R \ {Pick(R)})
    BY Zenon, <2>1, <2>3
  <2>7. /\ f[Pick(R)] \in Nat /\ g[Pick(R)] \in Nat /\ f[Pick(R)] <= g[Pick(R)]
        /\ SumOver(f, R \ {Pick(R)}) \in Nat /\ SumOver(g, R \ {Pick(R)}) \in Nat
    BY Zenon, <1>0, <2>3
  <2>8. ~ (SumOver(f, R) <= SumOver(g, R))
    BY Zenon
  <2> HIDE DEF F
  <2> QED
    BY <2>5, <2>6, <2>7, <2>8
<1> QED
  BY Zenon, <1>1

\* A non-empty finite set of numbers has a largest element.
LEMMA MaxIn ==
  ASSUME NEW S, IsFiniteSet(S), S # {}, S \subseteq Nat
  PROVE  Max(S) \in S /\ \A y \in S : y <= Max(S)
<1> DEFINE F == {R \in SUBSET S : R # {} /\ ~ \E x \in R : \A y \in R : x >= y}
<1>1. F = {}
  <2> SUFFICES ASSUME F # {} PROVE FALSE
    BY Zenon
  <2>1. PICK R \in F : \A x \in R : R \ {x} \notin F
    <3> HIDE DEF F
    <3>1. F \subseteq SUBSET S
      BY Zenon DEF F
    <3> QED
      BY <3>1, MinimalSubset, Zenon
  <2>2. PICK e \in R : TRUE
    BY Zenon
  <2>3. R \ {e} # {}
    <3>1. CASE R \ {e} = {}
      <4>1. \A y \in R : e >= y
        BY <3>1
      <4> QED
        BY Zenon, <4>1
    <3> QED
      BY Zenon, <3>1
  <2>4. PICK x \in R \ {e} : \A y \in R \ {e} : x >= y
    BY <2>1, <2>3, Zenon
  <2>5. e \in Nat /\ x \in Nat /\ R \subseteq Nat
    BY Zenon
  <2>6. CASE x >= e
    <3>1. \A y \in R : x >= y
      BY Zenon, <2>4, <2>6
    <3> QED
      BY Zenon, <3>1
  <2>7. CASE e >= x
    <3>1. \A y \in R : e >= y
      BY <2>4, <2>5, <2>7
    <3> QED
      BY Zenon, <3>1
  <2> QED
    BY <2>5, <2>6, <2>7
<1>2. \E x \in S : \A y \in S : x >= y
  BY Zenon, <1>1
<1>3. Max(S) \in S /\ \A y \in S : Max(S) >= y
  BY <1>2, Zenon DEF Max
<1> QED
  BY Zenon, <1>3

=============================================================================
