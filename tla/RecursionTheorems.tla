------------------------- MODULE RecursionTheorems -------------------------
(***************************************************************************)
(* What recursive definitions compute. SumFunctionOnSet, the sum of a      *)
(* function over a finite set, by which the quota ledger, the instance     *)
(* allocation and the budget of the memory cache are stated; and functions *)
(* defined by recursion over 0..n, as loops are in the models. Induction   *)
(* is over a set of numbers or of sets and not over a predicate, because   *)
(* the provers cannot instantiate an operator parameter.                   *)
(***************************************************************************)
EXTENDS Functions, FiniteSetTheorems, TLAPS

\* The element the fold of Functions.tla takes first.
Pick(t) == CHOOSE x \in t : TRUE

\* g computes the sum of f over every set of D by the fold's recursion.
Rec(f, D, g) ==
    \A t \in D : g[t] = IF t = {} THEN 0 ELSE f[Pick(t)] + g[t \ {Pick(t)}]

\* The element the fold takes is a member of the set.
LEMMA PickIn ==
    ASSUME NEW t, t # {}
    PROVE  Pick(t) \in t
BY DEF Pick

\* Induction over the subsets of a finite set, with the property as a set P: if a
\* set is in P whenever its strict subsets are, every subset of S is.
LEMMA SubsetInduction ==
    ASSUME NEW S, IsFiniteSet(S), NEW P, P \subseteq SUBSET S,
           \A s \in SUBSET S : (\A t \in SUBSET s : t # s => t \in P) => s \in P
    PROVE  P = SUBSET S
<1> DEFINE R == StrictSubsetOrdering(S)
           T == (SUBSET S) \ P
<1>1. IsWellFoundedOn(R, SUBSET S)
  BY FS_StrictSubsetOrderingWellFounded, FS_FiniteSubsetsOfFinite
<1>2. SUFFICES ASSUME T # {} PROVE FALSE
  OBVIOUS
<1>3. PICK x \in T : \A y \in T : ~ (<<y, x>> \in R)
  <2> HIDE DEF R
  <2>1. T \subseteq SUBSET S
    OBVIOUS
  <2> HIDE DEF T
  <2> QED BY <1>1, <1>2, <2>1, WFMin
<1>4. ASSUME NEW t \in SUBSET x, t # x, t \notin P
      PROVE  FALSE
  <2>1. t \in T
    BY <1>4
  <2>2. <<t, x>> \in R
    BY <1>4, <2>1 DEF StrictSubsetOrdering
  <2> QED BY <1>3, <2>1, <2>2
<1> QED BY <1>3, <1>4

\* The community operator, written as the recursive function it stands for.
LEMMA SumUnfolds ==
    ASSUME NEW f, NEW S
    PROVE  SumFunctionOnSet(f, S) =
             (CHOOSE g : g = [s \in SUBSET S |->
                 IF s = {} THEN 0 ELSE f[Pick(s)] + g[s \ {Pick(s)}]])[S]
BY Zenon DEF SumFunctionOnSet, FoldFunctionOnSet, MapThenFoldSet, Pick

\* The recursion has at most one solution.
LEMMA RecUnique ==
    ASSUME NEW f, NEW S, IsFiniteSet(S), NEW g, NEW h,
           Rec(f, SUBSET S, g), Rec(f, SUBSET S, h)
    PROVE  \A t \in SUBSET S : g[t] = h[t]
<1> DEFINE P == {t \in SUBSET S : g[t] = h[t]}
<1>1. ASSUME NEW s \in SUBSET S, \A t \in SUBSET s : t # s => t \in P
      PROVE  s \in P
  <2>1. CASE s = {}
    BY <2>1 DEF Rec
  <2>2. CASE s # {}
    <3>1. Pick(s) \in s
      BY <2>2, PickIn
    <3>2. g[s \ {Pick(s)}] = h[s \ {Pick(s)}]
      BY <1>1, <3>1
    <3> QED BY <2>2, <3>2 DEF Rec
  <2> QED BY <2>1, <2>2
<1>2. P \subseteq SUBSET S
  OBVIOUS
<1> HIDE DEF P
<1>3. P = SUBSET S
  BY <1>1, <1>2, SubsetInduction
<1> QED BY <1>3 DEF P

\* A solution on the subsets of S is one on the subsets of a part of S.
LEMMA RecRestricts ==
    ASSUME NEW f, NEW S, NEW u \in SUBSET S, NEW g, Rec(f, SUBSET S, g)
    PROVE  Rec(f, SUBSET u, g)
BY DEF Rec

\* The solutions on the subsets of s, one of them, and the function that takes
\* each value from the solution for the set one element smaller.
Sums(f, s) == {h \in [SUBSET s -> Nat] : Rec(f, SUBSET s, h)}
KnownSum(f, s) == CHOOSE h \in Sums(f, s) : TRUE
Glued(f, s) ==
    [t \in SUBSET s |->
        IF t = {} THEN 0
        ELSE f[Pick(t)] + KnownSum(f, t \ {Pick(t)})[t \ {Pick(t)}]]

\* The recursion has a solution over a finite set.
LEMMA RecExists ==
    ASSUME NEW S, IsFiniteSet(S), NEW f, \A x \in S : f[x] \in Nat
    PROVE  \E h \in [SUBSET S -> Nat] : Rec(f, SUBSET S, h)
<1> DEFINE P == {s \in SUBSET S : Sums(f, s) # {}}
<1>1. ASSUME NEW s \in SUBSET S, \A t \in SUBSET s : t # s => t \in P
      PROVE  s \in P
  <2>1. \A t \in SUBSET s : t # s =>
            KnownSum(f, t) \in [SUBSET t -> Nat] /\ Rec(f, SUBSET t, KnownSum(f, t))
    BY <1>1 DEF KnownSum, Sums
  <2>2. ASSUME NEW t \in SUBSET s, t # {}
        PROVE  /\ Pick(t) \in t
               /\ t \ {Pick(t)} \in SUBSET s
               /\ t \ {Pick(t)} # s
    BY <2>2, PickIn
  <2>3. Glued(f, s) \in [SUBSET s -> Nat]
    <3>1. ASSUME NEW t \in SUBSET s, t # {}
          PROVE  f[Pick(t)] + KnownSum(f, t \ {Pick(t)})[t \ {Pick(t)}] \in Nat
      <4>1. f[Pick(t)] \in Nat
        BY <2>2, <3>1
      <4>2. KnownSum(f, t \ {Pick(t)}) \in [SUBSET (t \ {Pick(t)}) -> Nat]
        BY <2>1, <2>2, <3>1
      <4>3. KnownSum(f, t \ {Pick(t)})[t \ {Pick(t)}] \in Nat
        BY <4>2
      <4> QED BY <4>1, <4>3
    <3> QED BY <3>1 DEF Glued
  <2>4. ASSUME NEW u \in SUBSET s, u # s
        PROVE  Glued(f, s)[u] = KnownSum(f, u)[u]
    <3>1. Rec(f, SUBSET u, KnownSum(f, u))
      BY <2>1, <2>4
    <3>2. CASE u = {}
      BY <3>1, <3>2 DEF Glued, Rec
    <3>3. CASE u # {}
      <4> DEFINE v == u \ {Pick(u)}
      <4>1. v \in SUBSET u /\ v \in SUBSET s /\ v # s
        BY <2>2, <3>3
      <4>2. Rec(f, SUBSET v, KnownSum(f, u))
        BY <3>1, <4>1, RecRestricts
      <4>3. Rec(f, SUBSET v, KnownSum(f, v))
        BY <2>1, <4>1
      <4>4. IsFiniteSet(v)
        BY <4>1, FS_Subset
      <4>5. KnownSum(f, u)[v] = KnownSum(f, v)[v]
        <5> HIDE DEF v
        <5>1. v \in SUBSET v
          OBVIOUS
        <5> QED BY <4>2, <4>3, <4>4, <5>1, RecUnique
      <4>6. KnownSum(f, u)[u] = f[Pick(u)] + KnownSum(f, u)[v]
        BY <3>1, <3>3 DEF Rec
      <4>7. Glued(f, s)[u] = f[Pick(u)] + KnownSum(f, v)[v]
        BY <3>3 DEF Glued
      <4> QED BY <4>5, <4>6, <4>7
    <3> QED BY <3>2, <3>3
  <2>5. Rec(f, SUBSET s, Glued(f, s))
    <3>1. ASSUME NEW t \in SUBSET s, t # {}
          PROVE  Glued(f, s)[t] = f[Pick(t)] + Glued(f, s)[t \ {Pick(t)}]
      <4>1. Glued(f, s)[t \ {Pick(t)}] = KnownSum(f, t \ {Pick(t)})[t \ {Pick(t)}]
        BY <2>2, <2>4, <3>1
      <4>2. Glued(f, s)[t] = f[Pick(t)] + KnownSum(f, t \ {Pick(t)})[t \ {Pick(t)}]
        BY <3>1 DEF Glued
      <4> QED BY <4>1, <4>2
    <3>2. ASSUME NEW t \in SUBSET s, t = {}
          PROVE  Glued(f, s)[t] = 0
      BY <3>2 DEF Glued
    <3> QED BY <3>1, <3>2 DEF Rec
  <2> QED BY <2>3, <2>5 DEF Sums
<1>2. P \subseteq SUBSET S
  OBVIOUS
<1>3. P = SUBSET S
  <2> HIDE DEF P
  <2> QED BY <1>1, <1>2, SubsetInduction
<1>4. S \in P
  BY <1>3
<1> QED BY <1>4 DEF Sums

\* The sum is the value at S of a solution of the recursion.
LEMMA SumByRec ==
    ASSUME NEW S, IsFiniteSet(S), NEW f, \A x \in S : f[x] \in Nat
    PROVE  \E h \in [SUBSET S -> Nat] :
               Rec(f, SUBSET S, h) /\ SumFunctionOnSet(f, S) = h[S]
<1> DEFINE Eq(g) == g = [s \in SUBSET S |->
                 IF s = {} THEN 0 ELSE f[Pick(s)] + g[s \ {Pick(s)}]]
           c == CHOOSE g : Eq(g)
<1>1. PICK h \in [SUBSET S -> Nat] : Rec(f, SUBSET S, h)
  BY RecExists
<1>2. Eq(h)
  BY <1>1 DEF Rec
<1>3. Eq(c)
  <2> HIDE DEF Eq
  <2> QED BY <1>2
<1>4. SumFunctionOnSet(f, S) = c[S]
  BY SumUnfolds
<1>5. Rec(f, SUBSET S, c)
  <2> HIDE DEF c
  <2> QED BY <1>3 DEF Rec
<1>6. c[S] = h[S]
  <2> HIDE DEF c
  <2> QED BY <1>1, <1>5, RecUnique
<1> QED BY <1>1, <1>4, <1>6

\* The sum is the value at S of any solution of the recursion.
LEMMA SumIsRec ==
    ASSUME NEW S, IsFiniteSet(S), NEW f, \A x \in S : f[x] \in Nat, NEW h,
           Rec(f, SUBSET S, h)
    PROVE  SumFunctionOnSet(f, S) = h[S]
<1>1. PICK g \in [SUBSET S -> Nat] :
          Rec(f, SUBSET S, g) /\ SumFunctionOnSet(f, S) = g[S]
  BY SumByRec
<1>2. \A t \in SUBSET S : g[t] = h[t]
  BY <1>1, RecUnique
<1> QED BY <1>1, <1>2

\* A finite sum of naturals (the stored bytes of a bucket, the claims of the
\* workers) is a natural.
THEOREM SumNat ==
    ASSUME NEW S, IsFiniteSet(S), NEW f, \A x \in S : f[x] \in Nat
    PROVE  SumFunctionOnSet(f, S) \in Nat
<1>1. PICK h \in [SUBSET S -> Nat] :
          Rec(f, SUBSET S, h) /\ SumFunctionOnSet(f, S) = h[S]
  BY SumByRec
<1> QED BY <1>1

\* The sum over nothing is 0.
LEMMA SumEmpty ==
    ASSUME NEW f
    PROVE  SumFunctionOnSet(f, {}) = 0
<1>1. IsFiniteSet({})
  BY FS_EmptySet
<1>2. \A x \in {} : f[x] \in Nat
  OBVIOUS
<1>3. PICK h \in [SUBSET {} -> Nat] :
          Rec(f, SUBSET {}, h) /\ SumFunctionOnSet(f, {}) = h[{}]
  BY <1>1, <1>2, SumByRec
<1> QED BY <1>3 DEF Rec

\* The sum is the picked element's value plus the sum over the rest.
LEMMA SumStep ==
    ASSUME NEW S, IsFiniteSet(S), NEW f, \A x \in S : f[x] \in Nat, S # {}
    PROVE  SumFunctionOnSet(f, S) =
               f[Pick(S)] + SumFunctionOnSet(f, S \ {Pick(S)})
<1> DEFINE u == S \ {Pick(S)}
<1>1. PICK h \in [SUBSET S -> Nat] :
          Rec(f, SUBSET S, h) /\ SumFunctionOnSet(f, S) = h[S]
  BY SumByRec
<1>2. u \in SUBSET S
  OBVIOUS
<1>3. h[S] = f[Pick(S)] + h[u]
  BY <1>1 DEF Rec
<1> HIDE DEF u
<1>4. IsFiniteSet(u)
  BY <1>2, FS_Subset
<1>5. Rec(f, SUBSET u, h)
  BY <1>1, <1>2, RecRestricts
<1>6. SumFunctionOnSet(f, u) = h[u]
  BY <1>2, <1>4, <1>5, SumIsRec
<1> QED BY <1>1, <1>3, <1>6 DEF u

\* Any element may be taken out first: the sum over S is f[b] plus the sum over
\* the others (what an allocation check does with the bucket being changed).
THEOREM SumRemove ==
    ASSUME NEW S, IsFiniteSet(S), NEW f, \A x \in S : f[x] \in Nat,
           NEW b \in S
    PROVE  SumFunctionOnSet(f, S) = f[b] + SumFunctionOnSet(f, S \ {b})
<1> DEFINE P == {s \in SUBSET S : \A y \in s :
                    SumFunctionOnSet(f, s) = f[y] + SumFunctionOnSet(f, s \ {y})}
<1>1. ASSUME NEW s \in SUBSET S, \A t \in SUBSET s : t # s => t \in P
      PROVE  s \in P
  <2>1. SUFFICES ASSUME NEW y \in s
                 PROVE  SumFunctionOnSet(f, s) = f[y] + SumFunctionOnSet(f, s \ {y})
    OBVIOUS
  <2> DEFINE p == Pick(s)
  <2>2. IsFiniteSet(s) /\ (\A x \in s : f[x] \in Nat) /\ s # {}
    BY FS_Subset
  <2>3. p \in s
    BY PickIn
  <2>4. SumFunctionOnSet(f, s) = f[p] + SumFunctionOnSet(f, s \ {p})
    BY <2>2, SumStep
  <2> HIDE DEF p
  <2>5. CASE y # p
    <3>1. s \ {p} \in P /\ s \ {y} \in P
      BY <1>1, <2>3
    <3>2. SumFunctionOnSet(f, s \ {p}) = f[y] + SumFunctionOnSet(f, (s \ {p}) \ {y})
      BY <2>5, <3>1
    <3>3. SumFunctionOnSet(f, s \ {y}) = f[p] + SumFunctionOnSet(f, (s \ {y}) \ {p})
      BY <2>3, <2>5, <3>1
    <3>4. (s \ {p}) \ {y} = (s \ {y}) \ {p}
      OBVIOUS
    <3>5. f[p] \in Nat /\ f[y] \in Nat
      BY <2>2, <2>3
    <3>6. SumFunctionOnSet(f, (s \ {y}) \ {p}) \in Nat
      <4>1. IsFiniteSet((s \ {y}) \ {p})
        BY <2>2, FS_Subset
      <4> QED BY <2>2, <4>1, SumNat
    <3> HIDE DEF P
    <3> QED BY <2>4, <3>2, <3>3, <3>4, <3>5, <3>6
  <2> QED BY <2>4, <2>5
<1>2. P \subseteq SUBSET S
  OBVIOUS
<1>3. P = SUBSET S
  <2> HIDE DEF P
  <2> QED BY <1>1, <1>2, SubsetInduction
<1>4. S \in P
  BY <1>3
<1> QED BY <1>4

\* Larger values have a larger sum.
THEOREM SumMonotone ==
    ASSUME NEW S, IsFiniteSet(S), NEW f, NEW g,
           \A x \in S : f[x] \in Nat /\ g[x] \in Nat /\ f[x] <= g[x]
    PROVE  SumFunctionOnSet(f, S) <= SumFunctionOnSet(g, S)
<1> DEFINE P == {s \in SUBSET S : SumFunctionOnSet(f, s) <= SumFunctionOnSet(g, s)}
<1>1. ASSUME NEW s \in SUBSET S, \A t \in SUBSET s : t # s => t \in P
      PROVE  s \in P
  <2> DEFINE p == Pick(s)
  <2>1. CASE s = {}
    BY <2>1, SumEmpty
  <2>2. CASE s # {}
    <3>1. IsFiniteSet(s) /\ IsFiniteSet(s \ {p})
      BY FS_Subset
    <3>2. p \in s
      BY <2>2, PickIn
    <3>3. SumFunctionOnSet(f, s) = f[p] + SumFunctionOnSet(f, s \ {p})
      BY <2>2, <3>1, SumStep
    <3>4. SumFunctionOnSet(g, s) = g[p] + SumFunctionOnSet(g, s \ {p})
      BY <2>2, <3>1, SumStep
    <3>5. SumFunctionOnSet(f, s \ {p}) \in Nat /\ SumFunctionOnSet(g, s \ {p}) \in Nat
      <4> HIDE DEF p
      <4> QED BY <3>1, SumNat
    <3> HIDE DEF p
    <3>6. SumFunctionOnSet(f, s \ {p}) <= SumFunctionOnSet(g, s \ {p})
      BY <1>1, <3>2
    <3>7. f[p] \in Nat /\ g[p] \in Nat /\ f[p] <= g[p]
      BY <3>2
    <3>8. SumFunctionOnSet(f, s) <= SumFunctionOnSet(g, s)
      <4> HIDE DEF P
      <4> QED BY <3>3, <3>4, <3>5, <3>6, <3>7
    <3> QED BY <3>8
  <2> QED BY <2>1, <2>2
<1>2. P \subseteq SUBSET S
  OBVIOUS
<1>3. P = SUBSET S
  <2> HIDE DEF P
  <2> QED BY <1>1, <1>2, SubsetInduction
<1>4. S \in P
  BY <1>3
<1> QED BY <1>4

\* Functions that agree on S have the same sum.
LEMMA SumAgrees ==
    ASSUME NEW S, IsFiniteSet(S), NEW f, NEW g,
           \A x \in S : f[x] \in Nat /\ g[x] = f[x]
    PROVE  SumFunctionOnSet(g, S) = SumFunctionOnSet(f, S)
<1>1. SumFunctionOnSet(f, S) \in Nat /\ SumFunctionOnSet(g, S) \in Nat
  BY SumNat
<1>2. \A x \in S : g[x] \in Nat /\ g[x] <= f[x] /\ f[x] <= g[x]
  OBVIOUS
<1>3. SumFunctionOnSet(f, S) <= SumFunctionOnSet(g, S)
  BY <1>2, SumMonotone
<1>4. SumFunctionOnSet(g, S) <= SumFunctionOnSet(f, S)
  BY <1>2, SumMonotone
<1> QED BY <1>1, <1>3, <1>4

\* Changing one value changes the sum by the difference, and no value exceeds the
\* sum: an overwritten object or a settled claim is counted exactly once.
THEOREM SumUpdate ==
    ASSUME NEW S, IsFiniteSet(S), NEW f \in [S -> Nat], NEW b \in S,
           NEW v \in Nat
    PROVE  /\ SumFunctionOnSet([f EXCEPT ![b] = v], S) \in Nat
           /\ SumFunctionOnSet([f EXCEPT ![b] = v], S) + f[b] =
                  SumFunctionOnSet(f, S) + v
           /\ f[b] <= SumFunctionOnSet(f, S)
<1> DEFINE g == [f EXCEPT ![b] = v]
<1>1. (\A x \in S : g[x] \in Nat) /\ (\A x \in S \ {b} : g[x] = f[x]) /\ g[b] = v
  OBVIOUS
<1> HIDE DEF g
<1>2. IsFiniteSet(S \ {b})
  BY FS_Subset
<1>3. SumFunctionOnSet(f, S) = f[b] + SumFunctionOnSet(f, S \ {b})
  BY SumRemove
<1>4. SumFunctionOnSet(g, S) = g[b] + SumFunctionOnSet(g, S \ {b})
  BY <1>1, SumRemove
<1>5. SumFunctionOnSet(g, S \ {b}) = SumFunctionOnSet(f, S \ {b})
  <2>1. \A x \in S \ {b} : f[x] \in Nat /\ g[x] = f[x]
    BY <1>1
  <2> QED BY <1>2, <2>1, SumAgrees
<1>6. SumFunctionOnSet(f, S \ {b}) \in Nat
  BY <1>2, SumNat
<1>7. /\ SumFunctionOnSet(g, S) \in Nat
      /\ SumFunctionOnSet(g, S) + f[b] = SumFunctionOnSet(f, S) + v
      /\ f[b] <= SumFunctionOnSet(f, S)
  BY <1>1, <1>3, <1>4, <1>5, <1>6
<1> QED BY <1>7 DEF g

\* A sum of zeros is 0.
LEMMA SumZero ==
    ASSUME NEW S, IsFiniteSet(S), NEW f, \A x \in S : f[x] = 0
    PROVE  SumFunctionOnSet(f, S) = 0
<1> DEFINE P == {s \in SUBSET S : SumFunctionOnSet(f, s) = 0}
<1>1. ASSUME NEW s \in SUBSET S, \A t \in SUBSET s : t # s => t \in P
      PROVE  s \in P
  <2>1. CASE s = {}
    BY <2>1, SumEmpty
  <2>2. CASE s # {}
    <3>1. IsFiniteSet(s) /\ \A x \in s : f[x] \in Nat
      BY FS_Subset
    <3>2. Pick(s) \in s
      BY <2>2, PickIn
    <3>3. SumFunctionOnSet(f, s) = f[Pick(s)] + SumFunctionOnSet(f, s \ {Pick(s)})
      BY <2>2, <3>1, SumStep
    <3>4. SumFunctionOnSet(f, s \ {Pick(s)}) = 0
      BY <1>1, <3>2
    <3> QED BY <3>2, <3>3, <3>4
  <2> QED BY <2>1, <2>2
<1>2. P \subseteq SUBSET S
  OBVIOUS
<1>3. P = SUBSET S
  <2> HIDE DEF P
  <2> QED BY <1>1, <1>2, SubsetInduction
<1>4. S \in P
  BY <1>3
<1> QED BY <1>4

\* h takes the set s into t.
Into(h, s, t) == \A x \in s : h[x] \in t

\* What is counted under different names, each no more than what the name stands
\* for in T, is no more than the whole of T.
THEOREM SumInjects ==
    ASSUME NEW S, IsFiniteSet(S), NEW T, IsFiniteSet(T), NEW f, NEW g, NEW h,
           Into(h, S, T), \A x, y \in S : h[x] = h[y] => x = y,
           \A x \in S : f[x] \in Nat /\ f[x] <= g[h[x]], \A y \in T : g[y] \in Nat
    PROVE  SumFunctionOnSet(f, S) <= SumFunctionOnSet(g, T)
<1> DEFINE P == {s \in SUBSET S : \A t \in SUBSET T :
                    Into(h, s, t) => SumFunctionOnSet(f, s) <= SumFunctionOnSet(g, t)}
<1>1. ASSUME NEW s \in SUBSET S, \A u \in SUBSET s : u # s => u \in P
      PROVE  s \in P
  <2> SUFFICES ASSUME NEW t \in SUBSET T, Into(h, s, t)
               PROVE  SumFunctionOnSet(f, s) <= SumFunctionOnSet(g, t)
    OBVIOUS
  <2>1. IsFiniteSet(s) /\ IsFiniteSet(t)
    BY FS_Subset
  <2>2. SumFunctionOnSet(g, t) \in Nat
    BY <2>1, SumNat
  <2>3. CASE s = {}
    <3>1. SumFunctionOnSet(f, s) = 0
      BY <2>3, SumEmpty
    <3> QED BY <2>2, <3>1
  <2>4. CASE s # {}
    <3>1. PICK y \in s : TRUE
      BY <2>4
    <3>2. PICK u, v : u = s \ {y} /\ v = t \ {h[y]}
      OBVIOUS
    <3>3. h[y] \in t /\ f[y] \in Nat /\ g[h[y]] \in Nat /\ f[y] <= g[h[y]]
      BY DEF Into
    <3>4. SumFunctionOnSet(f, s) = f[y] + SumFunctionOnSet(f, u)
      BY <2>1, <3>2, SumRemove
    <3>5. SumFunctionOnSet(g, t) = g[h[y]] + SumFunctionOnSet(g, v)
      BY <2>1, <3>2, <3>3, SumRemove
    <3>6. Into(h, u, v)
      BY <3>2 DEF Into
    <3>7. u \in P /\ v \in SUBSET T
      BY <1>1, <3>1, <3>2
    <3>8. SumFunctionOnSet(f, u) <= SumFunctionOnSet(g, v)
      BY <3>6, <3>7
    <3>9. SumFunctionOnSet(f, u) \in Nat /\ SumFunctionOnSet(g, v) \in Nat
      <4>1. IsFiniteSet(u) /\ IsFiniteSet(v)
        BY <2>1, <3>2, FS_Subset
      <4>2. (\A x \in u : f[x] \in Nat) /\ \A x \in v : g[x] \in Nat
        BY <3>2
      <4> QED BY <4>1, <4>2, SumNat
    <3> QED BY <3>3, <3>4, <3>5, <3>8, <3>9
  <2> QED BY <2>3, <2>4
<1>2. P \subseteq SUBSET S
  OBVIOUS
<1> HIDE DEF P
<1>3. P = SUBSET S
  BY <1>1, <1>2, SubsetInduction
<1>4. S \in P
  BY <1>3
<1> QED BY <1>4 DEF P

-----------------------------------------------------------------------------
(* Loops.                                                                   *)

\* A set of numbers that is not empty has a least one.
LEMMA LeastNumber ==
    ASSUME NEW T \in SUBSET Nat, T # {}
    PROVE  \E x \in T : \A y \in T : x <= y
<1>1. PICK x \in T : \A y \in T : ~(<<y, x>> \in OpToRel(<, Nat))
  BY WFMin, NatLessThanWellFounded
<1>2. \A y \in T : ~(y < x)
  BY <1>1 DEF OpToRel
<1> QED BY <1>2

\* Induction over 0..n, with the property as a set.
THEOREM StepInduction ==
    ASSUME NEW n \in Nat, NEW P, 0 \in P, \A i \in 1..n : i - 1 \in P => i \in P
    PROVE  \A i \in 0..n : i \in P
<1> DEFINE T == {i \in 0..n : i \notin P}
<1> SUFFICES ASSUME T # {} PROVE FALSE
  OBVIOUS
<1>1. T \subseteq Nat
  OBVIOUS
<1>2. PICK x \in T : \A y \in T : ~(<<y, x>> \in OpToRel(<, Nat))
  <2> HIDE DEF T
  <2> QED BY <1>1, WFMin, NatLessThanWellFounded
<1>3. x \in 1..n
  OBVIOUS
<1>4. x - 1 \in T
  BY <1>3
<1>5. <<x - 1, x>> \in OpToRel(<, Nat)
  BY <1>3 DEF OpToRel
<1> QED BY <1>2, <1>4, <1>5

\* f is the run of a loop from a, whose body in round i is G[i].
IsRun(f, a, G, n) == f[0] = a /\ \A i \in 1..n : f[i] = G[i][f[i - 1]]
HasRun(S, a, G, n) == \E f \in [0..n -> S] : IsRun(f, a, G, n)

\* A loop whose body is a function of the state has a run of every length.
THEOREM LoopRuns ==
    ASSUME NEW S, NEW a \in S, NEW n \in Nat, NEW G \in [1..n -> [S -> S]]
    PROVE  HasRun(S, a, G, n)
<1> DEFINE P == {m \in 0..n : HasRun(S, a, G, m)}
<1>1. 0 \in P
  <2>1. PICK f : f = [i \in 0..0 |-> a]
    OBVIOUS
  <2>2. f \in [0..0 -> S] /\ IsRun(f, a, G, 0)
    BY <2>1 DEF IsRun
  <2>3. HasRun(S, a, G, 0)
    BY <2>2 DEF HasRun
  <2> QED BY <2>3
<1>2. ASSUME NEW m \in 1..n, m - 1 \in P
      PROVE  m \in P
  <2>1. PICK f \in [0..(m - 1) -> S] : IsRun(f, a, G, m - 1)
    BY <1>2 DEF HasRun
  <2>2. f[0] = a /\ \A i \in 1..(m - 1) : f[i] = G[i][f[i - 1]]
    BY <2>1 DEF IsRun
  <2>3. PICK g : g = [i \in 0..m |-> IF i = m THEN G[m][f[m - 1]] ELSE f[i]]
    OBVIOUS
  <2>4. f[m - 1] \in S /\ G[m] \in [S -> S]
    BY <2>1
  <2>5. G[m][f[m - 1]] \in S
    BY <2>4
  <2>6. g \in [0..m -> S]
    <3>1. ASSUME NEW i \in 0..m, i # m PROVE f[i] \in S
      BY <3>1
    <3> QED BY <2>3, <2>5, <3>1
  <2>7. g[0] = a
    BY <2>2, <2>3
  <2>8. ASSUME NEW i \in 1..m PROVE g[i] = G[i][g[i - 1]]
    <3>1. CASE i = m
      BY <2>3, <3>1
    <3>2. CASE i # m
      <4>1. i \in 1..(m - 1) /\ i \in 0..m /\ i - 1 \in 0..m /\ i - 1 # m
        BY <3>2
      <4> QED BY <2>2, <2>3, <3>2, <4>1
    <3> QED BY <3>1, <3>2
  <2>9. IsRun(g, a, G, m)
    BY <2>7, <2>8 DEF IsRun
  <2>10. HasRun(S, a, G, m)
    BY <2>6, <2>9 DEF HasRun
  <2> QED BY <2>10
<1> HIDE DEF P
<1>3. \A i \in 1..n : i - 1 \in P => i \in P
  BY <1>2
<1>4. \A i \in 0..n : i \in P
  BY ONLY n \in Nat, <1>1, <1>3, StepInduction
<1>5. n \in P
  BY <1>4
<1> QED BY <1>5 DEF P

=============================================================================
