------------------------------ MODULE Sums_proof ------------------------------
(***************************************************************************)
(* What is true of the sums the properties are stated with: SumFunction    *)
(* and SumFunctionOnSet of the community modules, over finite domains.     *)
(*                                                                         *)
(* Both are recursive functions on the subsets of a finite set, so a fact  *)
(* about them is proved by taking a smallest subset it fails for           *)
(* (SmallestSubset) and finding a smaller one.                             *)
(***************************************************************************)
EXTENDS Functions, Sequences, FiniteSetTheorems, TLAPS

\* The element a sum adds first.
First(s) == CHOOSE x \in s : TRUE

\* g holds the sums of f over every subset of T.
Adds(f, T, g) ==
    g = [s \in SUBSET T |-> IF s = {} THEN 0 ELSE f[First(s)] + g[s \ {First(s)}]]

-----------------------------------------------------------------------------
(* Induction on the subsets of a finite set.                               *)

LEMMA SmallestSubset ==
    ASSUME NEW S, IsFiniteSet(S), NEW B, B \subseteq SUBSET S, B # {}
    PROVE  \E T \in B : \A U \in B : U \subseteq T => U = T
<1>1. IsWellFoundedOn(StrictSubsetOrdering(S), SUBSET S)
  BY FS_StrictSubsetOrderingWellFounded, FS_FiniteSubsetsOfFinite
<1>2. PICK T \in B : \A U \in B : ~(<<U, T>> \in StrictSubsetOrdering(S))
  BY <1>1, WFMin
<1>3. ASSUME NEW U \in B, U \subseteq T, U # T
      PROVE  FALSE
  <2>1. <<U, T>> \in (SUBSET S) \X (SUBSET S)
    OBVIOUS
  <2>2. <<U, T>> \in StrictSubsetOrdering(S)
    BY <1>3, <2>1 DEF StrictSubsetOrdering
  <2> QED
    BY <1>2, <2>2
<1> QED
  BY <1>2, <1>3

LEMMA FirstIsIn ==
    ASSUME NEW s, s # {}
    PROVE  First(s) \in s
  BY DEF First

-----------------------------------------------------------------------------
(* The recursion defines what it says.                                     *)

LEMMA SumIsAdds ==
    ASSUME NEW f, NEW T
    PROVE  SumFunctionOnSet(f, T) = (CHOOSE g : Adds(f, T, g))[T]
  BY DEF SumFunctionOnSet, FoldFunctionOnSet, MapThenFoldSet, Adds, First

LEMMA AddsUnique ==
    ASSUME NEW f, NEW S, IsFiniteSet(S), NEW T, S \subseteq T,
           NEW g, NEW h, Adds(f, S, g), Adds(f, T, h)
    PROVE  \A u \in SUBSET S : g[u] = h[u]
<1> DEFINE B == {u \in SUBSET S : g[u] # h[u]}
<1> SUFFICES ASSUME B # {} PROVE FALSE
  OBVIOUS
<1>0. B \subseteq SUBSET S
  OBVIOUS
<1>1. PICK u \in B : \A v \in B : v \subseteq u => v = u
  <2> HIDE DEF B
  <2> QED
    BY <1>0, SmallestSubset
<1>2. u \in SUBSET S /\ u \in SUBSET T /\ g[u] # h[u]
  OBVIOUS
<1>3. g[u] = (IF u = {} THEN 0 ELSE f[First(u)] + g[u \ {First(u)}])
  BY <1>2 DEF Adds
<1>4. h[u] = (IF u = {} THEN 0 ELSE f[First(u)] + h[u \ {First(u)}])
  BY <1>2 DEF Adds
<1>5. u # {}
  BY <1>2, <1>3, <1>4
<1> DEFINE v == u \ {First(u)}
<1>6. v \in SUBSET S /\ v \subseteq u /\ v # u
  BY <1>2, <1>5, FirstIsIn
<1>7. g[v] = h[v]
  BY <1>1, <1>6
<1> QED
  BY <1>2, <1>3, <1>4, <1>5, <1>7

LEMMA AddsExists ==
    ASSUME NEW f, NEW S, IsFiniteSet(S)
    PROVE  \E g : Adds(f, S, g)
<1> DEFINE B == {u \in SUBSET S : ~ \E g : Adds(f, u, g)}
<1> SUFFICES ASSUME B # {} PROVE FALSE
  OBVIOUS
<1>0. B \subseteq SUBSET S
  OBVIOUS
<1>1. PICK T \in B : \A v \in B : v \subseteq T => v = T
  <2> HIDE DEF B
  <2> QED
    BY <1>0, SmallestSubset
<1> DEFINE G(u) == CHOOSE g : Adds(f, u, g)
           N(u) == G(u)[u]
           h == [s \in SUBSET T |-> IF s = {} THEN 0 ELSE f[First(s)] + N(s \ {First(s)})]
<1>2. ASSUME NEW u \in SUBSET T, u # T
      PROVE  Adds(f, u, G(u)) /\ IsFiniteSet(u)
  <2>1. \E g : Adds(f, u, g)
    BY <1>1, <1>2
  <2> QED
    BY <2>1, FS_Subset
<1>3. ASSUME NEW u \in SUBSET T, u # T
      PROVE  N(u) = IF u = {} THEN 0 ELSE f[First(u)] + N(u \ {First(u)})
  <2>1. Adds(f, u, G(u)) /\ IsFiniteSet(u)
    BY <1>2, <1>3
  <2>2. N(u) = IF u = {} THEN 0 ELSE f[First(u)] + G(u)[u \ {First(u)}]
    <3>1. u \in SUBSET u
      OBVIOUS
    <3> HIDE DEF G
    <3> QED
      BY <2>1, <3>1 DEF Adds
  <2>3. CASE u = {}
    BY <2>2, <2>3
  <2>4. CASE u # {}
    <3> DEFINE v == u \ {First(u)}
    <3>1. v \in SUBSET T /\ v # T /\ v \subseteq u
      BY <1>3, <2>4, FirstIsIn
    <3>2. Adds(f, v, G(v)) /\ IsFiniteSet(v)
      BY <1>2, <3>1
    <3> HIDE DEF G, v
    <3>3. G(v)[v] = G(u)[v]
      BY <2>1, <3>1, <3>2, AddsUnique
    <3> QED
      BY <2>2, <2>4, <3>3 DEF v
  <2> QED
    BY <2>3, <2>4
<1> HIDE DEF G
<1>4. ASSUME NEW s \in SUBSET T, s # {}
      PROVE  h[s \ {First(s)}] = N(s \ {First(s)})
  <2> DEFINE v == s \ {First(s)}
  <2>1. v \in SUBSET T /\ v # T
    BY <1>4, FirstIsIn
  <2>2. N(v) = IF v = {} THEN 0 ELSE f[First(v)] + N(v \ {First(v)})
    BY <1>3, <2>1
  <2>3. h[v] = IF v = {} THEN 0 ELSE f[First(v)] + N(v \ {First(v)})
    BY <2>1
  <2> QED
    BY <2>2, <2>3
<1>5. Adds(f, T, h)
  <2>1. h = [s \in SUBSET T |-> IF s = {} THEN 0 ELSE f[First(s)] + h[s \ {First(s)}]]
    BY <1>4
  <2> QED
    BY <2>1 DEF Adds
<1> QED
  BY <1>1, <1>5

\* A sum is 0, or its first element and the sum of the rest.
LEMMA SumRest ==
    ASSUME NEW f, NEW S, IsFiniteSet(S)
    PROVE  SumFunctionOnSet(f, S) =
              IF S = {} THEN 0 ELSE f[First(S)] + SumFunctionOnSet(f, S \ {First(S)})
<1> DEFINE G(u) == CHOOSE g : Adds(f, u, g)
<1>1. Adds(f, S, G(S))
  BY AddsExists
<1> HIDE DEF G
<1>2. SumFunctionOnSet(f, S) = G(S)[S]
  BY SumIsAdds DEF G
<1>3. G(S)[S] = IF S = {} THEN 0 ELSE f[First(S)] + G(S)[S \ {First(S)}]
  <2>1. S \in SUBSET S
    OBVIOUS
  <2> QED
    BY <1>1, <2>1 DEF Adds
<1>4. CASE S # {}
  <2> DEFINE v == S \ {First(S)}
  <2>1. v \subseteq S /\ v \in SUBSET v
    OBVIOUS
  <2>2. IsFiniteSet(v)
    BY <2>1, FS_Subset
  <2>3. Adds(f, v, G(v))
    BY <2>2, AddsExists DEF G
  <2>4. SumFunctionOnSet(f, v) = G(v)[v]
    BY SumIsAdds DEF G
  <2> HIDE DEF v
  <2>5. G(v)[v] = G(S)[v]
    BY <1>1, <2>1, <2>2, <2>3, AddsUnique
  <2> QED
    BY <1>2, <1>3, <1>4, <2>4, <2>5 DEF v
<1> QED
  BY <1>2, <1>3, <1>4

-----------------------------------------------------------------------------
(* Sums over a finite set of indices.                                      *)

LEMMA SumEmpty ==
    ASSUME NEW f
    PROVE  SumFunctionOnSet(f, {}) = 0
  BY SumRest, FS_EmptySet

LEMMA SumInt ==
    ASSUME NEW f, NEW S, IsFiniteSet(S), \A x \in S : f[x] \in Int
    PROVE  SumFunctionOnSet(f, S) \in Int
<1> DEFINE B == {u \in SUBSET S : SumFunctionOnSet(f, u) \notin Int}
<1> SUFFICES ASSUME B # {} PROVE FALSE
  OBVIOUS
<1>0. B \subseteq SUBSET S
  OBVIOUS
<1>1. PICK u \in B : \A v \in B : v \subseteq u => v = u
  <2> HIDE DEF B
  <2> QED
    BY <1>0, SmallestSubset
<1>2. u \in SUBSET S /\ SumFunctionOnSet(f, u) \notin Int /\ IsFiniteSet(u)
  BY FS_Subset
<1>3. u # {}
  BY <1>2, SumEmpty
<1> DEFINE v == u \ {First(u)}
<1>4. First(u) \in u /\ v \in SUBSET S /\ v # u /\ v \subseteq u
  BY <1>2, <1>3, FirstIsIn
<1>5. SumFunctionOnSet(f, v) \in Int
  BY <1>1, <1>4
<1>6. SumFunctionOnSet(f, u) = f[First(u)] + SumFunctionOnSet(f, v)
  BY <1>2, <1>3, SumRest
<1>7. f[First(u)] \in Int
  BY <1>2, <1>4
<1> HIDE DEF v
<1> QED
  BY <1>2, <1>5, <1>6, <1>7

\* Any element may be added first.
LEMMA SumTake ==
    ASSUME NEW f, NEW S, IsFiniteSet(S), \A x \in S : f[x] \in Int, NEW e \in S
    PROVE  SumFunctionOnSet(f, S) = f[e] + SumFunctionOnSet(f, S \ {e})
<1> DEFINE N(u) == SumFunctionOnSet(f, u)
           B == {u \in SUBSET S : \E y \in u : N(u) # f[y] + N(u \ {y})}
<1> SUFFICES ASSUME B # {} PROVE FALSE
  <2>1. S \in SUBSET S
    OBVIOUS
  <2> QED
    BY <2>1
<1>0. B \subseteq SUBSET S
  OBVIOUS
<1>1. PICK u \in B : \A v \in B : v \subseteq u => v = u
  <2> HIDE DEF B
  <2> QED
    BY <1>0, SmallestSubset
<1>2. PICK y \in u : N(u) # f[y] + N(u \ {y})
  OBVIOUS
<1> DEFINE x == First(u)
           v == u \ {x}
           d == u \ {y}
           w == v \ {y}
<1>3. x \in u /\ u \in SUBSET S
  BY <1>2, FirstIsIn
<1>4. IsFiniteSet(u) /\ IsFiniteSet(v) /\ IsFiniteSet(w)
  BY <1>3, FS_Subset
<1>5. N(u) = f[x] + N(v)
  BY <1>2, <1>4, SumRest
<1>6. x # y
  BY <1>2, <1>5
<1>7. N(v) = f[y] + N(w)
  <2>1. y \in v /\ v \in SUBSET S /\ v \subseteq u /\ v # u
    BY <1>3, <1>6
  <2>2. v \notin B
    BY <1>1, <2>1
  <2> QED
    BY <2>1, <2>2
<1>8. N(d) = f[x] + N(w)
  <2>1. x \in d /\ d \in SUBSET S /\ d \subseteq u /\ d # u /\ d \ {x} = w
    BY <1>2, <1>3, <1>6
  <2>2. d \notin B
    BY <1>1, <2>1
  <2> QED
    BY <2>1, <2>2
<1>9. f[x] \in Int /\ f[y] \in Int /\ N(w) \in Int
  <2>1. \A z \in w : f[z] \in Int
    BY <1>3
  <2> HIDE DEF w
  <2>2. N(w) \in Int
    BY <1>4, <2>1, SumInt
  <2> QED
    BY <1>3, <2>2
<1> HIDE DEF x, v, d, w
<1>10. N(u) # f[y] + N(d)
  BY <1>2 DEF d
<1> HIDE DEF N
<1> QED
  BY <1>5, <1>7, <1>8, <1>9, <1>10

\* Only the values at the indices matter.
LEMMA SumSame ==
    ASSUME NEW f, NEW g, NEW S, IsFiniteSet(S), \A x \in S : f[x] = g[x]
    PROVE  SumFunctionOnSet(f, S) = SumFunctionOnSet(g, S)
<1> DEFINE B == {u \in SUBSET S : SumFunctionOnSet(f, u) # SumFunctionOnSet(g, u)}
<1> SUFFICES ASSUME B # {} PROVE FALSE
  OBVIOUS
<1>0. B \subseteq SUBSET S
  OBVIOUS
<1>1. PICK u \in B : \A v \in B : v \subseteq u => v = u
  <2> HIDE DEF B
  <2> QED
    BY <1>0, SmallestSubset
<1>2. u \in SUBSET S /\ SumFunctionOnSet(f, u) # SumFunctionOnSet(g, u)
  OBVIOUS
<1>3. IsFiniteSet(u) /\ u # {}
  BY <1>2, SumEmpty, FS_Subset
<1> DEFINE v == u \ {First(u)}
<1>4. First(u) \in u /\ v \in SUBSET S /\ v # u /\ v \subseteq u
  BY <1>2, <1>3, FirstIsIn
<1>5. SumFunctionOnSet(f, v) = SumFunctionOnSet(g, v)
  BY <1>1, <1>4
<1>6. SumFunctionOnSet(f, u) = f[First(u)] + SumFunctionOnSet(f, v)
  BY <1>3, SumRest
<1>7. SumFunctionOnSet(g, u) = g[First(u)] + SumFunctionOnSet(g, v)
  BY <1>3, SumRest
<1>8. f[First(u)] = g[First(u)]
  BY <1>2, <1>4
<1> HIDE DEF v
<1> QED
  BY <1>2, <1>5, <1>6, <1>7, <1>8

\* f and g differ at e only, and both have numbers throughout S.
DifferAt(f, g, S, e) ==
    /\ e \in S
    /\ \A x \in S : f[x] \in Int /\ g[x] \in Int
    /\ \A x \in S : x # e => g[x] = f[x]

\* When the values differ at one index only, so do the sums.
LEMMA SumChanged ==
    ASSUME NEW f, NEW g, NEW S, IsFiniteSet(S), NEW e, DifferAt(f, g, S, e)
    PROVE  SumFunctionOnSet(g, S) = SumFunctionOnSet(f, S) - f[e] + g[e]
<1> DEFINE R == S \ {e}
<1>0. e \in S /\ \A x \in S : f[x] \in Int /\ g[x] \in Int
  BY DEF DifferAt
<1>1. IsFiniteSet(R) /\ \A x \in R : x \in S /\ x # e
  BY FS_Subset
<1>2. SumFunctionOnSet(f, S) = f[e] + SumFunctionOnSet(f, R)
  BY <1>0, SumTake
<1>3. SumFunctionOnSet(g, S) = g[e] + SumFunctionOnSet(g, R)
  BY <1>0, SumTake
<1> HIDE DEF R
<1>4. SumFunctionOnSet(f, R) = SumFunctionOnSet(g, R)
  <2>1. \A x \in R : f[x] = g[x]
    BY <1>1 DEF DifferAt
  <2> QED
    BY <1>1, <2>1, SumSame
<1>5. SumFunctionOnSet(f, R) \in Int
  <2>1. \A x \in R : f[x] \in Int
    BY <1>0, <1>1
  <2> QED
    BY <1>1, <2>1, SumInt
<1> QED
  BY <1>0, <1>2, <1>3, <1>4, <1>5

\* A sum of nothing but zeros.
LEMMA SumZero ==
    ASSUME NEW f, NEW S, IsFiniteSet(S), \A x \in S : f[x] = 0
    PROVE  SumFunctionOnSet(f, S) = 0
<1> DEFINE B == {u \in SUBSET S : SumFunctionOnSet(f, u) # 0}
<1> SUFFICES ASSUME B # {} PROVE FALSE
  OBVIOUS
<1>0. B \subseteq SUBSET S
  OBVIOUS
<1>1. PICK u \in B : \A v \in B : v \subseteq u => v = u
  <2> HIDE DEF B
  <2> QED
    BY <1>0, SmallestSubset
<1>2. u \in SUBSET S /\ SumFunctionOnSet(f, u) # 0
  OBVIOUS
<1>3. IsFiniteSet(u) /\ u # {}
  BY <1>2, SumEmpty, FS_Subset
<1> DEFINE v == u \ {First(u)}
<1>4. First(u) \in u /\ v \in SUBSET S /\ v # u /\ v \subseteq u
  BY <1>2, <1>3, FirstIsIn
<1>5. SumFunctionOnSet(f, v) = 0
  BY <1>1, <1>4
<1>6. SumFunctionOnSet(f, u) = f[First(u)] + SumFunctionOnSet(f, v)
  BY <1>3, SumRest
<1>7. f[First(u)] = 0
  BY <1>2, <1>4
<1> HIDE DEF v
<1> QED
  BY <1>2, <1>5, <1>6, <1>7

\* One index, one value.
LEMMA SumOne ==
    ASSUME NEW f, NEW e, f[e] \in Int
    PROVE  SumFunctionOnSet(f, {e}) = f[e]
<1>1. IsFiniteSet({e}) /\ {e} \ {e} = {} /\ e \in {e}
  BY FS_Singleton
<1>2. SumFunctionOnSet(f, {e}) = f[e] + SumFunctionOnSet(f, {})
  BY <1>1, SumTake
<1> QED
  BY <1>2, SumEmpty

\* The same values under other names.
LEMMA SumRenamed ==
    ASSUME NEW S, IsFiniteSet(S), NEW f, NEW g, NEW h,
           \A x \in S : f[x] \in Int /\ g[h[x]] = f[x],
           \A x, y \in S : h[x] = h[y] => x = y
    PROVE  SumFunctionOnSet(g, {h[x] : x \in S}) = SumFunctionOnSet(f, S)
<1> DEFINE Image(u) == {h[x] : x \in u}
           B == {u \in SUBSET S : SumFunctionOnSet(g, Image(u)) # SumFunctionOnSet(f, u)}
<1> SUFFICES ASSUME B # {} PROVE FALSE
  <2>1. S \in SUBSET S
    OBVIOUS
  <2> QED
    BY <2>1
<1>0. B \subseteq SUBSET S
  OBVIOUS
<1>1. PICK u \in B : \A v \in B : v \subseteq u => v = u
  <2> HIDE DEF B
  <2> QED
    BY <1>0, SmallestSubset
<1>2. u \in SUBSET S /\ SumFunctionOnSet(g, Image(u)) # SumFunctionOnSet(f, u)
  OBVIOUS
<1>3. IsFiniteSet(u) /\ u # {}
  <2>1. IsFiniteSet(u)
    BY <1>2, FS_Subset
  <2>2. Image({}) = {}
    OBVIOUS
  <2> HIDE DEF Image
  <2> QED
    BY <1>2, <2>1, <2>2, SumEmpty
<1> DEFINE e == First(u)
           v == u \ {e}
<1>4. e \in u /\ v \in SUBSET S /\ v # u /\ v \subseteq u
  BY <1>2, <1>3, FirstIsIn
<1>5. SumFunctionOnSet(g, Image(v)) = SumFunctionOnSet(f, v)
  BY <1>1, <1>4
<1>6. SumFunctionOnSet(f, u) = f[e] + SumFunctionOnSet(f, v)
  BY <1>3, SumRest
<1>7. h[e] \in Image(u) /\ Image(u) \ {h[e]} = Image(v)
  BY <1>2, <1>4
<1>8. SumFunctionOnSet(g, Image(u)) = g[h[e]] + SumFunctionOnSet(g, Image(u) \ {h[e]})
  <2>1. IsFiniteSet(Image(u))
    <3> DEFINE k == [x \in u |-> h[x]]
    <3>1. k \in Surjection(u, Image(u))
      BY DEF Surjection
    <3> HIDE DEF k, Image
    <3> QED
      BY <1>3, <3>1, FS_Surjection
  <2>2. \A y \in Image(u) : g[y] \in Int
    BY <1>2
  <2> HIDE DEF Image, e
  <2> QED
    BY <1>7, <2>1, <2>2, SumTake
<1>9. g[h[e]] = f[e]
  BY <1>2, <1>4
<1> HIDE DEF Image, v, e
<1> QED
  BY <1>2, <1>5, <1>6, <1>7, <1>8, <1>9

-----------------------------------------------------------------------------
(* Sums over the positions of a sequence.                                  *)

LEMMA SumIsOnDomain ==
    ASSUME NEW f
    PROVE  SumFunction(f) = SumFunctionOnSet(f, DOMAIN f)
  BY DEF SumFunction

\* One more at the end.
LEMMA SumGrows ==
    ASSUME NEW n \in Nat, NEW f, NEW g,
           \A i \in 1 .. n : f[i] \in Int /\ g[i] = f[i], g[n + 1] \in Int
    PROVE  SumFunctionOnSet(g, 1 .. (n + 1)) = SumFunctionOnSet(f, 1 .. n) + g[n + 1]
<1> DEFINE S == 1 .. (n + 1)
           T == 1 .. n
<1>1. IsFiniteSet(S) /\ IsFiniteSet(T)
  BY FS_Interval
<1>2. n + 1 \in S /\ S \ {n + 1} = T
  OBVIOUS
<1>3. \A x \in S : g[x] \in Int
  OBVIOUS
<1>4. \A x \in T : f[x] \in Int /\ f[x] = g[x]
  OBVIOUS
<1> HIDE DEF S, T
<1>5. SumFunctionOnSet(g, S) = g[n + 1] + SumFunctionOnSet(g, T)
  BY <1>1, <1>2, <1>3, SumTake
<1>6. SumFunctionOnSet(f, T) = SumFunctionOnSet(g, T)
  BY <1>1, <1>4, SumSame
<1>7. SumFunctionOnSet(f, T) \in Int
  BY <1>1, <1>4, SumInt
<1> QED
  BY <1>5, <1>6, <1>7 DEF S, T

\* The first one gone.
LEMMA SumShrinks ==
    ASSUME NEW n \in Nat, n # 0, NEW f, NEW g,
           \A i \in 1 .. n : f[i] \in Int, \A i \in 1 .. (n - 1) : g[i] = f[i + 1]
    PROVE  SumFunctionOnSet(f, 1 .. n) = f[1] + SumFunctionOnSet(g, 1 .. (n - 1))
<1> DEFINE S == 1 .. n
           T == 1 .. (n - 1)
           U == 2 .. n
           h == [i \in T |-> i + 1]
<1>1. IsFiniteSet(S) /\ IsFiniteSet(T)
  BY FS_Interval
<1>2. 1 \in S /\ S \ {1} = U
  OBVIOUS
<1>3. {h[i] : i \in T} = U
  <2>1. \A i \in T : h[i] \in U
    OBVIOUS
  <2>2. ASSUME NEW j \in U
        PROVE  \E i \in T : h[i] = j
    <3>1. j - 1 \in T /\ h[j - 1] = j
      OBVIOUS
    <3> QED
      BY <3>1
  <2> HIDE DEF h, T, U
  <2> QED
    BY <2>1, <2>2
<1>4. \A i \in T : g[i] \in Int /\ f[h[i]] = g[i]
  OBVIOUS
<1>5. \A i, j \in T : h[i] = h[j] => i = j
  OBVIOUS
<1>6. \A i \in S : f[i] \in Int
  OBVIOUS
<1> HIDE DEF S, T, U, h
<1>7. SumFunctionOnSet(f, U) = SumFunctionOnSet(g, T)
  BY <1>1, <1>3, <1>4, <1>5, SumRenamed
<1>8. SumFunctionOnSet(f, S) = f[1] + SumFunctionOnSet(f, U)
  BY <1>1, <1>2, <1>6, SumTake
<1> QED
  BY <1>7, <1>8 DEF S, T

\* What the elements of a sequence are worth, in order.
Mapped(v, q) == [i \in DOMAIN q |-> v[q[i]]]

LEMMA MappedEmpty ==
    ASSUME NEW v
    PROVE  SumFunction(Mapped(v, <<>>)) = 0
<1>1. DOMAIN Mapped(v, <<>>) = {}
  BY DEF Mapped
<1> QED
  BY <1>1, SumIsOnDomain, SumEmpty

LEMMA MappedInt ==
    ASSUME NEW S, NEW v \in [S -> Int], NEW q \in Seq(S)
    PROVE  SumFunction(Mapped(v, q)) \in Int
<1>1. DOMAIN Mapped(v, q) = 1 .. Len(q) /\ IsFiniteSet(1 .. Len(q))
  BY FS_Interval DEF Mapped
<1>2. \A i \in 1 .. Len(q) : Mapped(v, q)[i] \in Int
  BY DEF Mapped
<1> QED
  BY <1>1, <1>2, SumInt, SumIsOnDomain

LEMMA MappedZero ==
    ASSUME NEW S, NEW v, NEW q \in Seq(S), \A i \in DOMAIN q : v[q[i]] = 0
    PROVE  SumFunction(Mapped(v, q)) = 0
<1>1. DOMAIN Mapped(v, q) = 1 .. Len(q) /\ IsFiniteSet(1 .. Len(q))
  BY FS_Interval DEF Mapped
<1>2. \A i \in 1 .. Len(q) : Mapped(v, q)[i] = 0
  BY DEF Mapped
<1> QED
  BY <1>1, <1>2, SumZero, SumIsOnDomain

LEMMA MappedAppend ==
    ASSUME NEW S, NEW v \in [S -> Int], NEW q \in Seq(S), NEW d \in S
    PROVE  SumFunction(Mapped(v, Append(q, d))) = SumFunction(Mapped(v, q)) + v[d]
<1> DEFINE n == Len(q)
           f == Mapped(v, q)
           g == Mapped(v, Append(q, d))
<1>1. n \in Nat /\ DOMAIN f = 1 .. n /\ DOMAIN g = 1 .. (n + 1)
  BY DEF Mapped
<1>2. \A i \in 1 .. n : f[i] \in Int /\ g[i] = f[i]
  BY DEF Mapped
<1>3. g[n + 1] = v[d] /\ v[d] \in Int
  BY DEF Mapped
<1> HIDE DEF n, f, g
<1>4. SumFunctionOnSet(g, 1 .. (n + 1)) = SumFunctionOnSet(f, 1 .. n) + g[n + 1]
  BY <1>1, <1>2, <1>3, SumGrows
<1>5. SumFunction(f) = SumFunctionOnSet(f, 1 .. n)
  BY <1>1, SumIsOnDomain
<1>6. SumFunction(g) = SumFunctionOnSet(g, 1 .. (n + 1))
  BY <1>1, SumIsOnDomain
<1> QED
  BY <1>3, <1>4, <1>5, <1>6 DEF f, g

LEMMA MappedTail ==
    ASSUME NEW S, NEW v \in [S -> Int], NEW q \in Seq(S), q # <<>>
    PROVE  SumFunction(Mapped(v, Tail(q))) = SumFunction(Mapped(v, q)) - v[Head(q)]
<1> DEFINE n == Len(q)
           f == Mapped(v, q)
           g == Mapped(v, Tail(q))
<1>1. /\ n \in Nat /\ n # 0
      /\ DOMAIN f = 1 .. n /\ DOMAIN g = 1 .. (n - 1)
  BY DEF Mapped
<1>2. \A i \in 1 .. n : f[i] \in Int
  BY DEF Mapped
<1>3. \A i \in 1 .. (n - 1) : g[i] = f[i + 1] /\ g[i] \in Int
  BY DEF Mapped
<1>4. f[1] = v[Head(q)] /\ f[1] \in Int
  BY DEF Mapped
<1>5. IsFiniteSet(1 .. (n - 1))
  BY <1>1, FS_Interval
<1> HIDE DEF n, f, g
<1>6. SumFunctionOnSet(f, 1 .. n) = f[1] + SumFunctionOnSet(g, 1 .. (n - 1))
  BY <1>1, <1>2, <1>3, SumShrinks
<1>7. SumFunctionOnSet(g, 1 .. (n - 1)) \in Int
  BY <1>3, <1>5, SumInt
<1>8. SumFunction(f) = SumFunctionOnSet(f, 1 .. n)
  BY <1>1, SumIsOnDomain
<1>9. SumFunction(g) = SumFunctionOnSet(g, 1 .. (n - 1))
  BY <1>1, SumIsOnDomain
<1> QED
  BY <1>4, <1>6, <1>7, <1>8, <1>9 DEF f, g

-----------------------------------------------------------------------------
(* Sums over the sequences of several senders.                             *)

AllMapped(v, n) == SumFunction([k \in DOMAIN n |-> SumFunction(Mapped(v, n[k]))])

LEMMA AllMappedEmpty ==
    ASSUME NEW K, IsFiniteSet(K), NEW v, NEW n, DOMAIN n = K, \A k \in K : n[k] = <<>>
    PROVE  AllMapped(v, n) = 0
<1> DEFINE f == [k \in DOMAIN n |-> SumFunction(Mapped(v, n[k]))]
<1>1. DOMAIN f = K /\ \A k \in K : f[k] = 0
  BY MappedEmpty
<1> HIDE DEF f
<1>2. SumFunctionOnSet(f, K) = 0
  BY <1>1, SumZero
<1> QED
  BY <1>1, <1>2, SumIsOnDomain DEF f, AllMapped

\* n holds, for every sender in K, a sequence of what v gives a worth to.
Valued(K, S, v, n) ==
    /\ IsFiniteSet(K)
    /\ v \in [S -> Int]
    /\ n \in [K -> Seq(S)]

LEMMA AllMappedInt ==
    ASSUME NEW K, NEW S, NEW v, NEW n, Valued(K, S, v, n)
    PROVE  AllMapped(v, n) \in Int
<1> DEFINE f == [k \in DOMAIN n |-> SumFunction(Mapped(v, n[k]))]
<1>1. DOMAIN f = K /\ \A k \in K : f[k] \in Int
  BY MappedInt DEF Valued
<1> HIDE DEF f
<1> QED
  BY <1>1, SumInt, SumIsOnDomain DEF f, AllMapped, Valued

\* One sender's sequence changes.
OneChanges(K, S, v, n, m, k) ==
    /\ k \in K
    /\ Valued(K, S, v, n)
    /\ Valued(K, S, v, m)
    /\ \A j \in K : j # k => m[j] = n[j]

LEMMA AllMappedChanged ==
    ASSUME NEW K, NEW S, NEW v, NEW n, NEW m, NEW k, OneChanges(K, S, v, n, m, k)
    PROVE  AllMapped(v, m)
              = AllMapped(v, n) - SumFunction(Mapped(v, n[k])) + SumFunction(Mapped(v, m[k]))
<1> DEFINE f == [j \in DOMAIN n |-> SumFunction(Mapped(v, n[j]))]
           g == [j \in DOMAIN m |-> SumFunction(Mapped(v, m[j]))]
<1>1. DOMAIN f = K /\ DOMAIN g = K
  BY DEF OneChanges, Valued
<1>2. \A j \in K : f[j] \in Int /\ g[j] \in Int
  BY MappedInt DEF OneChanges, Valued
<1>3. \A j \in K : j # k => g[j] = f[j]
  BY DEF OneChanges, Valued
<1>4. f[k] = SumFunction(Mapped(v, n[k])) /\ g[k] = SumFunction(Mapped(v, m[k]))
  BY DEF OneChanges, Valued
<1> HIDE DEF f, g
<1>5. DifferAt(f, g, K, k) /\ IsFiniteSet(K)
  BY <1>2, <1>3 DEF DifferAt, OneChanges, Valued
<1>6. SumFunctionOnSet(g, K) = SumFunctionOnSet(f, K) - f[k] + g[k]
  BY <1>5, SumChanged
<1>7. AllMapped(v, n) = SumFunctionOnSet(f, K) /\ AllMapped(v, m) = SumFunctionOnSet(g, K)
  BY <1>1, SumIsOnDomain DEF f, g, AllMapped
<1> QED
  BY <1>4, <1>6, <1>7

\* k's sequence gets d at its end.
Sends(K, S, v, n, m, k, d) ==
    /\ OneChanges(K, S, v, n, m, k)
    /\ d \in S /\ m[k] = Append(n[k], d)

LEMMA AllMappedAppend ==
    ASSUME NEW K, NEW S, NEW v, NEW n, NEW m, NEW k, NEW d, Sends(K, S, v, n, m, k, d)
    PROVE  AllMapped(v, m) = AllMapped(v, n) + v[d]
<1> DEFINE a == AllMapped(v, m)
           b == AllMapped(v, n)
           s == SumFunction(Mapped(v, n[k]))
           t == SumFunction(Mapped(v, m[k]))
           x == v[d]
<1>1. n[k] \in Seq(S) /\ v \in [S -> Int] /\ d \in S /\ x \in Int
  BY DEF Sends, OneChanges, Valued
<1>2. s \in Int /\ b \in Int
  BY <1>1, MappedInt, AllMappedInt DEF Sends, OneChanges
<1>3. t = s + x
  <2>1. SumFunction(Mapped(v, Append(n[k], d))) = SumFunction(Mapped(v, n[k])) + v[d]
    BY <1>1, MappedAppend DEF Sends
  <2> QED
    BY <2>1 DEF Sends
<1>4. a = b - s + t
  <2>1. OneChanges(K, S, v, n, m, k)
    BY DEF Sends
  <2> QED
    BY <2>1, AllMappedChanged
<1> HIDE DEF a, b, s, t, x
<1>5. a = b + x
  BY <1>1, <1>2, <1>3, <1>4
<1> QED
  BY <1>5 DEF a, b, x

\* k's sequence loses its first, d.
Takes(K, S, v, n, m, k, d) ==
    /\ OneChanges(K, S, v, n, m, k)
    /\ n[k] # <<>> /\ d = Head(n[k]) /\ m[k] = Tail(n[k])

LEMMA AllMappedTail ==
    ASSUME NEW K, NEW S, NEW v, NEW n, NEW m, NEW k, NEW d, Takes(K, S, v, n, m, k, d)
    PROVE  AllMapped(v, m) = AllMapped(v, n) - v[d]
<1> DEFINE a == AllMapped(v, m)
           b == AllMapped(v, n)
           s == SumFunction(Mapped(v, n[k]))
           t == SumFunction(Mapped(v, m[k]))
           x == v[d]
<1>1. n[k] \in Seq(S) /\ v \in [S -> Int] /\ d \in S /\ x \in Int
  BY DEF Takes, OneChanges, Valued
<1>2. s \in Int /\ b \in Int
  BY <1>1, MappedInt, AllMappedInt DEF Takes, OneChanges
<1>3. t = s - x
  <2>1. SumFunction(Mapped(v, Tail(n[k]))) = SumFunction(Mapped(v, n[k])) - v[d]
    BY <1>1, MappedTail DEF Takes
  <2> QED
    BY <2>1 DEF Takes
<1>4. a = b - s + t
  <2>1. OneChanges(K, S, v, n, m, k)
    BY DEF Takes
  <2> QED
    BY <2>1, AllMappedChanged
<1> HIDE DEF a, b, s, t, x
<1>5. a = b - x
  BY <1>1, <1>2, <1>3, <1>4
<1> QED
  BY <1>5 DEF a, b, x

\* Nobody but k has sent anything v gives a worth to.
LEMMA AllMappedOnly ==
    ASSUME NEW K, NEW S, NEW v, NEW n, Valued(K, S, v, n), NEW k \in K,
           \A j \in K \ {k} : \A i \in DOMAIN n[j] : v[n[j][i]] = 0
    PROVE  AllMapped(v, n) = SumFunction(Mapped(v, n[k]))
<1> DEFINE f == [j \in DOMAIN n |-> SumFunction(Mapped(v, n[j]))]
<1>1. DOMAIN f = K /\ IsFiniteSet(K) /\ IsFiniteSet(K \ {k})
  BY FS_Subset DEF Valued
<1>2. \A j \in K : f[j] \in Int
  BY MappedInt DEF Valued
<1>3. ASSUME NEW j \in K \ {k} PROVE f[j] = 0
  <2>1. n[j] \in Seq(S)
    BY DEF Valued
  <2>2. SumFunction(Mapped(v, n[j])) = 0
    BY <2>1, MappedZero
  <2> QED
    BY <2>2 DEF Valued
<1>4. f[k] = SumFunction(Mapped(v, n[k]))
  BY DEF Valued
<1> HIDE DEF f
<1>5. SumFunctionOnSet(f, K \ {k}) = 0
  BY <1>1, <1>3, SumZero
<1>6. SumFunctionOnSet(f, K) = f[k] + SumFunctionOnSet(f, K \ {k})
  BY <1>1, <1>2, SumTake
<1>7. SumFunctionOnSet(f, K) = f[k]
  BY <1>2, <1>5, <1>6
<1>8. AllMapped(v, n) = SumFunctionOnSet(f, K)
  BY <1>1, SumIsOnDomain DEF f, AllMapped
<1> QED
  BY <1>4, <1>7, <1>8

-----------------------------------------------------------------------------
(* A purse that takes the elements of a sequence one by one.               *)

Upto(v, q, i) == SumFunctionOnSet(Mapped(v, q), 1 .. i)

Bill(S, v, q) == v \in [S -> Int] /\ q \in Seq(S)

LEMMA UptoFacts ==
    ASSUME NEW S, NEW v, NEW q, Bill(S, v, q)
    PROVE  /\ \A i \in 0 .. Len(q) : Upto(v, q, i) \in Int
           /\ Upto(v, q, 0) = 0
           /\ Upto(v, q, Len(q)) = SumFunction(Mapped(v, q))
<1>1. DOMAIN Mapped(v, q) = 1 .. Len(q)
  BY DEF Mapped, Bill
<1>2. \A i \in 1 .. Len(q) : Mapped(v, q)[i] \in Int
  BY DEF Mapped, Bill
<1>3. ASSUME NEW i \in 0 .. Len(q) PROVE Upto(v, q, i) \in Int
  <2>1. IsFiniteSet(1 .. i) /\ 1 .. i \subseteq 1 .. Len(q)
    BY FS_Interval DEF Bill
  <2> QED
    BY <1>2, <2>1, SumInt DEF Upto
<1>4. 1 .. 0 = {}
  OBVIOUS
<1> QED
  BY <1>1, <1>3, <1>4, SumIsOnDomain, SumEmpty DEF Upto

LEMMA UptoOne ==
    ASSUME NEW S, NEW v, NEW q, Bill(S, v, q), q # <<>>
    PROVE  Upto(v, q, 1) = v[Head(q)]
<1>1. 1 .. 1 = {1} /\ Mapped(v, q)[1] = v[Head(q)] /\ v[Head(q)] \in Int
  BY DEF Mapped, Bill
<1> QED
  BY <1>1, SumOne DEF Upto

LEMMA UptoAppend ==
    ASSUME NEW S, NEW v, NEW q, Bill(S, v, q), NEW d \in S
    PROVE  /\ Bill(S, v, Append(q, d)) /\ Len(Append(q, d)) = Len(q) + 1
           /\ \A i \in 0 .. Len(q) : Upto(v, Append(q, d), i) = Upto(v, q, i)
           /\ Upto(v, Append(q, d), Len(q) + 1) = SumFunction(Mapped(v, q)) + v[d]
<1>1. Bill(S, v, Append(q, d)) /\ Len(Append(q, d)) = Len(q) + 1
  BY DEF Bill
<1>2. ASSUME NEW i \in 0 .. Len(q) PROVE Upto(v, Append(q, d), i) = Upto(v, q, i)
  <2>1. IsFiniteSet(1 .. i)
    BY FS_Interval DEF Bill
  <2>2. \A j \in 1 .. i : Mapped(v, Append(q, d))[j] = Mapped(v, q)[j]
    BY DEF Mapped, Bill
  <2> QED
    BY <2>1, <2>2, SumSame DEF Upto
<1>3. Upto(v, Append(q, d), Len(q) + 1) = SumFunction(Mapped(v, Append(q, d)))
  BY <1>1, UptoFacts
<1>4. SumFunction(Mapped(v, Append(q, d))) = SumFunction(Mapped(v, q)) + v[d]
  BY MappedAppend DEF Bill
<1> QED
  BY <1>1, <1>2, <1>3, <1>4

LEMMA UptoTail ==
    ASSUME NEW S, NEW v, NEW q, Bill(S, v, q), q # <<>>
    PROVE  \A i \in 0 .. (Len(q) - 1) :
              Upto(v, q, i + 1) = v[Head(q)] + Upto(v, Tail(q), i)
<1>1. Len(q) \in Nat /\ Len(q) # 0
  BY DEF Bill
<1>2. ASSUME NEW i \in 0 .. (Len(q) - 1)
      PROVE  Upto(v, q, i + 1) = v[Head(q)] + Upto(v, Tail(q), i)
  <2> DEFINE n == i + 1
             f == Mapped(v, q)
             g == Mapped(v, Tail(q))
  <2>1. n \in Nat /\ n # 0 /\ n - 1 = i
    BY <1>1
  <2>2. \A j \in 1 .. n : f[j] \in Int
    BY DEF Mapped, Bill
  <2>3. \A j \in 1 .. (n - 1) : g[j] = f[j + 1]
    BY DEF Mapped, Bill
  <2>4. f[1] = v[Head(q)]
    BY DEF Mapped, Bill
  <2> HIDE DEF n, f, g
  <2>5. SumFunctionOnSet(f, 1 .. n) = f[1] + SumFunctionOnSet(g, 1 .. (n - 1))
    BY <2>1, <2>2, <2>3, SumShrinks
  <2> QED
    BY <2>1, <2>4, <2>5 DEF Upto, f, g, n
<1> QED
  BY <1>1, <1>2

\* A purse with r in it can take them all, one after the other.
Solvent(S, v, q, r) ==
    /\ Bill(S, v, q) /\ r \in Int
    /\ \A i \in 0 .. Len(q) : r + Upto(v, q, i) >= 0

LEMMA SolventNow ==
    ASSUME NEW S, NEW v, NEW q, NEW r, Solvent(S, v, q, r)
    PROVE  r >= 0 /\ r + SumFunction(Mapped(v, q)) >= 0
<1>1. Bill(S, v, q) /\ r \in Int /\ Len(q) \in Nat
  BY DEF Solvent, Bill
<1>2. r + Upto(v, q, 0) >= 0 /\ r + Upto(v, q, Len(q)) >= 0
  BY <1>1 DEF Solvent
<1> QED
  BY <1>1, <1>2, UptoFacts

LEMMA SolventHead ==
    ASSUME NEW S, NEW v, NEW q, NEW r, Solvent(S, v, q, r), q # <<>>
    PROVE  r + v[Head(q)] >= 0
<1>1. Bill(S, v, q) /\ Len(q) \in Nat /\ Len(q) # 0
  BY DEF Solvent, Bill
<1>2. r + Upto(v, q, 1) >= 0
  BY <1>1 DEF Solvent
<1> QED
  BY <1>1, <1>2, UptoOne

LEMMA SolventAppend ==
    ASSUME NEW S, NEW v, NEW q, NEW r, Solvent(S, v, q, r), NEW d \in S,
           r + SumFunction(Mapped(v, q)) + v[d] >= 0
    PROVE  Solvent(S, v, Append(q, d), r)
<1> DEFINE t == SumFunction(Mapped(v, q))
           x == v[d]
           u == Append(q, d)
<1>1. Bill(S, v, q) /\ Len(q) \in Nat /\ r \in Int /\ x \in Int
  BY DEF Solvent, Bill
<1>2. t \in Int
  BY MappedInt DEF Solvent, Bill
<1>3. \A i \in 0 .. Len(q) : r + Upto(v, q, i) >= 0
  BY DEF Solvent
<1>4. Bill(S, v, u) /\ Len(u) = Len(q) + 1
  BY <1>1, UptoAppend
<1>5. \A i \in 0 .. Len(q) : Upto(v, u, i) = Upto(v, q, i)
  BY <1>1, UptoAppend
<1>6. Upto(v, u, Len(q) + 1) = t + x
  BY <1>1, UptoAppend
<1> HIDE DEF t, x, u
<1>7. r + (t + x) >= 0
  BY <1>1, <1>2 DEF t, x
<1>8. ASSUME NEW i \in 0 .. Len(u) PROVE r + Upto(v, u, i) >= 0
  <2>1. i \in 0 .. Len(q) \/ i = Len(q) + 1
    BY <1>1, <1>4
  <2> QED
    BY <1>3, <1>5, <1>6, <1>7, <2>1
<1> QED
  BY <1>1, <1>4, <1>8 DEF Solvent, u

LEMMA SolventTail ==
    ASSUME NEW S, NEW v, NEW q, NEW r, Solvent(S, v, q, r), q # <<>>,
           NEW s \in Int, s >= r + v[Head(q)]
    PROVE  Solvent(S, v, Tail(q), s)
<1> DEFINE x == v[Head(q)]
           u == Tail(q)
<1>1. Bill(S, v, q) /\ Len(q) \in Nat /\ r \in Int /\ x \in Int
  BY DEF Solvent, Bill
<1>2. Bill(S, v, u) /\ Len(u) = Len(q) - 1
  BY DEF Solvent, Bill
<1>3. \A i \in 0 .. (Len(q) - 1) : Upto(v, q, i + 1) = x + Upto(v, u, i)
  BY <1>1, UptoTail
<1>4. \A i \in 0 .. Len(q) : r + Upto(v, q, i) >= 0
  BY DEF Solvent
<1>5. \A i \in 0 .. Len(u) : Upto(v, u, i) \in Int
  BY <1>2, UptoFacts
<1> HIDE DEF x, u
<1>6. ASSUME NEW i \in 0 .. Len(u) PROVE s + Upto(v, u, i) >= 0
  <2>1. i \in 0 .. (Len(q) - 1) /\ i + 1 \in 0 .. Len(q)
    BY <1>1, <1>2
  <2>2. r + (x + Upto(v, u, i)) >= 0
    BY <1>3, <1>4, <2>1
  <2>3. s >= r + x
    BY DEF x
  <2>4. Upto(v, u, i) \in Int
    BY <1>5
  <2> QED
    BY <1>1, <2>2, <2>3, <2>4
<1> QED
  BY <1>2, <1>6 DEF Solvent, u

LEMMA SolventMore ==
    ASSUME NEW S, NEW v, NEW q, NEW r, Solvent(S, v, q, r), NEW s \in Int, s >= r
    PROVE  Solvent(S, v, q, s)
<1>1. Bill(S, v, q) /\ r \in Int
  BY DEF Solvent
<1>2. \A i \in 0 .. Len(q) : Upto(v, q, i) \in Int /\ r + Upto(v, q, i) >= 0
  BY <1>1, UptoFacts DEF Solvent
<1>3. \A i \in 0 .. Len(q) : s + Upto(v, q, i) >= 0
  BY <1>1, <1>2
<1> QED
  BY <1>1, <1>3 DEF Solvent

LEMMA SolventNone ==
    ASSUME NEW S, NEW v, NEW q, Bill(S, v, q), \A i \in DOMAIN q : v[q[i]] = 0,
           NEW r \in Int, r >= 0
    PROVE  Solvent(S, v, q, r)
<1>1. ASSUME NEW i \in 0 .. Len(q) PROVE Upto(v, q, i) = 0
  <2>1. IsFiniteSet(1 .. i) /\ 1 .. i \subseteq DOMAIN q
    BY FS_Interval DEF Bill
  <2>2. \A j \in 1 .. i : Mapped(v, q)[j] = 0
    BY <2>1 DEF Mapped
  <2> QED
    BY <2>1, <2>2, SumZero DEF Upto
<1>2. \A i \in 0 .. Len(q) : r + Upto(v, q, i) >= 0
  BY <1>1
<1> QED
  BY <1>2 DEF Solvent
=============================================================================
