-------------------------------- MODULE Sums ---------------------------------
(***************************************************************************)
(* Lemmas about SumFunctionOnSet, which the models use to count references *)
(* and bytes.  The community module adds the elements up in an order of    *)
(* its own; the lemmas say that the order is irrelevant.  They are proved  *)
(* by a smallest counterexample instead of by induction.                   *)
(***************************************************************************)
EXTENDS Integers, FiniteSets, Functions, FiniteSetTheorems, TLAPS

Any(s) == CHOOSE x \in s : TRUE

\* g adds up f over every subset of S.
Adds(f, S, g) ==
  g = [s \in SUBSET S |-> IF s = {} THEN 0 ELSE f[Any(s)] + g[s \ {Any(s)}]]

\* Every nonempty set of subsets of a finite set has a minimal element.
LEMMA LeastSubset ==
  ASSUME NEW S, IsFiniteSet(S), NEW B \in SUBSET (SUBSET S), B # {}
  PROVE  \E T \in B : \A U \in B : U \subseteq T => U = T
<1>1. IsWellFoundedOn(StrictSubsetOrdering(S), SUBSET S)
  BY FS_StrictSubsetOrderingWellFounded, FS_FiniteSubsetsOfFinite, Zenon
<1>2. PICK T \in B : \A U \in B : <<U, T>> \notin StrictSubsetOrdering(S)
  BY <1>1, WFMin, Zenon
<1>3. ASSUME NEW U \in B, U \subseteq T PROVE U = T
  BY <1>2, <1>3 DEF StrictSubsetOrdering
<1> QED
  BY <1>3

\* An element chosen from a nonempty set is in it.
LEMMA AnyIn == \A s : s # {} => Any(s) \in s
BY DEF Any

\* Two functions that add up f agree wherever both are defined.
LEMMA AddsUnique ==
  ASSUME NEW S, IsFiniteSet(S), NEW f, NEW g, NEW R \in SUBSET S, NEW h,
         Adds(f, S, g), Adds(f, R, h), NEW s \in SUBSET R
  PROVE  g[s] = h[s]
<1> DEFINE B == {u \in SUBSET R : g[u] # h[u]}
<1> SUFFICES ASSUME B # {} PROVE FALSE
  OBVIOUS
<1>1. PICK u \in B : \A v \in B : v \subseteq u => v = u
  <2>1. B \in SUBSET (SUBSET S)
    OBVIOUS
  <2> HIDE DEF B
  <2> QED
    BY <2>1, LeastSubset
<1>2. u \in SUBSET S /\ u \in SUBSET R
  OBVIOUS
<1>3. u # {}
  BY <1>2 DEF Adds
<1>4. u \ {Any(u)} \notin B /\ u \ {Any(u)} \in SUBSET R
  BY <1>1, <1>3, AnyIn
<1>5. g[u] = f[Any(u)] + g[u \ {Any(u)}] /\ h[u] = f[Any(u)] + h[u \ {Any(u)}]
  BY <1>2, <1>3 DEF Adds
<1> QED
  BY <1>4, <1>5

\* Over a finite set there is a function that adds up.
LEMMA AddsExists ==
  ASSUME NEW S, IsFiniteSet(S), NEW f
  PROVE  \E g : Adds(f, S, g)
<1> DEFINE B == {T \in SUBSET S : ~\E g : Adds(f, T, g)}
<1> SUFFICES ASSUME B # {} PROVE FALSE
  OBVIOUS
<1>1. PICK T \in B : \A U \in B : U \subseteq T => U = T
  <2>1. B \in SUBSET (SUBSET S)
    OBVIOUS
  <2> HIDE DEF B
  <2> QED
    BY <2>1, LeastSubset
<1> DEFINE G(s) == CHOOSE g : Adds(f, s, g)
<1> DEFINE h == [s \in SUBSET T |-> IF s = {} THEN 0
                                    ELSE f[Any(s)] + G(s \ {Any(s)})[s \ {Any(s)}]]
<1>2. ASSUME NEW s \in SUBSET T, s # T
      PROVE  Adds(f, s, G(s))
  <2>1. s \notin B /\ s \in SUBSET S
    BY <1>1, <1>2
  <2> QED
    BY <2>1
<1>3. ASSUME NEW s \in SUBSET T, s # T
      PROVE  h[s] = G(s)[s]
  <2>1. Adds(f, s, G(s)) /\ s \in SUBSET S /\ IsFiniteSet(s)
    BY <1>2, <1>3, FS_Subset
  <2>2. CASE s = {}
    <3>1. G(s)[s] = 0
      BY <2>1, <2>2 DEF Adds
    <3> QED
      BY <2>2, <3>1
  <2>3. CASE s # {}
    <3> DEFINE v == s \ {Any(s)}
    <3>1. v \in SUBSET T /\ v \in SUBSET s /\ v # T
      BY <1>3
    <3>2. Adds(f, v, G(v))
      BY <1>2, <3>1
    <3>3. G(s)[v] = G(v)[v]
      <4> HIDE DEF G, v
      <4> QED
        BY <2>1, <3>1, <3>2, AddsUnique
    <3>4. G(s)[s] = f[Any(s)] + G(s)[v]
      <4>1. G(s) = [w \in SUBSET s |-> IF w = {} THEN 0 ELSE f[Any(w)] + G(s)[w \ {Any(w)}]]
        BY <2>1 DEF Adds
      <4> HIDE DEF G
      <4> QED
        BY <2>3, <4>1
    <3> HIDE DEF G
    <3> QED
      BY <2>3, <3>3, <3>4
  <2> QED
    BY <2>2, <2>3
<1>4. ASSUME NEW s \in SUBSET T, s # {}
      PROVE  h[s \ {Any(s)}] = G(s \ {Any(s)})[s \ {Any(s)}]
  <2>1. s \ {Any(s)} \in SUBSET T /\ s \ {Any(s)} # T
    BY <1>4, AnyIn
  <2> QED
    BY <1>3, <2>1
<1>5. Adds(f, T, h)
  <2> HIDE DEF G
  <2>1. \A s \in SUBSET T :
          h[s] = IF s = {} THEN 0 ELSE f[Any(s)] + h[s \ {Any(s)}]
    BY <1>4
  <2> QED
    BY <2>1 DEF Adds
<1> QED
  BY <1>1, <1>5

\* The sum as the community module defines it.
LEMMA SumIsAdds ==
  ASSUME NEW S, NEW f
  PROVE  SumFunctionOnSet(f, S) = (CHOOSE g : Adds(f, S, g))[S]
BY DEF SumFunctionOnSet, FoldFunctionOnSet, MapThenFoldSet, Adds, Any

(***************************************************************************)
(* What the rest of the project uses                                       *)
(***************************************************************************)
\* Nothing adds up to 0.
LEMMA SumEmpty == \A f : SumFunctionOnSet(f, {}) = 0
<1> TAKE f
<1> DEFINE g == CHOOSE g : Adds(f, {}, g)
<1>1. Adds(f, {}, g)
  BY AddsExists, FS_EmptySet
<1>2. g[{}] = 0
  <2> HIDE DEF g
  <2> QED
    BY <1>1 DEF Adds
<1> QED
  BY <1>2, SumIsAdds

\* One step of the community module's own order.
LEMMA SumStep ==
  ASSUME NEW S, IsFiniteSet(S), S # {}, NEW f
  PROVE  SumFunctionOnSet(f, S) = f[Any(S)] + SumFunctionOnSet(f, S \ {Any(S)})
<1> DEFINE R == S \ {Any(S)}
           g == CHOOSE g : Adds(f, S, g)
           h == CHOOSE h : Adds(f, R, h)
<1>1. Adds(f, S, g)
  BY AddsExists
<1>2. IsFiniteSet(R) /\ R \in SUBSET S
  BY FS_Subset
<1>3. Adds(f, R, h)
  BY <1>2, AddsExists
<1>4. g[R] = h[R]
  <2> HIDE DEF g, h, R
  <2> QED
    BY <1>1, <1>2, <1>3, AddsUnique
<1>5. g[S] = f[Any(S)] + g[R]
  <2>1. g = [s \in SUBSET S |-> IF s = {} THEN 0 ELSE f[Any(s)] + g[s \ {Any(s)}]]
    BY <1>1 DEF Adds
  <2> HIDE DEF g
  <2> QED
    BY <2>1
<1>6. SumFunctionOnSet(f, S) = g[S] /\ SumFunctionOnSet(f, R) = h[R]
  BY SumIsAdds
<1> HIDE DEF g, h
<1> QED
  BY <1>4, <1>5, <1>6

\* A sum of integers is an integer.
LEMMA SumInt ==
  ASSUME NEW S, IsFiniteSet(S), NEW f, \A x \in S : f[x] \in Int
  PROVE  SumFunctionOnSet(f, S) \in Int
<1> DEFINE B == {T \in SUBSET S : SumFunctionOnSet(f, T) \notin Int}
<1> SUFFICES ASSUME B # {} PROVE FALSE
  OBVIOUS
<1>1. PICK T \in B : \A U \in B : U \subseteq T => U = T
  <2>1. B \in SUBSET (SUBSET S)
    OBVIOUS
  <2> HIDE DEF B
  <2> QED
    BY <2>1, LeastSubset
<1>2. T # {} /\ IsFiniteSet(T)
  <2>1. 0 \in Int
    OBVIOUS
  <2>2. SumFunctionOnSet(f, {}) \in Int
    BY <2>1, SumEmpty, Zenon
  <2> QED
    BY <2>2, FS_Subset
<1>3. Any(T) \in T /\ T \ {Any(T)} \notin B
  BY <1>1, <1>2, AnyIn
<1>4. SumFunctionOnSet(f, T) = f[Any(T)] + SumFunctionOnSet(f, T \ {Any(T)})
  BY <1>2, SumStep
<1>5. f[Any(T)] \in Int /\ SumFunctionOnSet(f, T \ {Any(T)}) \in Int
  BY <1>3
<1> QED
  BY <1>4, <1>5

\* Any element may be the one that is added last.
LEMMA SumRemove ==
  ASSUME NEW S, IsFiniteSet(S), NEW f, \A x \in S : f[x] \in Int, NEW x \in S
  PROVE  SumFunctionOnSet(f, S) = f[x] + SumFunctionOnSet(f, S \ {x})
<1> DEFINE P(T) == \A y \in T : SumFunctionOnSet(f, T) = f[y] + SumFunctionOnSet(f, T \ {y})
           B == {T \in SUBSET S : ~P(T)}
<1> SUFFICES ASSUME B # {} PROVE FALSE
  OBVIOUS
<1>1. PICK T \in B : \A U \in B : U \subseteq T => U = T
  <2>1. B \in SUBSET (SUBSET S)
    OBVIOUS
  <2> HIDE DEF B
  <2> QED
    BY <2>1, LeastSubset
<1>2. PICK y \in T : SumFunctionOnSet(f, T) # f[y] + SumFunctionOnSet(f, T \ {y})
  OBVIOUS
<1> DEFINE a == Any(T)
<1>3. a \in T /\ IsFiniteSet(T)
  BY <1>2, AnyIn, FS_Subset
<1>4. SumFunctionOnSet(f, T) = f[a] + SumFunctionOnSet(f, T \ {a})
  BY <1>2, <1>3, SumStep
<1>5. a # y
  BY <1>2, <1>4
<1> HIDE DEF a
<1>6. P(T \ {a}) /\ P(T \ {y})
  <2>1. T \ {a} \notin B /\ T \ {y} \notin B
    BY <1>1, <1>2, <1>3
  <2> QED
    BY <2>1
<1>7. /\ SumFunctionOnSet(f, T \ {a}) = f[y] + SumFunctionOnSet(f, (T \ {a}) \ {y})
      /\ SumFunctionOnSet(f, T \ {y}) = f[a] + SumFunctionOnSet(f, (T \ {y}) \ {a})
  BY <1>3, <1>5, <1>6
<1>8. (T \ {a}) \ {y} = (T \ {y}) \ {a}
  OBVIOUS
<1>9. f[y] \in Int /\ f[a] \in Int /\ SumFunctionOnSet(f, (T \ {y}) \ {a}) \in Int
  <2>1. IsFiniteSet((T \ {y}) \ {a}) /\ (T \ {y}) \ {a} \subseteq S
    BY FS_Subset
  <2>2. SumFunctionOnSet(f, (T \ {y}) \ {a}) \in Int
    BY <2>1, SumInt
  <2> QED
    BY <1>3, <2>2
<1>10. SumFunctionOnSet(f, T) = f[y] + SumFunctionOnSet(f, T \ {y})
  <2> DEFINE r == SumFunctionOnSet(f, (T \ {y}) \ {a})
  <2>1. SumFunctionOnSet(f, T) = f[a] + (f[y] + r)
    BY <1>4, <1>7, <1>8
  <2>2. f[y] + SumFunctionOnSet(f, T \ {y}) = f[y] + (f[a] + r)
    BY <1>7
  <2>3. f[y] \in Int /\ f[a] \in Int /\ r \in Int
    BY <1>9
  <2> HIDE DEF r
  <2> QED
    BY <2>1, <2>2, <2>3
<1> QED
  BY <1>2, <1>10

\* Functions that agree on a set have the same sum over it.
LEMMA SumAgree ==
  ASSUME NEW S, IsFiniteSet(S), NEW f, NEW g, \A x \in S : f[x] = g[x]
  PROVE  SumFunctionOnSet(f, S) = SumFunctionOnSet(g, S)
<1> DEFINE B == {T \in SUBSET S : SumFunctionOnSet(f, T) # SumFunctionOnSet(g, T)}
<1> SUFFICES ASSUME B # {} PROVE FALSE
  OBVIOUS
<1>1. PICK T \in B : \A U \in B : U \subseteq T => U = T
  <2>1. B \in SUBSET (SUBSET S)
    OBVIOUS
  <2> HIDE DEF B
  <2> QED
    BY <2>1, LeastSubset
<1>2. T # {} /\ IsFiniteSet(T)
  BY SumEmpty, FS_Subset
<1>3. Any(T) \in T /\ T \ {Any(T)} \notin B
  BY <1>1, <1>2, AnyIn
<1>4. SumFunctionOnSet(f, T) = f[Any(T)] + SumFunctionOnSet(f, T \ {Any(T)})
  BY <1>2, SumStep
<1>5. SumFunctionOnSet(g, T) = g[Any(T)] + SumFunctionOnSet(g, T \ {Any(T)})
  BY <1>2, SumStep
<1>6. SumFunctionOnSet(f, T \ {Any(T)}) = SumFunctionOnSet(g, T \ {Any(T)})
  BY <1>3
<1>7. f[Any(T)] = g[Any(T)]
  BY <1>3
<1> QED
  BY <1>4, <1>5, <1>6, <1>7

\* The sum follows a change of one element.
LEMMA SumUpdate ==
  ASSUME NEW S, IsFiniteSet(S), NEW f, NEW g, NEW x \in S,
         \A y \in S : f[y] \in Int, g[x] \in Int, \A y \in S \ {x} : f[y] = g[y]
  PROVE  SumFunctionOnSet(g, S) = SumFunctionOnSet(f, S) - f[x] + g[x]
<1> DEFINE R == S \ {x}
<1>1. IsFiniteSet(R) /\ \A y \in R : f[y] \in Int /\ f[y] = g[y]
  BY FS_Subset
<1>2. \A y \in S : g[y] \in Int
  BY <1>1
<1>3. SumFunctionOnSet(f, S) = f[x] + SumFunctionOnSet(f, R)
  BY SumRemove
<1>4. SumFunctionOnSet(g, S) = g[x] + SumFunctionOnSet(g, R)
  BY <1>2, SumRemove
<1> HIDE DEF R
<1>5. SumFunctionOnSet(f, R) = SumFunctionOnSet(g, R)
  BY <1>1, SumAgree
<1>6. SumFunctionOnSet(f, R) \in Int /\ f[x] \in Int
  BY <1>1, SumInt
<1> QED
  BY <1>3, <1>4, <1>5, <1>6

\* A sum of naturals is a natural, and no less than any of them.
LEMMA SumNat ==
  ASSUME NEW S, IsFiniteSet(S), NEW f, \A x \in S : f[x] \in Nat
  PROVE  /\ SumFunctionOnSet(f, S) \in Nat
         /\ \A x \in S : f[x] <= SumFunctionOnSet(f, S)
<1> DEFINE B == {T \in SUBSET S : SumFunctionOnSet(f, T) \notin Nat}
<1>1. B = {}
  <2> SUFFICES ASSUME B # {} PROVE FALSE
    OBVIOUS
  <2>1. PICK T \in B : \A U \in B : U \subseteq T => U = T
    <3>1. B \in SUBSET (SUBSET S)
      OBVIOUS
    <3> HIDE DEF B
    <3> QED
      BY <3>1, LeastSubset
  <2>2. T # {} /\ IsFiniteSet(T)
    <3>1. 0 \in Nat
      OBVIOUS
    <3>2. SumFunctionOnSet(f, {}) \in Nat
      BY <3>1, SumEmpty, Zenon
    <3> QED
      BY <3>2, FS_Subset
  <2>3. Any(T) \in T /\ T \ {Any(T)} \notin B
    BY <2>1, <2>2, AnyIn
  <2>4. SumFunctionOnSet(f, T) = f[Any(T)] + SumFunctionOnSet(f, T \ {Any(T)})
    BY <2>2, SumStep
  <2>5. f[Any(T)] \in Nat /\ SumFunctionOnSet(f, T \ {Any(T)}) \in Nat
    BY <2>3
  <2> QED
    BY <2>4, <2>5
<1>2. ASSUME NEW x \in S PROVE f[x] <= SumFunctionOnSet(f, S)
  <2>1. SumFunctionOnSet(f, S) = f[x] + SumFunctionOnSet(f, S \ {x})
    <3>1. \A y \in S : f[y] \in Int
      OBVIOUS
    <3> QED
      BY <3>1, SumRemove
  <2>2. S \ {x} \notin B /\ S \notin B
    BY <1>1
  <2>3. SumFunctionOnSet(f, S \ {x}) \in Nat /\ f[x] \in Nat
    BY <2>2
  <2> QED
    BY <2>1, <2>3
<1> QED
  BY <1>1, <1>2

\* Zeroes add up to 0.
LEMMA SumZero ==
  ASSUME NEW S, IsFiniteSet(S), NEW f, \A x \in S : f[x] = 0
  PROVE  SumFunctionOnSet(f, S) = 0
<1> DEFINE B == {T \in SUBSET S : SumFunctionOnSet(f, T) # 0}
<1> SUFFICES ASSUME B # {} PROVE FALSE
  OBVIOUS
<1>1. PICK T \in B : \A U \in B : U \subseteq T => U = T
  <2>1. B \in SUBSET (SUBSET S)
    OBVIOUS
  <2> HIDE DEF B
  <2> QED
    BY <2>1, LeastSubset
<1>2. T # {} /\ IsFiniteSet(T)
  BY SumEmpty, FS_Subset
<1>3. Any(T) \in T /\ T \ {Any(T)} \notin B
  BY <1>1, <1>2, AnyIn
<1>4. SumFunctionOnSet(f, T) = f[Any(T)] + SumFunctionOnSet(f, T \ {Any(T)})
  BY <1>2, SumStep
<1>5. f[Any(T)] = 0 /\ SumFunctionOnSet(f, T \ {Any(T)}) = 0
  BY <1>3
<1> QED
  BY <1>4, <1>5

\* The sum of a sequence of numbers, one element longer.
LEMMA SumUpto ==
  ASSUME NEW n \in Nat, NEW f, \A i \in 1 .. n + 1 : f[i] \in Nat
  PROVE  SumFunctionOnSet(f, 1 .. n + 1) = SumFunctionOnSet(f, 1 .. n) + f[n + 1]
<1>1. IsFiniteSet(1 .. n + 1) /\ n + 1 \in 1 .. n + 1 /\ (1 .. n + 1) \ {n + 1} = 1 .. n
  BY FS_Interval
<1>2. IsFiniteSet(1 .. n) /\ \A i \in 1 .. n : f[i] \in Int
  BY FS_Interval
<1>3. SumFunctionOnSet(f, 1 .. n) \in Int
  BY <1>2, SumInt
<1>4. SumFunctionOnSet(f, 1 .. n + 1) = f[n + 1] + SumFunctionOnSet(f, (1 .. n + 1) \ {n + 1})
  <2>1. \A i \in 1 .. n + 1 : f[i] \in Int
    OBVIOUS
  <2> QED
    BY <1>1, <2>1, SumRemove
<1>5. f[n + 1] \in Int
  BY <1>1
<1>6. SumFunctionOnSet(f, 1 .. n + 1) = f[n + 1] + SumFunctionOnSet(f, 1 .. n)
  BY <1>1, <1>4, Zenon
<1> QED
  BY <1>3, <1>5, <1>6

\* The sum over a part of a set is no more than the sum over the set.
LEMMA SumSubset ==
  ASSUME NEW S, IsFiniteSet(S), NEW f, \A x \in S : f[x] \in Nat, NEW T \in SUBSET S
  PROVE  SumFunctionOnSet(f, T) <= SumFunctionOnSet(f, S)
<1> DEFINE B == {R \in SUBSET S : T \subseteq R /\ ~(SumFunctionOnSet(f, T) <= SumFunctionOnSet(f, R))}
<1> SUFFICES ASSUME B # {} PROVE FALSE
  OBVIOUS
<1>1. PICK R \in B : \A U \in B : U \subseteq R => U = R
  <2>1. B \in SUBSET (SUBSET S)
    OBVIOUS
  <2> HIDE DEF B
  <2> QED
    BY <2>1, LeastSubset
<1>2. R \in SUBSET S /\ T \subseteq R /\ IsFiniteSet(R) /\ IsFiniteSet(T)
  BY FS_Subset
<1>3. /\ SumFunctionOnSet(f, R) \in Nat /\ SumFunctionOnSet(f, T) \in Nat
      /\ \A x \in R : f[x] \in Int /\ f[x] \in Nat
  <2>1. (\A x \in R : f[x] \in Nat /\ f[x] \in Int) /\ \A x \in T : f[x] \in Nat
    BY <1>2
  <2> QED
    BY <1>2, <2>1, SumNat
<1>4. R # T
  BY <1>3
<1>5. PICK x \in R : x \notin T
  BY <1>2, <1>4
<1>6. SumFunctionOnSet(f, R) = f[x] + SumFunctionOnSet(f, R \ {x})
  BY <1>2, <1>3, SumRemove
<1>7. R \ {x} \in SUBSET S /\ T \subseteq R \ {x} /\ R \ {x} \notin B
  BY <1>1, <1>2, <1>5
<1>8. SumFunctionOnSet(f, T) <= SumFunctionOnSet(f, R \ {x})
  BY <1>7
<1>9. SumFunctionOnSet(f, R \ {x}) \in Nat /\ f[x] \in Nat
  <2>1. IsFiniteSet(R \ {x}) /\ \A y \in R \ {x} : f[y] \in Nat
    BY <1>2, <1>3, FS_Subset
  <2>2. SumFunctionOnSet(f, R \ {x}) \in Nat
    <3> HIDE DEF B
    <3> QED
      BY <2>1, SumNat
  <2> QED
    BY <1>3, <2>2
<1>10. SumFunctionOnSet(f, T) <= SumFunctionOnSet(f, R)
  BY <1>3, <1>6, <1>8, <1>9
<1> QED
  BY <1>10
=============================================================================
