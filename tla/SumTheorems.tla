---------------------------- MODULE SumTheorems ----------------------------
(* What SumFunctionOnSet of the community modules computes, for finite     *)
(* sets: its recursive definition has a solution, the solution is unique,  *)
(* and it does not depend on the order in which elements are chosen.  The  *)
(* inductions are arguments about a minimal counterexample.                *)
EXTENDS Integers, Functions, FiniteSetsExt, FiniteSetTheorems, TLAPS

-----------------------------------------------------------------------------
(* Induction over finite sets.                                             *)

\* A set G of subsets of S that contains the empty set, and a set as soon as it
\* contains the set without one of its elements, contains S.
LEMMA SetInduction ==
    ASSUME NEW S, IsFiniteSet(S), NEW G, {} \in G,
           \A t \in SUBSET S : t # {} /\ (\A x \in t : t \ {x} \in G) => t \in G
    PROVE  S \in G
<1> DEFINE T == {t \in SUBSET S : t \notin G}
<1>1. IsWellFoundedOn(StrictSubsetOrdering(S), FiniteSubsetsOf(S))
  BY FS_StrictSubsetOrderingWellFounded
<1>2. T \subseteq FiniteSubsetsOf(S)
  BY FS_Subset DEF FiniteSubsetsOf
<1>3. ASSUME S \notin G PROVE FALSE
  <2>1. T # {}
    BY <1>3
  <2> HIDE DEF T
  <2>2. \E t \in T : \A u \in T : ~ (<<u, t>> \in StrictSubsetOrdering(S))
    BY <1>1, <1>2, <2>1, WFMin
  <2>3. PICK t \in T : \A u \in T : u \subseteq t => u = t
    BY <2>2 DEF StrictSubsetOrdering, T
  <2>4. t \in SUBSET S /\ t \notin G /\ t # {}
    BY <2>3 DEF T
  <2>5. PICK x \in t : t \ {x} \notin G
    BY <2>4
  <2>6. t \ {x} \in T /\ t \ {x} # t
    BY <2>4, <2>5 DEF T
  <2> QED
    BY <2>3, <2>6
<1> QED
  BY <1>3

-----------------------------------------------------------------------------
(* The recursive function inside of SumFunctionOnSet.                      *)

First(s) == CHOOSE x \in s : TRUE

IsSum(g, f, S) ==
    g = [s \in SUBSET S |-> IF s = {} THEN 0 ELSE f[First(s)] + g[s \ {First(s)}]]

LEMMA FirstIn == ASSUME NEW s, s # {} PROVE First(s) \in s
  BY DEF First

LEMMA SumUnique ==
    ASSUME NEW f, NEW A, NEW B, NEW g, NEW h, IsSum(g, f, A), IsSum(h, f, B),
           NEW S, S \subseteq A, S \subseteq B, IsFiniteSet(S)
    PROVE  g[S] = h[S]
<1> DEFINE G == {s \in SUBSET S : g[s] = h[s]}
<1>1. \A s \in SUBSET S :
          /\ g[s] = IF s = {} THEN 0 ELSE f[First(s)] + g[s \ {First(s)}]
          /\ h[s] = IF s = {} THEN 0 ELSE f[First(s)] + h[s \ {First(s)}]
  BY DEF IsSum
<1>2. {} \in G
  BY <1>1
<1>3. ASSUME NEW t \in SUBSET S, t # {}, \A x \in t : t \ {x} \in G
      PROVE  t \in G
  <2>1. t \ {First(t)} \in G
    BY <1>3, FirstIn
  <2> QED
    BY <1>1, <1>3, <2>1
<1> HIDE DEF G
<1>4. S \in G
  BY <1>2, <1>3, SetInduction
<1> QED
  BY <1>4 DEF G

LEMMA SumExists ==
    ASSUME NEW f, NEW S, IsFiniteSet(S)
    PROVE  \E g : IsSum(g, f, S)
<1> DEFINE G == {s \in SUBSET S : \E g : IsSum(g, f, s)}
           It(s) == CHOOSE g : IsSum(g, f, s)
<1>1. {} \in G
  <2> DEFINE z == [s \in SUBSET {} |-> 0]
  <2>1. IsSum(z, f, {})
    BY DEF IsSum
  <2> QED
    BY <2>1
<1>2. ASSUME NEW t \in SUBSET S, t # {}, \A x \in t : t \ {x} \in G
      PROVE  t \in G
  <2> DEFINE g == [s \in SUBSET t |-> IF s = {} THEN 0
                       ELSE f[First(s)] + It(s \ {First(s)})[s \ {First(s)}]]
  <2>1. \A s \in SUBSET t : s # t => s \in G
    <3> SUFFICES ASSUME NEW s \in SUBSET t, s # t PROVE s \in G
      OBVIOUS
    <3>1. PICK x \in t : x \notin s
      OBVIOUS
    <3>2. PICK k : IsSum(k, f, t \ {x})
      BY <1>2
    <3> DEFINE l == [u \in SUBSET s |-> k[u]]
    <3>3. \A u \in SUBSET s : u \in SUBSET (t \ {x})
      BY <3>1
    <3>4. \A u \in SUBSET s : k[u] = IF u = {} THEN 0 ELSE f[First(u)] + k[u \ {First(u)}]
      BY <3>2, <3>3 DEF IsSum
    <3>5. \A u \in SUBSET s : u \ {First(u)} \in SUBSET s
      OBVIOUS
    <3>6. IsSum(l, f, s)
      BY <3>4, <3>5 DEF IsSum
    <3> HIDE DEF l
    <3> QED
      BY <3>6
  <2>2. \A s \in SUBSET t : s # t => IsSum(It(s), f, s)
    BY <2>1
  <2>3. ASSUME NEW s \in SUBSET t, s # {}
        PROVE  It(s \ {First(s)})[s \ {First(s)}] = g[s \ {First(s)}]
    <3> DEFINE r == s \ {First(s)}
    <3>1. First(s) \in s
      BY <2>3, FirstIn
    <3>2. r \in SUBSET t /\ r # t
      BY <3>1
    <3>3. IsSum(It(r), f, r)
      BY <2>2, <3>2
    <3> DEFINE i == It(r)
    <3> HIDE DEF i
    <3>4. i[r] = IF r = {} THEN 0 ELSE f[First(r)] + i[r \ {First(r)}]
      BY <3>3 DEF IsSum, i
    <3>5. CASE r = {}
      BY <3>4, <3>5 DEF i
    <3>6. CASE r # {}
      <4> DEFINE q == r \ {First(r)}
      <4>1. q \in SUBSET t /\ q # t /\ q \subseteq r /\ IsFiniteSet(q)
        <5>1. IsFiniteSet(t)
          BY FS_Subset
        <5> QED
          BY <3>2, <5>1, FS_Subset, FirstIn, <3>6
      <4>2. IsSum(It(q), f, q)
        BY <2>2, <4>1
      <4>3. IsSum(i, f, r)
        BY <3>3 DEF i
      <4>4. i[q] = It(q)[q]
        <5> DEFINE j == It(q)
        <5> HIDE DEF j, q, r
        <5>1. IsSum(j, f, q)
          BY <4>2 DEF j
        <5>2. i[q] = j[q]
          BY <4>1, <4>3, <5>1, SumUnique
        <5> QED
          BY <5>2 DEF j
      <4>5. g[r] = f[First(r)] + It(q)[q]
        BY <3>2, <3>6
      <4> QED
        BY <3>4, <3>6, <4>4, <4>5 DEF i
    <3> QED
      BY <3>5, <3>6
  <2>4. g = [s \in SUBSET t |-> IF s = {} THEN 0 ELSE f[First(s)] + g[s \ {First(s)}]]
    <3>1. \A s \in SUBSET t :
              g[s] = IF s = {} THEN 0 ELSE f[First(s)] + It(s \ {First(s)})[s \ {First(s)}]
      OBVIOUS
    <3>2. \A s \in SUBSET t : s # {} =>
              It(s \ {First(s)})[s \ {First(s)}] = g[s \ {First(s)}]
      BY <2>3
    <3>3. g = [s \in SUBSET t |-> g[s]]
      OBVIOUS
    <3> HIDE DEF g, It
    <3>4. \A s \in SUBSET t :
              g[s] = IF s = {} THEN 0 ELSE f[First(s)] + g[s \ {First(s)}]
      BY <3>1, <3>2
    <3> QED
      BY <3>3, <3>4
  <2>5. IsSum(g, f, t)
    BY <2>4 DEF IsSum
  <2> HIDE DEF g
  <2> QED
    BY <2>5
<1> HIDE DEF G
<1>3. S \in G
  BY <1>1, <1>2, SetInduction
<1> QED
  BY <1>3 DEF G

LEMMA SumIs ==
    ASSUME NEW f, NEW S, IsFiniteSet(S)
    PROVE  \E g : IsSum(g, f, S) /\ SumFunctionOnSet(f, S) = g[S]
<1> DEFINE g == CHOOSE g : g = [s \in SUBSET S |->
                                   IF s = {} THEN 0 ELSE f[First(s)] + g[s \ {First(s)}]]
<1>1. SumFunctionOnSet(f, S) = g[S]
  BY DEF SumFunctionOnSet, FoldFunctionOnSet, MapThenFoldSet, First
<1>2. \E k : k = [s \in SUBSET S |->
                     IF s = {} THEN 0 ELSE f[First(s)] + k[s \ {First(s)}]]
  <2>1. PICK k : IsSum(k, f, S)
    BY SumExists
  <2> QED
    BY <2>1 DEF IsSum
<1>3. g = [s \in SUBSET S |-> IF s = {} THEN 0 ELSE f[First(s)] + g[s \ {First(s)}]]
  BY <1>2
<1>4. IsSum(g, f, S)
  BY <1>3 DEF IsSum
<1> HIDE DEF g
<1> QED
  BY <1>1, <1>4

-----------------------------------------------------------------------------
(* Sums.                                                                   *)

\* The empty sum.
THEOREM SumEmpty == ASSUME NEW f PROVE SumFunctionOnSet(f, {}) = 0
<1>1. IsFiniteSet({})
  BY FS_EmptySet
<1>2. PICK g : IsSum(g, f, {}) /\ SumFunctionOnSet(f, {}) = g[{}]
  BY <1>1, SumIs
<1> QED
  BY <1>2 DEF IsSum

\* The first element and the rest.
LEMMA SumFirst ==
    ASSUME NEW f, NEW S, IsFiniteSet(S), S # {}
    PROVE  SumFunctionOnSet(f, S) = f[First(S)] + SumFunctionOnSet(f, S \ {First(S)})
<1> DEFINE R == S \ {First(S)}
<1>1. R \subseteq S /\ R \in SUBSET S
  OBVIOUS
<1>2. IsFiniteSet(R)
  BY <1>1, FS_Subset
<1> HIDE DEF R
<1>3. PICK g : IsSum(g, f, S) /\ SumFunctionOnSet(f, S) = g[S]
  BY SumIs
<1>4. PICK h : IsSum(h, f, R) /\ SumFunctionOnSet(f, R) = h[R]
  BY <1>2, SumIs
<1>5. g[R] = h[R]
  BY <1>1, <1>2, <1>3, <1>4, SumUnique
<1>6. g[S] = f[First(S)] + g[R]
  BY <1>3 DEF IsSum, R
<1> QED
  BY <1>3, <1>4, <1>5, <1>6 DEF R

\* A sum depends on the summands only.
THEOREM SumSame ==
    ASSUME NEW f, NEW g, NEW S, IsFiniteSet(S), \A x \in S : f[x] = g[x]
    PROVE  SumFunctionOnSet(f, S) = SumFunctionOnSet(g, S)
<1> DEFINE G == {s \in SUBSET S : SumFunctionOnSet(f, s) = SumFunctionOnSet(g, s)}
<1>1. {} \in G
  BY SumEmpty
<1>2. ASSUME NEW t \in SUBSET S, t # {}, \A x \in t : t \ {x} \in G
      PROVE  t \in G
  <2>1. First(t) \in t /\ IsFiniteSet(t)
    BY <1>2, FirstIn, FS_Subset
  <2>2. t \ {First(t)} \in G
    BY <1>2, <2>1
  <2>3. /\ SumFunctionOnSet(f, t) = f[First(t)] + SumFunctionOnSet(f, t \ {First(t)})
        /\ SumFunctionOnSet(g, t) = g[First(t)] + SumFunctionOnSet(g, t \ {First(t)})
    BY <1>2, <2>1, SumFirst
  <2> QED
    BY <2>1, <2>2, <2>3
<1> HIDE DEF G
<1>3. S \in G
  BY <1>1, <1>2, SetInduction
<1> QED
  BY <1>3 DEF G

\* A sum of integers is one.
THEOREM SumInt ==
    ASSUME NEW f, NEW S, IsFiniteSet(S), \A x \in S : f[x] \in Int
    PROVE  SumFunctionOnSet(f, S) \in Int
<1> DEFINE G == {s \in SUBSET S : SumFunctionOnSet(f, s) \in Int}
<1>1. {} \in G
  BY SumEmpty
<1>2. ASSUME NEW t \in SUBSET S, t # {}, \A x \in t : t \ {x} \in G
      PROVE  t \in G
  <2>1. First(t) \in t /\ IsFiniteSet(t)
    BY <1>2, FirstIn, FS_Subset
  <2>2. t \ {First(t)} \in G
    BY <1>2, <2>1
  <2>3. SumFunctionOnSet(f, t) = f[First(t)] + SumFunctionOnSet(f, t \ {First(t)})
    BY <1>2, <2>1, SumFirst
  <2> QED
    BY <2>1, <2>2, <2>3
<1> HIDE DEF G
<1>3. S \in G
  BY <1>1, <1>2, SetInduction
<1> QED
  BY <1>3 DEF G

\* Any element and the rest.
THEOREM SumRemove ==
    ASSUME NEW f, NEW S, IsFiniteSet(S), \A x \in S : f[x] \in Int, NEW e \in S
    PROVE  SumFunctionOnSet(f, S) = f[e] + SumFunctionOnSet(f, S \ {e})
<1> DEFINE G == {s \in SUBSET S : \A x \in s :
                     SumFunctionOnSet(f, s) = f[x] + SumFunctionOnSet(f, s \ {x})}
<1>1. {} \in G
  OBVIOUS
<1>2. ASSUME NEW t \in SUBSET S, t # {}, \A x \in t : t \ {x} \in G
      PROVE  t \in G
  <2> SUFFICES ASSUME NEW x \in t
               PROVE  SumFunctionOnSet(f, t) = f[x] + SumFunctionOnSet(f, t \ {x})
    OBVIOUS
  <2> DEFINE y == First(t)
  <2>1. y \in t /\ IsFiniteSet(t)
    BY <1>2, FirstIn, FS_Subset
  <2>2. SumFunctionOnSet(f, t) = f[y] + SumFunctionOnSet(f, t \ {y})
    BY <1>2, <2>1, SumFirst
  <2> HIDE DEF y
  <2>3. CASE x = y
    BY <2>2, <2>3
  <2>4. CASE x # y
    <3>1. t \ {x} \in G /\ t \ {y} \in G
      BY <1>2, <2>1
    <3>2. /\ SumFunctionOnSet(f, t \ {x}) = f[y] + SumFunctionOnSet(f, (t \ {x}) \ {y})
          /\ SumFunctionOnSet(f, t \ {y}) = f[x] + SumFunctionOnSet(f, (t \ {y}) \ {x})
      BY <2>1, <2>4, <3>1
    <3> DEFINE r == (t \ {x}) \ {y}
    <3>3. (t \ {y}) \ {x} = r
      OBVIOUS
    <3>4. IsFiniteSet(r)
      BY <2>1, FS_Subset
    <3>5. \A z \in r : f[z] \in Int
      OBVIOUS
    <3>6. f[x] \in Int /\ f[y] \in Int
      BY <2>1
    <3> HIDE DEF r
    <3>7. SumFunctionOnSet(f, r) \in Int
      BY <3>4, <3>5, SumInt
    <3>8. /\ SumFunctionOnSet(f, t \ {x}) = f[y] + SumFunctionOnSet(f, r)
          /\ SumFunctionOnSet(f, t \ {y}) = f[x] + SumFunctionOnSet(f, r)
      BY <3>2, <3>3 DEF r
    <3>9. \A a, b, c \in Int : b + (a + c) = a + (b + c)
      OBVIOUS
    <3>10. f[y] + (f[x] + SumFunctionOnSet(f, r)) = f[x] + (f[y] + SumFunctionOnSet(f, r))
      BY ONLY <3>6, <3>7, <3>9
    <3> QED
      BY <2>2, <3>8, <3>10
  <2> QED
    BY <2>3, <2>4
<1> HIDE DEF G
<1>3. S \in G
  BY <1>1, <1>2, SetInduction
<1> QED
  BY <1>3 DEF G

\* A sum of natural numbers is one: no total of points is negative.
THEOREM SumNat ==
    ASSUME NEW f, NEW S, IsFiniteSet(S), \A x \in S : f[x] \in Nat
    PROVE  SumFunctionOnSet(f, S) \in Nat
<1> DEFINE G == {s \in SUBSET S : SumFunctionOnSet(f, s) \in Nat}
<1>1. {} \in G
  BY SumEmpty
<1>2. ASSUME NEW t \in SUBSET S, t # {}, \A x \in t : t \ {x} \in G
      PROVE  t \in G
  <2>1. First(t) \in t /\ IsFiniteSet(t)
    BY <1>2, FirstIn, FS_Subset
  <2>2. t \ {First(t)} \in G
    BY <1>2, <2>1
  <2>3. SumFunctionOnSet(f, t) = f[First(t)] + SumFunctionOnSet(f, t \ {First(t)})
    BY <1>2, <2>1, SumFirst
  <2> QED
    BY <2>1, <2>2, <2>3
<1> HIDE DEF G
<1>3. S \in G
  BY <1>1, <1>2, SetInduction
<1> QED
  BY <1>3 DEF G

\* A sum of nothing but zeros, as of sources that never paid.
THEOREM SumZero ==
    ASSUME NEW f, NEW S, IsFiniteSet(S), \A x \in S : f[x] = 0
    PROVE  SumFunctionOnSet(f, S) = 0
<1> DEFINE G == {s \in SUBSET S : SumFunctionOnSet(f, s) = 0}
<1>1. {} \in G
  BY SumEmpty
<1>2. ASSUME NEW t \in SUBSET S, t # {}, \A x \in t : t \ {x} \in G
      PROVE  t \in G
  <2>1. First(t) \in t /\ IsFiniteSet(t)
    BY <1>2, FirstIn, FS_Subset
  <2>2. SumFunctionOnSet(f, t) = f[First(t)] + SumFunctionOnSet(f, t \ {First(t)})
    BY <1>2, <2>1, SumFirst
  <2> QED
    BY <1>2, <2>1, <2>2
<1> HIDE DEF G
<1>3. S \in G
  BY <1>1, <1>2, SetInduction
<1> QED
  BY <1>3 DEF G

\* One summand changes.
THEOREM SumUpdate ==
    ASSUME NEW f, NEW g, NEW S, IsFiniteSet(S), NEW e \in S,
           \A x \in S : f[x] \in Int /\ g[x] \in Int,
           \A x \in S \ {e} : g[x] = f[x]
    PROVE  SumFunctionOnSet(g, S) = SumFunctionOnSet(f, S) + (g[e] - f[e])
<1> DEFINE R == S \ {e}
<1>1. IsFiniteSet(R)
  BY FS_Subset
<1>2. SumFunctionOnSet(f, S) = f[e] + SumFunctionOnSet(f, R)
  BY SumRemove
<1>3. SumFunctionOnSet(g, S) = g[e] + SumFunctionOnSet(g, R)
  BY SumRemove
<1>4. \A x \in R : f[x] \in Int /\ g[x] = f[x]
  OBVIOUS
<1> HIDE DEF R
<1>5. SumFunctionOnSet(g, R) = SumFunctionOnSet(f, R)
  BY <1>1, <1>4, SumSame
<1>6. SumFunctionOnSet(f, R) \in Int
  BY <1>1, <1>4, SumInt
<1> QED
  BY <1>2, <1>3, <1>5, <1>6

\* A summand is added.
THEOREM SumExtend ==
    ASSUME NEW f, NEW g, NEW S, IsFiniteSet(S), NEW e, e \notin S,
           \A x \in S : f[x] \in Int /\ g[x] = f[x], g[e] \in Int
    PROVE  SumFunctionOnSet(g, S \cup {e}) = SumFunctionOnSet(f, S) + g[e]
<1> DEFINE T == S \cup {e}
<1>1. IsFiniteSet(T) /\ e \in T /\ T \ {e} = S /\ \A x \in T : g[x] \in Int
  BY FS_AddElement
<1> HIDE DEF T
<1>2. SumFunctionOnSet(g, T) = g[e] + SumFunctionOnSet(g, S)
  BY <1>1, SumRemove
<1>3. SumFunctionOnSet(g, S) = SumFunctionOnSet(f, S)
  BY SumSame
<1>4. SumFunctionOnSet(f, S) \in Int
  BY SumInt
<1> QED
  BY <1>2, <1>3, <1>4 DEF T

\* Two disjoint sets.
THEOREM SumUnion ==
    ASSUME NEW f, NEW A, NEW B, IsFiniteSet(A), IsFiniteSet(B), A \cap B = {},
           \A x \in A \cup B : f[x] \in Int
    PROVE  SumFunctionOnSet(f, A \cup B) = SumFunctionOnSet(f, A) + SumFunctionOnSet(f, B)
<1> DEFINE G == {s \in SUBSET B : SumFunctionOnSet(f, A \cup s)
                                    = SumFunctionOnSet(f, A) + SumFunctionOnSet(f, s)}
<1>0. SumFunctionOnSet(f, A) \in Int
  BY SumInt
<1>1. {} \in G
  <2>1. A \cup {} = A
    OBVIOUS
  <2> QED
    BY <1>0, <2>1, SumEmpty
<1>2. ASSUME NEW t \in SUBSET B, t # {}, \A x \in t : t \ {x} \in G
      PROVE  t \in G
  <2>1. PICK x \in t : t \ {x} \in G
    BY <1>2
  <2> DEFINE r == t \ {x}
  <2>2. IsFiniteSet(A \cup r) /\ IsFiniteSet(r) /\ x \notin r /\ x \notin A \cup r
    BY <2>1, FS_Subset, FS_Union
  <2>3. (A \cup r) \cup {x} = A \cup t /\ r \cup {x} = t
    BY <2>1
  <2>4. /\ \A y \in A \cup r : f[y] \in Int
        /\ \A y \in r : f[y] \in Int
        /\ f[x] \in Int
    OBVIOUS
  <2>5. SumFunctionOnSet(f, A \cup r) = SumFunctionOnSet(f, A) + SumFunctionOnSet(f, r)
    BY <2>1
  <2> HIDE DEF r
  <2>6. SumFunctionOnSet(f, (A \cup r) \cup {x}) = SumFunctionOnSet(f, A \cup r) + f[x]
    BY <2>2, <2>4, SumExtend
  <2>7. SumFunctionOnSet(f, r \cup {x}) = SumFunctionOnSet(f, r) + f[x]
    BY <2>2, <2>4, SumExtend
  <2>8. SumFunctionOnSet(f, r) \in Int
    BY <2>2, <2>4, SumInt
  <2>9. SumFunctionOnSet(f, A \cup t) = SumFunctionOnSet(f, A) + SumFunctionOnSet(f, t)
    <3>1. SumFunctionOnSet(f, A \cup t)
            = (SumFunctionOnSet(f, A) + SumFunctionOnSet(f, r)) + f[x]
      BY <2>3, <2>5, <2>6
    <3>2. SumFunctionOnSet(f, t) = SumFunctionOnSet(f, r) + f[x]
      BY <2>3, <2>7
    <3> QED
      BY <1>0, <2>4, <2>8, <3>1, <3>2
  <2> QED
    BY <2>9
<1> HIDE DEF G
<1>3. B \in G
  BY <1>1, <1>2, SetInduction
<1> QED
  BY <1>3 DEF G

\* The same summands under other names.
THEOREM SumRename ==
    ASSUME NEW f, NEW g, NEW h, NEW S, IsFiniteSet(S),
           \A x, y \in S : h[x] = h[y] => x = y,
           \A x \in S : f[x] \in Int /\ g[h[x]] = f[x]
    PROVE  /\ IsFiniteSet({h[x] : x \in S})
           /\ SumFunctionOnSet(g, {h[x] : x \in S}) = SumFunctionOnSet(f, S)
<1> DEFINE N(s) == {h[x] : x \in s}
           G == {s \in SUBSET S : /\ IsFiniteSet(N(s))
                                  /\ SumFunctionOnSet(g, N(s)) = SumFunctionOnSet(f, s)}
<1>1. {} \in G
  <2>1. N({}) = {}
    OBVIOUS
  <2> HIDE DEF N
  <2> QED
    BY <2>1, SumEmpty, FS_EmptySet
<1>2. ASSUME NEW t \in SUBSET S, t # {}, \A x \in t : t \ {x} \in G
      PROVE  t \in G
  <2>1. PICK x \in t : t \ {x} \in G
    BY <1>2
  <2> DEFINE r == t \ {x}
  <2>2. IsFiniteSet(r) /\ x \notin r /\ r \cup {x} = t
    BY <2>1, FS_Subset
  <2>3. h[x] \notin N(r) /\ N(t) = N(r) \cup {h[x]}
    BY <2>2
  <2>4. f[x] \in Int /\ g[h[x]] = f[x] /\ \A y \in r : f[y] \in Int
    OBVIOUS
  <2>5. \A z \in N(r) : g[z] \in Int
    OBVIOUS
  <2>6. IsFiniteSet(N(r)) /\ SumFunctionOnSet(g, N(r)) = SumFunctionOnSet(f, r)
    BY <2>1
  <2> HIDE DEF r, N
  <2>7. SumFunctionOnSet(g, N(r) \cup {h[x]}) = SumFunctionOnSet(g, N(r)) + g[h[x]]
    BY <2>3, <2>4, <2>5, <2>6, SumExtend
  <2>8. SumFunctionOnSet(f, r \cup {x}) = SumFunctionOnSet(f, r) + f[x]
    BY <2>2, <2>4, SumExtend
  <2>9. IsFiniteSet(N(t))
    BY <2>3, <2>6, FS_AddElement
  <2> QED
    BY <2>2, <2>3, <2>4, <2>6, <2>7, <2>8, <2>9
<1>3. S \in G
  <2> HIDE DEF G
  <2> QED
    BY <1>1, <1>2, SetInduction
<1> QED
  BY <1>3

-----------------------------------------------------------------------------
(* The largest element.                                                    *)

\* Max of the community modules is an element, and the largest: the highest of
\* the scores is the score of an attempt.
THEOREM MaxIn ==
    ASSUME NEW S, IsFiniteSet(S), S \subseteq Int, S # {}
    PROVE  Max(S) \in S /\ \A x \in S : x <= Max(S)
<1> DEFINE G == {s \in SUBSET S : s = {} \/ \E m \in s : \A x \in s : m >= x}
<1>1. {} \in G
  OBVIOUS
<1>2. ASSUME NEW t \in SUBSET S, t # {}, \A x \in t : t \ {x} \in G
      PROVE  t \in G
  <2>1. PICK x \in t : t \ {x} \in G
    BY <1>2
  <2>2. CASE t \ {x} = {}
    BY <2>2
  <2>3. ASSUME NEW m \in t \ {x}, \A y \in t \ {x} : m >= y
        PROVE  t \in G
    <3>1. CASE m >= x
      BY <2>3, <3>1
    <3>2. CASE ~(m >= x)
      BY <2>1, <2>3, <3>2
    <3> QED
      BY <3>1, <3>2
  <2> QED
    BY <2>1, <2>2, <2>3
<1> HIDE DEF G
<1>3. S \in G
  BY <1>1, <1>2, SetInduction
<1>4. \E m \in S : \A x \in S : m >= x
  BY <1>3 DEF G
<1> QED
  BY <1>4 DEF Max
=============================================================================
