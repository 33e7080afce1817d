--------------------------- MODULE Request_proofs ---------------------------
(***************************************************************************)
(* Theorems about Request, for any endpoints, calls, times, classes and    *)
(* clocks.                                                                 *)
(***************************************************************************)
EXTENDS Request, FiniteSetTheorems, WellFoundedInduction, TLAPS

(***************************************************************************)
(* Recursion over the natural numbers.                                     *)
(***************************************************************************)
Less == {p \in Nat \X Nat : p[1] < p[2]}

LEMMA LeastNatural ==
  ASSUME NEW S \in SUBSET Nat, S # {}
  PROVE  \E x \in S : \A y \in S : x <= y
<1>1. IsWellFoundedOn(Less, Nat)
  BY NatLessThanWellFounded DEF OpToRel, Less
<1>2. PICK x \in S : \A y \in S : ~(<<y, x>> \in Less)
  BY <1>1, WFMin
<1>3. ASSUME NEW y \in S PROVE x <= y
  <2>1. x \in Nat /\ y \in Nat /\ ~(<<y, x>> \in Less)
    BY <1>2
  <2> QED
    BY <2>1 DEF Less
<1> QED
  BY <1>3

\* A set of naturals that has 0 and the successor of each member has them all.
LEMMA InductionOnNat ==
  ASSUME NEW S \in SUBSET Nat, 0 \in S, \A n \in S : n + 1 \in S
  PROVE  S = Nat
<1> SUFFICES ASSUME Nat \ S # {} PROVE FALSE
  OBVIOUS
<1>1. PICK x \in Nat \ S : \A y \in Nat \ S : x <= y
  BY LeastNatural
<1>2. x # 0 /\ x - 1 \in Nat /\ ~(x <= x - 1)
  BY <1>1
<1>3. x - 1 \in S
  BY <1>1, <1>2
<1>4. x - 1 + 1 = x
  BY <1>1
<1> QED
  BY <1>1, <1>3, <1>4

\* The first n values of a recursion.
Recurs(f, n, a0, step) == f[0] = a0 /\ \A i \in 0 .. n - 1 : f[i + 1] = step[f[i]]

LEMMA RecursionIsUnique ==
  ASSUME NEW V, NEW a0 \in V, NEW step \in [V -> V], NEW n \in Nat, NEW m \in Nat, n <= m,
         NEW f \in [0 .. n -> V], NEW g \in [0 .. m -> V],
         Recurs(f, n, a0, step), Recurs(g, m, a0, step)
  PROVE  \A i \in 0 .. n : f[i] = g[i]
<1> DEFINE S == {i \in Nat : i <= n => f[i] = g[i]}
<1>1. 0 \in S
  BY DEF Recurs
<1>2. ASSUME NEW i \in S PROVE i + 1 \in S
  <2> SUFFICES ASSUME i + 1 <= n PROVE f[i + 1] = g[i + 1]
    OBVIOUS
  <2>1. i \in 0 .. n - 1 /\ i \in 0 .. m - 1 /\ f[i] = g[i]
    OBVIOUS
  <2> QED
    BY <2>1 DEF Recurs
<1>3. S = Nat
  <2>1. S \in SUBSET Nat
    OBVIOUS
  <2> HIDE DEF S
  <2> QED
    BY <1>1, <1>2, <2>1, InductionOnNat
<1> QED
  BY <1>3

LEMMA FirstValuesExist ==
  ASSUME NEW V, NEW a0 \in V, NEW step \in [V -> V]
  PROVE  \A n \in Nat : \E f \in [0 .. n -> V] : Recurs(f, n, a0, step)
<1> DEFINE S == {n \in Nat : \E f \in [0 .. n -> V] : Recurs(f, n, a0, step)}
<1>1. 0 \in S
  <2> DEFINE f == [i \in 0 .. 0 |-> a0]
  <2>1. f \in [0 .. 0 -> V] /\ Recurs(f, 0, a0, step)
    BY DEF Recurs
  <2> QED
    BY <2>1
<1>2. ASSUME NEW n \in S PROVE n + 1 \in S
  <2>1. PICK f \in [0 .. n -> V] : Recurs(f, n, a0, step)
    OBVIOUS
  <2> DEFINE g == [i \in 0 .. n + 1 |-> IF i = n + 1 THEN step[f[n]] ELSE f[i]]
  <2>2. n \in 0 .. n /\ \A i \in 0 .. n + 1 : i # n + 1 => i \in 0 .. n
    OBVIOUS
  <2>3. g \in [0 .. n + 1 -> V]
    BY <2>1, <2>2
  <2>4. g[0] = a0
    BY <2>1 DEF Recurs
  <2>5. ASSUME NEW i \in 0 .. n + 1 - 1 PROVE g[i + 1] = step[g[i]]
    <3>1. g[i] = f[i] /\ i + 1 \in 0 .. n + 1
      OBVIOUS
    <3>2. CASE i = n
      <4>1. g[i + 1] = step[f[n]]
        BY <3>1, <3>2
      <4> QED
        BY <3>1, <3>2, <4>1
    <3>3. CASE i # n
      <4>1. g[i + 1] = f[i + 1] /\ i \in 0 .. n - 1
        BY <3>1, <3>3
      <4> QED
        BY <2>1, <3>1, <4>1 DEF Recurs
    <3> QED
      BY <3>2, <3>3
  <2> HIDE DEF g
  <2>6. Recurs(g, n + 1, a0, step)
    BY <2>4, <2>5 DEF Recurs
  <2> QED
    BY <2>3, <2>6
<1>3. S = Nat
  <2>1. S \in SUBSET Nat
    OBVIOUS
  <2> HIDE DEF S
  <2> QED
    BY <1>1, <1>2, <2>1, InductionOnNat
<1> QED
  BY <1>3

\* A recursion over the naturals has a value at each of them.
LEMMA RecursionExists ==
  ASSUME NEW V, NEW a0 \in V, NEW step \in [V -> V]
  PROVE  \E W \in [Nat -> V] : W[0] = a0 /\ \A n \in Nat : W[n + 1] = step[W[n]]
<1> DEFINE First(n) == CHOOSE f \in [0 .. n -> V] : Recurs(f, n, a0, step)
<1>1. \A n \in Nat : First(n) \in [0 .. n -> V] /\ Recurs(First(n), n, a0, step)
  BY FirstValuesExist
<1> HIDE DEF First
<1> DEFINE W == [n \in Nat |-> First(n)[n]]
<1>2. W \in [Nat -> V]
  <2> SUFFICES ASSUME NEW n \in Nat PROVE First(n)[n] \in V
    OBVIOUS
  <2>1. n \in 0 .. n
    OBVIOUS
  <2> QED
    BY <1>1, <2>1
<1>3. W[0] = a0
  BY <1>1 DEF Recurs
<1>4. ASSUME NEW n \in Nat PROVE W[n + 1] = step[W[n]]
  <2>1. /\ First(n) \in [0 .. n -> V] /\ Recurs(First(n), n, a0, step)
        /\ First(n + 1) \in [0 .. n + 1 -> V] /\ Recurs(First(n + 1), n + 1, a0, step)
    BY <1>1
  <2>2. \A i \in 0 .. n : First(n)[i] = First(n + 1)[i]
    BY <2>1, RecursionIsUnique
  <2>3. n \in 0 .. n /\ n \in 0 .. n + 1 - 1
    OBVIOUS
  <2>4. First(n + 1)[n + 1] = step[First(n + 1)[n]]
    BY <2>1, <2>3 DEF Recurs
  <2> QED
    BY <2>2, <2>3, <2>4
<1> HIDE DEF W
<1> QED
  BY <1>2, <1>3, <1>4

(***************************************************************************)
(* Recursion along a path.                                                 *)
(***************************************************************************)
\* From outside the base a path leads to a lower rank.
IsPath(D, Base, rank, up, step) ==
  /\ rank \in [D -> Nat] /\ up \in [D -> D] /\ step \in [D -> Nat]
  /\ \A x \in D \ Base : rank[up[x]] < rank[x]

\* A recursion along a path that always leads to a lower rank has values, and all of
\* them are naturals.
LEMMA PathRecursion ==
  ASSUME NEW D, NEW Base, NEW rank, NEW up, NEW step, IsPath(D, Base, rank, up, step)
  PROVE  \E G \in [D -> Nat] : \A x \in D : G[x] = IF x \in Base THEN 0 ELSE step[x] + G[up[x]]
<1> DEFINE V == [D -> Nat]
           zero == [x \in D |-> 0]
           turn == [g \in V |-> [x \in D |-> IF x \in Base THEN 0 ELSE step[x] + g[up[x]]]]
<1>1. zero \in V /\ turn \in [V -> V]
  BY DEF IsPath
<1>2. \E W \in [Nat -> V] : W[0] = zero /\ \A n \in Nat : W[n + 1] = turn[W[n]]
  <2> HIDE DEF V, zero, turn
  <2> QED
    BY <1>1, RecursionExists
<1>3. PICK W \in [Nat -> V] : W[0] = zero /\ \A n \in Nat : W[n + 1] = turn[W[n]]
  BY <1>2
<1> USE DEF IsPath
<1>4. \A n \in Nat : \A x \in D :
        W[n + 1][x] = IF x \in Base THEN 0 ELSE step[x] + W[n][up[x]]
  <2> SUFFICES ASSUME NEW n \in Nat
               PROVE \A x \in D : W[n + 1][x] = IF x \in Base THEN 0 ELSE step[x] + W[n][up[x]]
    OBVIOUS
  <2>1. W[n] \in V /\ W[n + 1] = turn[W[n]]
    BY <1>3
  <2> QED
    BY <2>1
<1>5. \A n \in Nat : \A x \in D : W[n][x] \in Nat
  BY <1>3
<1> HIDE DEF turn, zero, V
\* The value of x no longer changes after as many turns as its rank.
<1> DEFINE S == {n \in Nat : \A x \in D : rank[x] < n => W[n + 1][x] = W[n][x]}
<1>6. 0 \in S
  OBVIOUS
<1>7. ASSUME NEW n \in S PROVE n + 1 \in S
  <2> SUFFICES ASSUME NEW x \in D, rank[x] < n + 1 PROVE W[n + 1 + 1][x] = W[n + 1][x]
    OBVIOUS
  <2>1. CASE x \in Base
    BY <1>4, <2>1
  <2>2. CASE x \notin Base
    <3>1. up[x] \in D /\ rank[up[x]] < n
      BY <2>2
    <3>2. W[n + 1][up[x]] = W[n][up[x]]
      BY <3>1
    <3>3. /\ W[n + 1][x] = step[x] + W[n][up[x]]
          /\ W[n + 1 + 1][x] = step[x] + W[n + 1][up[x]]
      BY <1>4, <2>2
    <3> QED
      BY <3>2, <3>3
  <2> QED
    BY <2>1, <2>2
<1>8. S = Nat
  <2>1. S \in SUBSET Nat
    OBVIOUS
  <2> HIDE DEF S
  <2> QED
    BY <1>6, <1>7, <2>1, InductionOnNat
<1>9. \A m \in Nat : \A n \in Nat : \A x \in D : rank[x] < n => W[n + m][x] = W[n][x]
  <2> DEFINE P == {m \in Nat : \A n \in Nat : \A x \in D : rank[x] < n => W[n + m][x] = W[n][x]}
  <2>1. 0 \in P
    OBVIOUS
  <2>2. ASSUME NEW m \in P PROVE m + 1 \in P
    <3> SUFFICES ASSUME NEW n \in Nat, NEW x \in D, rank[x] < n PROVE W[n + (m + 1)][x] = W[n][x]
      OBVIOUS
    <3>0. n + m \in Nat /\ rank[x] \in Nat
      OBVIOUS
    <3>1. \A y \in D : rank[y] < n + m => W[n + m + 1][y] = W[n + m][y]
      <4>1. n + m \in S
        <5> HIDE DEF S
        <5> QED
          BY <1>8, <3>0
      <4> QED
        BY <4>1
    <3>2. W[n + m + 1][x] = W[n + m][x] /\ n + m + 1 = n + (m + 1)
      <4>1. rank[x] < n + m
        BY <3>0
      <4> QED
        BY <3>1, <4>1
    <3>3. W[n + m][x] = W[n][x]
      OBVIOUS
    <3> QED
      BY <3>2, <3>3
  <2>3. P = Nat
    <3>1. P \in SUBSET Nat
      OBVIOUS
    <3> HIDE DEF P, S
    <3> QED
      BY <2>1, <2>2, <3>1, InductionOnNat
  <2> QED
    BY <2>3
<1> HIDE DEF S
<1> DEFINE G == [x \in D |-> W[rank[x] + 1][x]]
<1>10. G \in [D -> Nat]
  BY <1>5
<1>11. ASSUME NEW x \in D PROVE G[x] = IF x \in Base THEN 0 ELSE step[x] + G[up[x]]
  <2>1. G[x] = IF x \in Base THEN 0 ELSE step[x] + W[rank[x]][up[x]]
    BY <1>4
  <2>2. CASE x \in Base
    BY <2>1, <2>2
  <2>3. CASE x \notin Base
    <3>1. up[x] \in D /\ rank[up[x]] + 1 <= rank[x]
      BY <2>3
    <3> DEFINE n == rank[up[x]] + 1
               m == rank[x] - n
    <3>2. n \in Nat /\ m \in Nat /\ rank[up[x]] < n /\ n + m = rank[x]
      BY <3>1
    <3> HIDE DEF n, m
    <3>3. W[n + m][up[x]] = W[n][up[x]]
      BY <1>9, <3>1, <3>2
    <3>4. G[up[x]] = W[n][up[x]]
      BY <3>1 DEF n
    <3> QED
      BY <2>1, <2>3, <3>2, <3>3, <3>4
  <2> QED
    BY <2>2, <2>3
<1> HIDE DEF G
<1> QED
  BY <1>10, <1>11

LEMMA PathValuesAreNaturals ==
  ASSUME NEW D, NEW Base, NEW rank, NEW up, NEW step, IsPath(D, Base, rank, up, step),
         NEW G, \A x \in D : G[x] = IF x \in Base THEN 0 ELSE step[x] + G[up[x]]
  PROVE  \A x \in D : G[x] \in Nat
<1> USE DEF IsPath
<1> DEFINE S == {n \in Nat : \A x \in D : rank[x] <= n => G[x] \in Nat}
<1>1. 0 \in S
  <2> SUFFICES ASSUME NEW x \in D, rank[x] <= 0 PROVE G[x] \in Nat
    OBVIOUS
  <2>1. rank[x] = 0
    OBVIOUS
  <2>2. x \in Base
    <3> SUFFICES ASSUME x \notin Base PROVE FALSE
      OBVIOUS
    <3>1. rank[up[x]] \in Nat /\ rank[up[x]] < rank[x]
      OBVIOUS
    <3> QED
      BY <2>1, <3>1
  <2>3. G[x] = 0
    BY <2>2
  <2> QED
    BY <2>3
<1>2. ASSUME NEW n \in S PROVE n + 1 \in S
  <2> SUFFICES ASSUME NEW x \in D, rank[x] <= n + 1 PROVE G[x] \in Nat
    OBVIOUS
  <2>1. CASE x \in Base
    BY <2>1
  <2>2. CASE x \notin Base
    <3>1. up[x] \in D /\ rank[up[x]] \in Nat /\ rank[x] \in Nat /\ rank[up[x]] < rank[x]
      BY <2>2
    <3>2. rank[up[x]] <= n
      BY <3>1
    <3>3. G[up[x]] \in Nat
      BY <3>1, <3>2
    <3>4. G[x] = step[x] + G[up[x]] /\ step[x] \in Nat
      BY <2>2
    <3> QED
      BY <3>3, <3>4
  <2> QED
    BY <2>1, <2>2
<1>3. S = Nat
  <2>1. S \in SUBSET Nat
    OBVIOUS
  <2> HIDE DEF S
  <2> QED
    BY <1>1, <1>2, <2>1, InductionOnNat
<1>4. ASSUME NEW x \in D PROVE G[x] \in Nat
  <2>1. rank[x] \in S /\ rank[x] <= rank[x]
    BY <1>3
  <2> QED
    BY <2>1
<1> QED
  BY <1>4

(***************************************************************************)
(* Sums.                                                                   *)
(***************************************************************************)
\* A set of subsets of a finite set that has the empty one, and a set whenever it has
\* that set less any one element, has them all.
LEMMA SubsetInduction ==
  ASSUME NEW S, IsFiniteSet(S), NEW Q \in SUBSET SUBSET S, {} \in Q,
         \A s \in SUBSET S : s # {} /\ (\A x \in s : s \ {x} \in Q) => s \in Q
  PROVE  Q = SUBSET S
<1> DEFINE N == {n \in Nat : \A s \in SUBSET S : Cardinality(s) = n => s \in Q}
<1>1. \A s \in SUBSET S : IsFiniteSet(s) /\ Cardinality(s) \in Nat
  BY FS_Subset, FS_CardinalityType
<1>2. 0 \in N
  BY <1>1, FS_EmptySet
<1>3. ASSUME NEW n \in N PROVE n + 1 \in N
  <2> SUFFICES ASSUME NEW s \in SUBSET S, Cardinality(s) = n + 1 PROVE s \in Q
    OBVIOUS
  <2>1. s # {}
    BY FS_EmptySet
  <2>2. ASSUME NEW x \in s PROVE s \ {x} \in Q
    <3>1. Cardinality(s \ {x}) = n + 1 - 1
      BY <1>1, FS_RemoveElement
    <3>2. n + 1 - 1 = n
      OBVIOUS
    <3> QED
      BY <3>1, <3>2
  <2> QED
    BY <2>1, <2>2
<1>4. N = Nat
  <2>1. N \in SUBSET Nat
    OBVIOUS
  <2> HIDE DEF N
  <2> QED
    BY <1>2, <1>3, <2>1, InductionOnNat
<1> QED
  BY <1>1, <1>4

Some(s) == CHOOSE x \in s : TRUE
IsSum(f, g) ==
  f = [s \in SUBSET DOMAIN g |-> IF s = {} THEN 0 ELSE g[Some(s)] + f[s \ {Some(s)}]]

IsTerms(g, S) == IsFiniteSet(S) /\ g \in [S -> Nat]

LEMMA SumIsSum ==
  ASSUME NEW S, NEW g, IsTerms(g, S)
  PROVE  \E f : IsSum(f, g) /\ f[S] = SumFunction(g) /\ \A s \in SUBSET S : f[s] \in Nat
<1> DEFINE D == SUBSET S
           rank == [s \in D |-> Cardinality(s)]
           up == [s \in D |-> s \ {Some(s)}]
           step == [s \in D |-> IF s = {} THEN 0 ELSE g[Some(s)]]
<1>1. DOMAIN g = S
  BY DEF IsTerms
<1>2. \A s \in D : IsFiniteSet(s) /\ Cardinality(s) \in Nat /\ (s # {} => Some(s) \in s)
  BY FS_Subset, FS_CardinalityType DEF IsTerms, Some
<1>3. IsPath(D, {{}}, rank, up, step)
  <2>1. rank \in [D -> Nat] /\ up \in [D -> D]
    BY <1>2
  <2>2. step \in [D -> Nat]
    BY <1>2 DEF IsTerms
  <2>3. ASSUME NEW s \in D \ {{}} PROVE rank[up[s]] < rank[s]
    <3>1. up[s] = s \ {Some(s)} /\ up[s] \in D
      BY <1>2
    <3>2. Cardinality(s \ {Some(s)}) = Cardinality(s) - 1
      BY <1>2, FS_RemoveElement
    <3>3. rank[up[s]] = Cardinality(s) - 1 /\ rank[s] = Cardinality(s) /\ Cardinality(s) \in Nat
      BY <1>2, <3>1, <3>2
    <3> QED
      BY <3>3
  <2> QED
    BY <2>1, <2>2, <2>3 DEF IsPath
<1>4. ASSUME NEW f, \A s \in D : f[s] = IF s \in {{}} THEN 0 ELSE step[s] + f[up[s]]
      PROVE  \A s \in D : f[s] = IF s = {} THEN 0 ELSE g[Some(s)] + f[s \ {Some(s)}]
  BY <1>4
<1>5. ASSUME NEW f, \A s \in D : f[s] = IF s = {} THEN 0 ELSE g[Some(s)] + f[s \ {Some(s)}]
      PROVE  \A s \in D : f[s] = IF s \in {{}} THEN 0 ELSE step[s] + f[up[s]]
  BY <1>5
<1> HIDE DEF rank, up, step
<1>6. \E f : IsSum(f, g)
  <2>1. PICK f \in [D -> Nat] : \A s \in D : f[s] = IF s \in {{}} THEN 0 ELSE step[s] + f[up[s]]
    <3> HIDE DEF D
    <3> QED
      BY <1>3, PathRecursion
  <2>2. \A s \in D : f[s] = IF s = {} THEN 0 ELSE g[Some(s)] + f[s \ {Some(s)}]
    BY <1>4, <2>1
  <2>3. IsSum(f, g)
    BY <1>1, <2>1, <2>2 DEF IsSum
  <2> QED
    BY <2>3
<1> DEFINE f == CHOOSE f : IsSum(f, g)
<1>7. IsSum(f, g)
  BY <1>6
<1>8. f[S] = SumFunction(g)
  BY <1>1 DEF IsSum, Some, SumFunction, SumFunctionOnSet, FoldFunctionOnSet, MapThenFoldSet
<1> HIDE DEF f
<1>9. \A s \in D : f[s] \in Nat
  <2>1. \A s \in D : f[s] = IF s = {} THEN 0 ELSE g[Some(s)] + f[s \ {Some(s)}]
    BY <1>1, <1>7 DEF IsSum
  <2>2. \A s \in D : f[s] = IF s \in {{}} THEN 0 ELSE step[s] + f[up[s]]
    BY <1>5, <2>1
  <2> HIDE DEF D
  <2> QED
    BY <1>3, <2>2, PathValuesAreNaturals
<1> QED
  BY <1>7, <1>8, <1>9

\* The terms may be taken in any order.
IsTally(f, g, S) ==
  /\ \A s \in SUBSET S : f[s] \in Nat
  /\ f[{}] = 0
  /\ \A s \in SUBSET S : \A x \in s : f[s] = g[x] + f[s \ {x}]

LEMMA SumIsTally ==
  ASSUME NEW S, NEW g, IsTerms(g, S), NEW f, IsSum(f, g), \A s \in SUBSET S : f[s] \in Nat
  PROVE  IsTally(f, g, S)
<1>1. \A s \in SUBSET S : s # {} => Some(s) \in s
  BY DEF Some
<1>2. \A s \in SUBSET S : f[s] = IF s = {} THEN 0 ELSE g[Some(s)] + f[s \ {Some(s)}]
  BY DEF IsTerms, IsSum
<1>3. \A x \in S : g[x] \in Nat
  BY DEF IsTerms
<1> DEFINE Q == {s \in SUBSET S : \A x \in s : f[s] = g[x] + f[s \ {x}]}
<1>4. {} \in Q
  OBVIOUS
<1>5. ASSUME NEW s \in SUBSET S, s # {}, \A x \in s : s \ {x} \in Q
      PROVE  s \in Q
  <2> SUFFICES ASSUME NEW x \in s PROVE f[s] = g[x] + f[s \ {x}]
    OBVIOUS
  <2> DEFINE c == Some(s)
  <2>1. c \in s /\ f[s] = g[c] + f[s \ {c}]
    BY <1>1, <1>2, <1>5
  <2> HIDE DEF c
  <2>2. CASE x = c
    BY <2>1, <2>2
  <2>3. CASE x # c
    <3>1. f[s \ {c}] = g[x] + f[(s \ {c}) \ {x}]
      <4>1. s \ {c} \in Q /\ x \in s \ {c}
        BY <1>5, <2>1, <2>3
      <4> QED
        BY <4>1
    <3>2. f[s \ {x}] = g[c] + f[(s \ {x}) \ {c}]
      <4>1. s \ {x} \in Q /\ c \in s \ {x}
        BY <1>5, <2>1, <2>3
      <4> QED
        BY <4>1
    <3>3. (s \ {c}) \ {x} = (s \ {x}) \ {c}
      OBVIOUS
    <3> DEFINE rest == f[(s \ {x}) \ {c}]
    <3>4. g[x] \in Nat /\ g[c] \in Nat /\ rest \in Nat
      BY <1>3, <2>1
    <3>5. f[s] = g[c] + (g[x] + rest) /\ f[s \ {x}] = g[c] + rest
      BY <2>1, <3>1, <3>2, <3>3
    <3> HIDE DEF rest
    <3> QED
      BY <3>4, <3>5
  <2> QED
    BY <2>2, <2>3
<1>6. Q = SUBSET S
  <2>1. Q \in SUBSET SUBSET S /\ IsFiniteSet(S)
    BY DEF IsTerms
  <2> HIDE DEF Q
  <2> QED
    BY <1>4, <1>5, <2>1, SubsetInduction
<1>7. f[{}] = 0
  BY <1>2
<1> QED
  BY <1>6, <1>7 DEF IsTally

\* Of two tallies that agree on the terms they share, one of fewer terms is no larger.
LEMMA TallyGrows ==
  ASSUME NEW S, NEW g, IsTerms(g, S), NEW f, IsTally(f, g, S),
         NEW T \in SUBSET S, NEW h, NEW k, IsTally(k, h, T), \A x \in T : h[x] = g[x]
  PROVE  k[T] = f[T] /\ \A s \in SUBSET S : \A t \in SUBSET s : f[t] <= f[s]
<1>1. k[T] = f[T]
  <2> DEFINE Q == {s \in SUBSET T : k[s] = f[s]}
  <2>1. {} \in Q
    BY DEF IsTally
  <2>2. ASSUME NEW s \in SUBSET T, s # {}, \A x \in s : s \ {x} \in Q PROVE s \in Q
    <3>1. PICK x \in s : TRUE
      BY <2>2
    <3>2. k[s] = h[x] + k[s \ {x}] /\ f[s] = g[x] + f[s \ {x}] /\ h[x] = g[x]
      BY DEF IsTally
    <3>3. k[s \ {x}] = f[s \ {x}]
      BY <2>2
    <3> QED
      BY <3>2, <3>3
  <2>3. Q = SUBSET T
    <3>1. Q \in SUBSET SUBSET T /\ IsFiniteSet(T)
      BY FS_Subset DEF IsTerms
    <3> HIDE DEF Q
    <3> QED
      BY <2>1, <2>2, <3>1, SubsetInduction
  <2> QED
    BY <2>3
<1>2. \A s \in SUBSET S : \A t \in SUBSET s : f[t] <= f[s]
  <2> DEFINE Q == {s \in SUBSET S : \A t \in SUBSET s : f[t] <= f[s]}
  <2>1. {} \in Q
    <3>1. f[{}] = 0 /\ \A t \in SUBSET {} : t = {}
      BY DEF IsTally
    <3>2. \A t \in SUBSET {} : f[t] <= f[{}]
      BY <3>1
    <3> QED
      BY <3>2
  <2>2. ASSUME NEW s \in SUBSET S, s # {}, \A x \in s : s \ {x} \in Q PROVE s \in Q
    <3> SUFFICES ASSUME NEW t \in SUBSET s PROVE f[t] <= f[s]
      OBVIOUS
    <3>1. CASE t = s
      <4>1. f[s] \in Nat
        BY DEF IsTally
      <4> QED
        BY <3>1, <4>1
    <3>2. CASE t # s
      <4>1. PICK x \in s : x \notin t
        BY <3>2
      <4>2. f[t] <= f[s \ {x}]
        <5>1. s \ {x} \in Q /\ t \in SUBSET (s \ {x})
          BY <2>2, <4>1
        <5> QED
          BY <5>1
      <4>3. f[s] = g[x] + f[s \ {x}]
        BY DEF IsTally
      <4>4. f[t] \in Nat /\ f[s \ {x}] \in Nat /\ g[x] \in Nat
        BY DEF IsTally, IsTerms
      <4> QED
        BY <4>2, <4>3, <4>4
    <3> QED
      BY <3>1, <3>2
  <2>3. Q = SUBSET S
    <3>1. Q \in SUBSET SUBSET S /\ IsFiniteSet(S)
      BY DEF IsTerms
    <3> HIDE DEF Q
    <3> QED
      BY <2>1, <2>2, <3>1, SubsetInduction
  <2> QED
    BY <2>3
<1> QED
  BY <1>1, <1>2

LEMMA SumTally ==
  ASSUME NEW S, NEW g, IsTerms(g, S)
  PROVE  \E f : IsTally(f, g, S) /\ f[S] = SumFunction(g)
BY SumIsSum, SumIsTally

\* A sum of naturals is one, and adding terms does not make it smaller.
LEMMA SumTyped ==
  ASSUME NEW S, NEW g, IsTerms(g, S)
  PROVE  SumFunction(g) \in Nat /\ (S = {} => SumFunction(g) = 0)
BY SumTally DEF IsTally

LEMMA SumGrows ==
  ASSUME NEW S, NEW g, IsTerms(g, S), NEW T \in SUBSET S, NEW h, h \in [T -> Nat],
         \A x \in T : h[x] = g[x]
  PROVE  /\ SumFunction(h) <= SumFunction(g)
         /\ \A x \in S \ T : SumFunction(h) + g[x] <= SumFunction(g)
<1>1. IsTerms(h, T)
  BY FS_Subset DEF IsTerms
<1>2. PICK f : IsTally(f, g, S) /\ f[S] = SumFunction(g)
  BY SumTally
<1>3. PICK k : IsTally(k, h, T) /\ k[T] = SumFunction(h)
  BY <1>1, SumTally
<1>4. SumFunction(h) = f[T] /\ \A s \in SUBSET S : \A t \in SUBSET s : f[t] <= f[s]
  BY <1>2, <1>3, TallyGrows
<1>5. SumFunction(h) <= SumFunction(g)
  BY <1>2, <1>4
<1>6. ASSUME NEW x \in S \ T PROVE SumFunction(h) + g[x] <= SumFunction(g)
  <2>1. T \in SUBSET (S \ {x}) /\ S \ {x} \in SUBSET S
    OBVIOUS
  <2>2. f[T] <= f[S \ {x}] /\ f[S] = g[x] + f[S \ {x}]
    BY <1>2, <1>4, <2>1 DEF IsTally
  <2>3. f[T] \in Nat /\ f[S \ {x}] \in Nat /\ g[x] \in Nat
    BY <1>2, <2>1 DEF IsTally, IsTerms
  <2> QED
    BY <1>2, <1>4, <2>2, <2>3
<1> QED
  BY <1>5, <1>6


(***************************************************************************)
(* Whole milliseconds.                                                     *)
(***************************************************************************)
LEMMA MsTyped == Ms \in Nat \ {0}
BY RequestAssumption

\* Truncation stays within a millisecond below.
LEMMA FloorTyped ==
  ASSUME NEW t \in Nat
  PROVE  Floor(t) \in Nat /\ Ms * Floor(t) <= t /\ t < Ms * Floor(t) + Ms
BY MsTyped DEF Floor

\* Multiples of a millisecond are ordered as their factors.
LEMMA Multiples ==
  ASSUME NEW a \in Int, NEW b \in Int
  PROVE  /\ Ms * a \in Int
         /\ Ms * (a + b) = Ms * a + Ms * b
         /\ Ms * a < Ms * b => a < b
         /\ a <= b => Ms * a <= Ms * b
BY MsTyped

\* Rounding stays within half a millisecond.
LEMMA RintTyped ==
  ASSUME NEW t \in Nat
  PROVE  /\ Rint(t) \in Nat /\ Floor(t) <= Rint(t) /\ Rint(t) <= Floor(t) + 1
         /\ Ms * Rint(t) \in Int
         /\ 2 * (Ms * Rint(t)) <= 2 * t + Ms /\ 2 * t <= 2 * (Ms * Rint(t)) + Ms
         /\ t = 0 => Rint(t) = 0
<1> DEFINE w == Floor(t)
           m == Ms * w
<1>1. w \in Nat /\ m \in Int /\ m <= t /\ t < m + Ms /\ Ms * (w + 1) = m + Ms /\ Ms \in Nat \ {0}
  <2>1. w \in Nat /\ m <= t /\ t < m + Ms
    BY FloorTyped
  <2> HIDE DEF w
  <2>2. m \in Int /\ Ms * (w + 1) = m + Ms * 1 /\ Ms * 1 = Ms
    BY <2>1, Multiples, MsTyped
  <2> QED
    BY <2>1, <2>2, MsTyped
<1>2. Rint(t) = IF 2 * (t - m) > Ms \/ (2 * (t - m) = Ms /\ w % 2 = 1) THEN w + 1 ELSE w
  BY DEF Rint
<1> HIDE DEF w, m
<1>3. CASE 2 * (t - m) > Ms \/ (2 * (t - m) = Ms /\ w % 2 = 1)
  <2>1. Rint(t) = w + 1
    BY <1>2, <1>3
  <2>2. 2 * (m + Ms) <= 2 * t + Ms /\ 2 * t <= 2 * (m + Ms) + Ms
    BY <1>1, <1>3
  <2>3. t # 0
    <3> SUFFICES ASSUME t = 0 PROVE FALSE
      OBVIOUS
    <3>1. w = 0
      BY MsTyped DEF Floor, w
    <3>2. m = 0
      BY <3>1, MsTyped DEF m
    <3> QED
      BY <1>1, <1>3, <3>2
  <2> QED
    BY <1>1, <2>1, <2>2, <2>3 DEF w
<1>4. CASE ~(2 * (t - m) > Ms \/ (2 * (t - m) = Ms /\ w % 2 = 1))
  <2>1. Rint(t) = w
    BY <1>2, <1>4
  <2>2. 2 * m <= 2 * t + Ms /\ 2 * t <= 2 * m + Ms
    <3>1. 2 * (t - m) <= Ms
      BY <1>1, <1>4
    <3> QED
      BY <1>1, <3>1
  <2>3. t = 0 => w = 0
    BY MsTyped DEF Floor, w
  <2> QED
    BY <1>1, <2>1, <2>2, <2>3 DEF w, m
<1> QED
  BY <1>3, <1>4

\* Both keep the order.
LEMMA RoundingMonotone ==
  ASSUME NEW s \in Nat, NEW t \in Nat, s <= t
  PROVE  Floor(s) <= Floor(t) /\ Rint(s) <= Rint(t)
<1> DEFINE v == Floor(s)
           w == Floor(t)
           l == Ms * v
           m == Ms * w
<1>1. /\ v \in Nat /\ l \in Int /\ l <= s /\ s < l + Ms
      /\ w \in Nat /\ m \in Int /\ m <= t /\ t < m + Ms /\ Ms * (w + 1) = m + Ms /\ Ms \in Nat \ {0}
  <2>1. v \in Nat /\ l <= s /\ s < l + Ms /\ w \in Nat /\ m <= t /\ t < m + Ms
    BY FloorTyped
  <2> HIDE DEF v, w
  <2>2. l \in Int /\ m \in Int /\ Ms * (w + 1) = m + Ms * 1 /\ Ms * 1 = Ms
    BY <2>1, Multiples, MsTyped
  <2> QED
    BY <2>1, <2>2, MsTyped
<1>2. v <= w
  <2>1. l < m + Ms
    <3> HIDE DEF v, w, l, m
    <3> QED
      BY <1>1
  <2>2. v < w + 1
    BY <1>1, <2>1, Multiples
  <2> HIDE DEF v, w, l, m
  <2> QED
    BY <1>1, <2>2
<1>3. CASE v < w
  <2>1. Rint(s) \in Nat /\ Rint(t) \in Nat /\ Rint(s) <= v + 1 /\ w <= Rint(t)
    BY RintTyped
  <2> HIDE DEF v, w, l, m
  <2> QED
    BY <1>1, <1>2, <1>3, <2>1 DEF v, w
<1>4. CASE v = w
  <2>1. /\ Rint(s) = IF 2 * (s - m) > Ms \/ (2 * (s - m) = Ms /\ w % 2 = 1) THEN w + 1 ELSE w
        /\ Rint(t) = IF 2 * (t - m) > Ms \/ (2 * (t - m) = Ms /\ w % 2 = 1) THEN w + 1 ELSE w
    BY <1>4 DEF Rint
  <2> HIDE DEF v, w, l, m
  <2>2. 2 * (s - m) <= 2 * (t - m)
    BY <1>1
  <2>3. Rint(s) <= Rint(t)
    <3> DEFINE x == 2 * (s - m)
               y == 2 * (t - m)
    <3>1. x \in Int /\ y \in Int /\ x <= y
      BY <1>1, <2>2
    <3>2. /\ Rint(s) = IF x > Ms \/ (x = Ms /\ w % 2 = 1) THEN w + 1 ELSE w
          /\ Rint(t) = IF y > Ms \/ (y = Ms /\ w % 2 = 1) THEN w + 1 ELSE w
      BY <2>1
    <3> DEFINE odd == w % 2 = 1
    <3> HIDE DEF x, y, odd
    <3> QED
      BY <1>1, <3>1, <3>2 DEF odd
  <2> QED
    BY <1>2, <2>3 DEF v, w
<1>5. v < w \/ v = w
  <2> HIDE DEF v, w, l, m
  <2> QED
    BY <1>1, <1>2
<1> QED
  BY <1>3, <1>4, <1>5

\* What starts at s, after p, and takes q, rounded, ends at most this late for what
\* ends by e exactly.
LEMMA EndRounded ==
  ASSUME NEW s \in Nat, NEW p \in Nat, NEW q \in Nat
  PROVE  /\ 2 * (Ms * (Floor(s) + Rint(p) + Rint(q))) <= 2 * (s + p + q) + Ms + Ms
         /\ p = 0 => 2 * (Ms * (Floor(s) + Rint(p) + Rint(q))) <= 2 * (s + q) + Ms
<1> DEFINE f == Floor(s)
           a == Rint(p)
           b == Rint(q)
<1>1. /\ f \in Nat /\ a \in Nat /\ b \in Nat /\ (p = 0 => a = 0)
      /\ Ms * f <= s /\ 2 * (Ms * a) <= 2 * p + Ms /\ 2 * (Ms * b) <= 2 * q + Ms
  BY FloorTyped, RintTyped
<1> HIDE DEF f, a, b
<1>2. /\ Ms * (f + a + b) = Ms * f + Ms * a + Ms * b
      /\ Ms * f \in Int /\ Ms * a \in Int /\ Ms * b \in Int
  <2>1. Ms * (f + a) = Ms * f + Ms * a /\ Ms * (f + a + b) = Ms * (f + a) + Ms * b
    BY <1>1, Multiples
  <2> QED
    BY <1>1, <2>1, Multiples
<1> DEFINE x == Ms * f
           y == Ms * a
           z == Ms * b
<1>3. x \in Int /\ y \in Int /\ z \in Int /\ x <= s /\ 2 * y <= 2 * p + Ms /\ 2 * z <= 2 * q + Ms
  BY <1>1, <1>2
<1>4. p = 0 => y = 0
  BY <1>1, MsTyped
<1> HIDE DEF x, y, z
<1>5. /\ 2 * (x + y + z) <= 2 * (s + p + q) + Ms + Ms
      /\ p = 0 => 2 * (x + y + z) <= 2 * (s + q) + Ms
  BY <1>3, <1>4, MsTyped
<1> QED
  BY <1>2, <1>5 DEF f, a, b, x, y, z

\* Emitted, what lies within something else keeps its start within, and ends at most
\* two milliseconds after, one if nothing goes before, none if both start together.
LEMMA WithinRounded ==
  ASSUME NEW S \in Nat, NEW T \in Nat, NEW s \in Nat, NEW p \in Nat, NEW q \in Nat,
         S <= s, s + p + q <= S + T
  PROVE  /\ Floor(S) <= Floor(s) + Rint(p)
         /\ Floor(s) + Rint(p) + Rint(q) <= Floor(S) + Rint(T) + 2
         /\ p = 0 => Floor(s) + Rint(p) + Rint(q) <= Floor(S) + Rint(T) + 1
         /\ Floor(s) + Rint(p) = Floor(S) => Rint(q) <= Rint(T)
<1> DEFINE e == Floor(s) + Rint(p) + Rint(q)
           f == Floor(S)
           r == Rint(T)
<1>1. /\ Floor(s) \in Nat /\ Rint(p) \in Nat /\ Rint(q) \in Nat /\ f \in Nat /\ r \in Nat /\ Ms \in Nat \ {0}
      /\ S < Ms * f + Ms /\ 2 * T <= 2 * (Ms * r) + Ms
  BY FloorTyped, RintTyped, MsTyped
<1>2. Floor(S) <= Floor(s)
  BY RoundingMonotone
<1>3. /\ 2 * (Ms * e) <= 2 * (s + p + q) + Ms + Ms
      /\ p = 0 => 2 * (Ms * e) <= 2 * (s + q) + Ms
  BY EndRounded
<1>4. e \in Nat
  BY <1>1
<1>5. f <= Floor(s) + Rint(p)
  BY <1>1, <1>2
<1>6. Floor(s) + Rint(p) = Floor(S) => Rint(q) <= Rint(T)
  <2>1. q <= T
    OBVIOUS
  <2> QED
    BY <2>1, RoundingMonotone
<1> HIDE DEF e, f, r
<1> DEFINE x == Ms * e
           y == Ms * f
           z == Ms * r
<1>7. x \in Int /\ y \in Int /\ z \in Int
  BY <1>1, <1>4, Multiples
<1>8. S < y + Ms /\ 2 * T <= 2 * z + Ms /\ 2 * x <= 2 * (s + p + q) + Ms + Ms
      /\ (p = 0 => 2 * x <= 2 * (s + q) + Ms)
  BY <1>1, <1>3
<1>9. Ms * (f + r + 3) = y + z + 3 * Ms /\ Ms * (f + r + 2) = y + z + 2 * Ms
  <2>1. Ms * (f + r) = y + z /\ Ms * (f + r + 3) = Ms * (f + r) + Ms * 3 /\ Ms * (f + r + 2) = Ms * (f + r) + Ms * 2
    BY <1>1, Multiples
  <2>2. Ms * 3 = 3 * Ms /\ Ms * 2 = 2 * Ms
    BY <1>1
  <2> QED
    BY <2>1, <2>2
<1> HIDE DEF x, y, z
<1>10. x < y + z + 3 * Ms
  BY <1>1, <1>7, <1>8
<1>11. p = 0 => x < y + z + 2 * Ms
  BY <1>1, <1>7, <1>8
<1>12. e < f + r + 3
  BY <1>1, <1>4, <1>9, <1>10, Multiples DEF x
<1>13. p = 0 => e < f + r + 2
  BY <1>1, <1>4, <1>9, <1>11, Multiples DEF x
<1>14. e <= f + r + 2 /\ (p = 0 => e <= f + r + 1)
  BY <1>1, <1>4, <1>12, <1>13
<1> QED
  BY <1>5, <1>6, <1>14 DEF e, f, r

\* Emitted, what ends by w exactly ends at most a millisecond after w's.
LEMMA ApartRounded ==
  ASSUME NEW s \in Nat, NEW p \in Nat, NEW q \in Nat, NEW w \in Nat, s + p + q <= w
  PROVE  Floor(s) + Rint(p) + Rint(q) <= Floor(w) + 1
<1> DEFINE e == Floor(s) + Rint(p) + Rint(q)
           f == Floor(w)
<1>1. /\ Floor(s) \in Nat /\ Rint(p) \in Nat /\ Rint(q) \in Nat /\ f \in Nat /\ Ms \in Nat \ {0}
      /\ w < Ms * f + Ms
  BY FloorTyped, RintTyped, MsTyped
<1>2. 2 * (Ms * e) <= 2 * (s + p + q) + Ms + Ms
  BY EndRounded
<1>3. e \in Nat
  BY <1>1
<1> HIDE DEF e, f
<1> DEFINE x == Ms * e
           y == Ms * f
<1>4. x \in Int /\ y \in Int /\ w < y + Ms /\ 2 * x <= 2 * (s + p + q) + Ms + Ms
  BY <1>1, <1>2, <1>3, Multiples
<1>5. Ms * (f + 2) = y + 2 * Ms
  <2>1. Ms * (f + 2) = y + Ms * 2 /\ Ms * 2 = 2 * Ms
    BY <1>1, Multiples
  <2> QED
    BY <2>1
<1> HIDE DEF x, y
<1>6. x < y + 2 * Ms
  BY <1>1, <1>4
<1>7. e < f + 2
  BY <1>1, <1>3, <1>5, <1>6, Multiples DEF x
<1> QED
  BY <1>1, <1>3, <1>7 DEF e, f

(***************************************************************************)
(* Attempts.                                                               *)
(***************************************************************************)
\* What an attempt shows of itself: the outcome that its class and its total give.
Shown(v, a) == \E class \in Drawn : a.out = OutcomeFor(v, class, a.total)

\* Endpoints have a sequence of attempts each, none without being invoked, and never
\* more than their retries allow.
AttemptsInv ==
  /\ Root \in Invoked /\ Invoked \subseteq EndpointsOf
  /\ DOMAIN attempts = EndpointsOf
  /\ \A v \in EndpointsOf :
       /\ \E S : attempts[v] \in Seq(S)
       /\ Len(attempts[v]) <= MaxAttempts(v)
       /\ attempts[v] # <<>> => v \in Invoked
       /\ \A k \in DOMAIN attempts[v] : Shown(v, attempts[v][k])

StageInv ==
  /\ pc \in {"invoke", "evaluate", "emit", "trees", "done"} /\ at \in 0 .. Len(Order) + 1
  /\ pc = "invoke" => at >= 2
  /\ pc = "evaluate" => at <= Len(Order)
  /\ worst \in {None} \cup 0 .. 3

\* Once lines are written there is one for each attempt, and then a link for each.
LinesInv ==
  /\ pc \notin {"trees", "done"} => lines = <<>> /\ parent = <<>>
  /\ pc = "trees" => parent = <<>>
  /\ pc = "done" => DOMAIN parent = DOMAIN lines
  /\ pc \in {"trees", "done"} =>
       /\ DOMAIN lines = Hops
       /\ \A h \in Hops : /\ lines[h].time = Duration(h) /\ lines[h].op = h[1]
                          /\ lines[h].status = Status(attempts[h[1]][h[2]].out)

ControlInv == StageInv /\ LinesInv

RequestInv == AttemptsInv /\ ControlInv

LEMMA OrderTyped ==
  /\ Len(Order) \in Nat \ {0}
  /\ \A i \in 1 .. Len(Order) : Order[i] \in EndpointsOf
  /\ Root \in EndpointsOf
<1>1. Len(Order) \in Nat \ {0} /\ DOMAIN Order = 1 .. Len(Order)
  BY RequestAssumption
<1>2. EndpointsOf = {Order[i] : i \in DOMAIN Order}
  BY DEF EndpointsOf, ToSet
<1> QED
  BY <1>1, <1>2 DEF Root

\* A sequence stays one when anything is appended to it.
LEMMA AppendTyped ==
  ASSUME NEW S, NEW s \in Seq(S), NEW a
  PROVE  /\ Append(s, a) \in Seq(S \cup {a})
         /\ Len(Append(s, a)) = Len(s) + 1
         /\ DOMAIN Append(s, a) = DOMAIN s \cup {Len(s) + 1}
         /\ \A k \in DOMAIN s : Append(s, a)[k] = s[k]
         /\ Append(s, a)[Len(s) + 1] = a
<1>1. s \in Seq(S \cup {a})
  OBVIOUS
<1> QED
  BY <1>1

\* The worst severity is one.
LEMMA WorstTyped ==
  ASSUME NEW v, NEW w \in WorstOf(v)
  PROVE  w \in 0 .. 3
<1>1. \A e : Severity(Final(Calls[e][2])) \in 0 .. 3
  BY DEF Severity
<1>2. PICK passed \in SUBSET Failing(v) :
        w = Max({0} \cup {Severity(Final(Calls[e][2])) : e \in passed})
  BY DEF WorstOf
<1> DEFINE S == {0} \cup {Severity(Final(Calls[e][2])) : e \in passed}
<1>3. S \subseteq 0 .. 3 /\ 0 \in S
  BY <1>1
<1> HIDE DEF S
<1>4. \E x \in S : \A y \in S : x >= y
  <2>1. CASE 3 \in S
    BY <1>3, <2>1
  <2>2. CASE 3 \notin S /\ 2 \in S
    BY <1>3, <2>2
  <2>3. CASE 3 \notin S /\ 2 \notin S /\ 1 \in S
    BY <1>3, <2>3
  <2>4. CASE 3 \notin S /\ 2 \notin S /\ 1 \notin S
    BY <1>3, <2>4
  <2> QED
    BY <2>1, <2>2, <2>3, <2>4
<1>5. Max(S) \in S
  BY <1>4 DEF Max
<1> QED
  BY <1>2, <1>3, <1>5 DEF S

LEMMA RequestInvInit == Init => RequestInv
<1> SUFFICES ASSUME Init PROVE RequestInv
  OBVIOUS
<1>1. AttemptsInv
  <2>1. Invoked = {Root}
    BY DEF Init, Invoked
  <2>2. \A v \in EndpointsOf : attempts[v] = <<>> /\ MaxAttempts(v) \in Nat
    BY RequestAssumption DEF Init, MaxAttempts
  <2> QED
    BY <2>1, <2>2, OrderTyped DEF Init, AttemptsInv
<1>2. ControlInv
  BY OrderTyped DEF Init, ControlInv, StageInv, LinesInv
<1> QED
  BY <1>1, <1>2 DEF RequestInv

LEMMA InvokeKeeps ==
  ASSUME RequestInv, Invoke
  PROVE  RequestInv'
<1>1. at \in 2 .. Len(Order) /\ Order[at] \in EndpointsOf
  BY OrderTyped DEF Invoke, RequestInv, ControlInv, StageInv, LinesInv
<1>2. Invoked \subseteq Invoked' /\ Invoked' \subseteq EndpointsOf
  BY <1>1 DEF Invoke, Invoked, RequestInv, AttemptsInv
<1>3. AttemptsInv'
  BY <1>2 DEF Invoke, RequestInv, AttemptsInv
<1>4. ControlInv'
  BY <1>1, OrderTyped DEF Invoke, RequestInv, ControlInv, StageInv, LinesInv
<1> QED
  BY <1>3, <1>4 DEF RequestInv

LEMMA AttemptKeeps ==
  ASSUME RequestInv, Attempt
  PROVE  RequestInv'
<1> DEFINE v == Order[at]
<1>1. at \in 1 .. Len(Order) /\ v \in EndpointsOf
  BY OrderTyped DEF Attempt, RequestInv, ControlInv, StageInv, LinesInv
<1>2. MayAttempt(v) /\ worst' \in (IF worst = None THEN WorstOf(v) ELSE {worst})
  BY DEF Attempt
<1> DEFINE waited == IF attempts[v] = <<>> THEN CalleeTime(v) ELSE Backoff
<1>3. PICK own \in OwnTimes :
        \E class \in (IF worst' = 0 THEN Classes ELSE Propagates[worst']) \cup Refused(v) :
          attempts' = [attempts EXCEPT ![v] = Append(@,
             [own |-> own, total |-> own + waited, out |-> OutcomeFor(v, class, own + waited)])]
  BY DEF Attempt
<1> HIDE DEF waited
<1>3a. PICK class \in (IF worst' = 0 THEN Classes ELSE Propagates[worst']) \cup Refused(v) :
        attempts' = [attempts EXCEPT ![v] = Append(@,
           [own |-> own, total |-> own + waited, out |-> OutcomeFor(v, class, own + waited)])]
  BY <1>3
<1> DEFINE a == [own |-> own, total |-> own + waited, out |-> OutcomeFor(v, class, own + waited)]
<1>4. PICK S : attempts[v] \in Seq(S)
  BY <1>1 DEF RequestInv, AttemptsInv
<1>5. class \in Drawn
  <2>1. worst' \in 0 .. 3
    BY <1>2, WorstTyped DEF RequestInv, ControlInv, StageInv, LinesInv
  <2> QED
    BY <2>1, RequestAssumption DEF Refused
<1>6. v \in Invoked /\ Len(attempts[v]) < MaxAttempts(v)
  <2>1. CASE attempts[v] = <<>>
    BY <1>2, <2>1, RequestAssumption DEF MayAttempt, MaxAttempts
  <2>2. CASE attempts[v] # <<>>
    BY <1>1, <1>2, <2>2 DEF MayAttempt, RequestInv, AttemptsInv
  <2> QED
    BY <2>1, <2>2
<1>7. AttemptsInv'
  <2>1. Shown(v, a)
    BY <1>5 DEF Shown
  <2> HIDE DEF a, v
  <2>2. /\ attempts'[v] = Append(attempts[v], a) /\ DOMAIN attempts' = EndpointsOf
        /\ \A w \in EndpointsOf \ {v} : attempts'[w] = attempts[w]
    BY <1>1, <1>3a DEF RequestInv, AttemptsInv, a, v
  <2>3. /\ \E T : attempts'[v] \in Seq(T)
        /\ Len(attempts'[v]) <= MaxAttempts(v)
        /\ \A k \in DOMAIN attempts'[v] : Shown(v, attempts'[v][k])
    <3>1. Len(attempts[v]) \in Nat /\ MaxAttempts(v) \in Nat
      BY <1>4, RequestAssumption DEF MaxAttempts
    <3>2. /\ attempts'[v] \in Seq(S \cup {a}) /\ Len(attempts'[v]) = Len(attempts[v]) + 1
          /\ DOMAIN attempts'[v] = DOMAIN attempts[v] \cup {Len(attempts[v]) + 1}
          /\ \A k \in DOMAIN attempts[v] : attempts'[v][k] = attempts[v][k]
          /\ attempts'[v][Len(attempts[v]) + 1] = a
      BY <1>4, <2>2, AppendTyped
    <3>3. \A k \in DOMAIN attempts[v] : Shown(v, attempts[v][k])
      BY <1>1 DEF RequestInv, AttemptsInv
    <3> QED
      BY <1>6, <2>1, <3>1, <3>2, <3>3
  <2>4. Invoked' = Invoked
    BY DEF Attempt, Invoked
  <2> QED
    BY <1>1, <1>6, <2>2, <2>3, <2>4 DEF RequestInv, AttemptsInv, MaxAttempts
<1>8. ControlInv'
  <2>1. worst' \in {None} \cup 0 .. 3
    BY <1>2, WorstTyped DEF RequestInv, ControlInv, StageInv, LinesInv
  <2> QED
    BY <2>1 DEF Attempt, RequestInv, ControlInv, StageInv, LinesInv
<1> QED
  BY <1>7, <1>8 DEF RequestInv

LEMMA EmitKeeps ==
  ASSUME RequestInv, Emit
  PROVE  RequestInv'
<1>1. AttemptsInv'
  BY DEF Emit, RequestInv, AttemptsInv, Invoked, Shown
<1>2. PICK late, skew : lines' = [h \in Hops |-> LineOf(h, IF h \in late THEN skew ELSE 0)]
  BY DEF Emit
<1>3. Hops' = Hops /\ attempts' = attempts
  BY DEF Emit, Hops
<1>4. \A h \in Hops : /\ lines'[h].time = Duration(h) /\ lines'[h].op = h[1]
                      /\ lines'[h].status = Status(attempts[h[1]][h[2]].out)
  BY <1>2 DEF LineOf
<1>5. ControlInv'
  BY <1>2, <1>3, <1>4 DEF Emit, RequestInv, ControlInv, StageInv, LinesInv, Duration
<1> QED
  BY <1>1, <1>5 DEF RequestInv

LEMMA RequestInvStep == RequestInv /\ [Next]_vars => RequestInv'
<1> SUFFICES ASSUME RequestInv, [Next]_vars PROVE RequestInv'
  OBVIOUS
<1>1. CASE Invoke
  BY <1>1, InvokeKeeps
<1>2. CASE Attempt
  BY <1>2, AttemptKeeps
<1>3. CASE Emit
  BY <1>3, EmitKeeps
<1>4. CASE StartEvaluating \/ Settle \/ Time \/ BuildTrees \/ UNCHANGED vars
  <2>1. UNCHANGED <<caller, attempts>>
    BY <1>4 DEF StartEvaluating, Settle, Time, BuildTrees, vars
  <2>2. AttemptsInv'
    BY <2>1 DEF RequestInv, AttemptsInv, Invoked, Shown
  <2>3. StageInv'
    BY <1>4, OrderTyped DEF StartEvaluating, Settle, Time, BuildTrees, vars, RequestInv,
                            ControlInv, StageInv
  <2>4. LinesInv'
    <3>1. Hops' = Hops
      BY <2>1 DEF Hops
    <3>2. CASE StartEvaluating \/ Settle \/ Time
      BY <3>2 DEF StartEvaluating, Settle, Time, RequestInv, ControlInv, LinesInv
    <3>3. CASE BuildTrees
      BY <2>1, <3>1, <3>3 DEF BuildTrees, RequestInv, ControlInv, LinesInv, Duration
    <3>4. CASE UNCHANGED vars
      BY <3>1, <3>4 DEF vars, RequestInv, ControlInv, LinesInv, Duration
    <3> QED
      BY <1>4, <3>2, <3>3, <3>4
  <2> QED
    BY <2>2, <2>3, <2>4 DEF RequestInv, ControlInv
<1> QED
  BY <1>1, <1>2, <1>3, <1>4 DEF Next

LEMMA RequestInvHolds == Spec => []RequestInv
BY RequestInvInit, RequestInvStep, PTL DEF Spec

(***************************************************************************)
(* Calls and times.                                                        *)
(***************************************************************************)
\* An invoked endpoint hangs under an invoked caller, by a call of that caller.
CallersInv ==
  \A w \in Invoked \ {Root} : /\ caller[w] \in Invoked
                              /\ \E e \in EdgesFrom(caller[w]) : Calls[e][2] = w

\* Endpoints are evaluated from the last to the first, each until it is settled, so that
\* whatever an endpoint waits for no longer changes when it makes its first attempt.
SettledInv ==
  /\ pc = "invoke" => \A v \in EndpointsOf : attempts[v] = <<>>
  /\ pc = "evaluate" => \A i \in DOMAIN Order :
       /\ i < at => attempts[Order[i]] = <<>>
       /\ i > at /\ Order[i] \in Invoked => attempts[Order[i]] # <<>>
  /\ pc \notin {"invoke", "evaluate"} => \A v \in Invoked : attempts[v] # <<>>

DurationsInv ==
  \A v \in EndpointsOf :
    /\ \A k \in DOMAIN attempts[v] : attempts[v][k].own \in Nat /\ attempts[v][k].total \in Nat
    /\ attempts[v] # <<>> => attempts[v][1].total = attempts[v][1].own + CalleeTime(v)

\* A call made by an endpoint begins after half its own time and the calls before.
Called(v) == attempts[caller[v]][1].own \div 2 + Wait(caller[v], FirstCall(v)) + start[caller[v]]
StartsInv ==
  pc \in {"emit", "trees", "done"} => \A v \in Invoked :
    /\ start[v] \in Nat
    /\ start[v] = IF v = Root THEN 0 ELSE Called(v)

\* Lines say of their attempts what the clock of their pod lets them say.
StampsInv ==
  /\ pc \in {"trees", "done"} =>
       /\ \A h \in Hops : \E skew \in Skews \cup {0} : lines[h] = LineOf(h, skew)
       /\ clientTs \in {None, HopEnd(<<Root, 1>>) + CLIENT_DELAY}
  /\ pc = "done" => \A h \in Hops : parent[h] = InferredParent(h)

TimesInv == CallersInv /\ SettledInv /\ DurationsInv /\ StartsInv /\ StampsInv

LEMMA EdgesTyped ==
  ASSUME NEW v
  PROVE  /\ EdgesFrom(v) \subseteq DOMAIN Calls /\ IsFiniteSet(EdgesFrom(v))
         /\ EdgesFrom(v) \subseteq Nat
<1>1. Len(Calls) \in Nat /\ DOMAIN Calls = 1 .. Len(Calls)
  BY TopologicalOrder
<1>2. IsFiniteSet(1 .. Len(Calls))
  <2>1. 1 \in Int /\ Len(Calls) \in Int
    BY <1>1
  <2> QED
    BY <2>1, FS_Interval
<1>3. EdgesFrom(v) \subseteq 1 .. Len(Calls)
  BY <1>1 DEF EdgesFrom
<1> QED
  BY <1>1, <1>2, <1>3, FS_Subset

\* Callees come after their callers.
LEMMA CalleeLater ==
  ASSUME NEW i \in DOMAIN Order, NEW e \in EdgesFrom(Order[i])
  PROVE  \E j \in DOMAIN Order : i < j /\ Order[j] = Calls[e][2]
BY TopologicalOrder DEF EdgesFrom

LEMMA EndpointHasPlace ==
  ASSUME NEW v \in EndpointsOf
  PROVE  \E i \in DOMAIN Order : Order[i] = v
BY DEF EndpointsOf, ToSet

LEMMA CalleeIsEndpoint ==
  ASSUME NEW v \in EndpointsOf, NEW e \in EdgesFrom(v)
  PROVE  Calls[e][2] \in EndpointsOf
<1>1. PICK i \in DOMAIN Order : Order[i] = v
  BY EndpointHasPlace
<1>2. PICK j \in DOMAIN Order : Order[j] = Calls[e][2]
  BY <1>1, CalleeLater
<1> QED
  BY <1>2 DEF EndpointsOf, ToSet

LEMMA AttemptsFinite ==
  ASSUME AttemptsInv, NEW v \in EndpointsOf
  PROVE  /\ Len(attempts[v]) \in Nat /\ DOMAIN attempts[v] = 1 .. Len(attempts[v])
         /\ IsFiniteSet(DOMAIN attempts[v])
         /\ attempts[v] # <<>> => 1 \in DOMAIN attempts[v]
<1>1. PICK S : attempts[v] \in Seq(S)
  BY DEF AttemptsInv
<1>2. Len(attempts[v]) \in Nat /\ DOMAIN attempts[v] = 1 .. Len(attempts[v])
  BY <1>1
<1>3. IsFiniteSet(1 .. Len(attempts[v]))
  <2>1. 1 \in Int /\ Len(attempts[v]) \in Int
    BY <1>2
  <2> QED
    BY <2>1, FS_Interval
<1>4. attempts[v] # <<>> => Len(attempts[v]) # 0
  BY <1>1
<1> QED
  BY <1>2, <1>3, <1>4

TotalsOf(v) == [k \in DOMAIN attempts[v] |-> attempts[v][k].total]
LEMMA TotalTyped ==
  ASSUME AttemptsInv, DurationsInv, NEW v \in EndpointsOf
  PROVE  /\ IsTerms(TotalsOf(v), DOMAIN attempts[v])
         /\ Total(v) = SumFunction(TotalsOf(v)) /\ Total(v) \in Nat
<1>1. IsTerms(TotalsOf(v), DOMAIN attempts[v])
  BY AttemptsFinite DEF IsTerms, TotalsOf, DurationsInv
<1>2. Total(v) = SumFunction(TotalsOf(v))
  BY DEF Total, TotalsOf
<1> HIDE DEF TotalsOf
<1> QED
  BY <1>1, <1>2, SumTyped

CalleeTotals(v) == [e \in EdgesFrom(v) |-> Total(Calls[e][2])]
LEMMA CalleeTimeTyped ==
  ASSUME AttemptsInv, DurationsInv, NEW v \in EndpointsOf
  PROVE  /\ IsTerms(CalleeTotals(v), EdgesFrom(v))
         /\ CalleeTime(v) = SumFunction(CalleeTotals(v)) /\ CalleeTime(v) \in Nat
<1>1. IsTerms(CalleeTotals(v), EdgesFrom(v))
  <2>1. \A e \in EdgesFrom(v) : Total(Calls[e][2]) \in Nat
    BY CalleeIsEndpoint, TotalTyped
  <2> QED
    BY <2>1, EdgesTyped DEF IsTerms, CalleeTotals
<1>2. CalleeTime(v) = SumFunction(CalleeTotals(v))
  BY DEF CalleeTime, CalleeTotals
<1> HIDE DEF CalleeTotals
<1> QED
  BY <1>1, <1>2, SumTyped

WaitTotals(v, e) == [x \in {y \in Own(v) : y < e} |-> Total(Calls[x][2])]
LEMMA WaitTyped ==
  ASSUME AttemptsInv, DurationsInv, NEW v \in EndpointsOf, NEW e
  PROVE  /\ IsTerms(WaitTotals(v, e), {y \in Own(v) : y < e})
         /\ Wait(v, e) = SumFunction(WaitTotals(v, e)) /\ Wait(v, e) \in Nat
<1>1. {y \in Own(v) : y < e} \subseteq EdgesFrom(v)
  BY DEF Own
<1>2. IsTerms(WaitTotals(v, e), {y \in Own(v) : y < e})
  <2>1. \A x \in EdgesFrom(v) : Total(Calls[x][2]) \in Nat
    BY CalleeIsEndpoint, TotalTyped
  <2>2. IsFiniteSet({y \in Own(v) : y < e})
    BY <1>1, EdgesTyped, FS_Subset
  <2> QED
    BY <1>1, <2>1, <2>2 DEF IsTerms, WaitTotals
<1>3. Wait(v, e) = SumFunction(WaitTotals(v, e))
  BY DEF Wait, WaitTotals
<1> HIDE DEF WaitTotals
<1> QED
  BY <1>2, <1>3, SumTyped

LEMMA TimesInvInit == Init => TimesInv
<1> SUFFICES ASSUME Init PROVE TimesInv
  OBVIOUS
<1>1. Invoked = {Root}
  BY DEF Init, Invoked
<1>2. \A v \in EndpointsOf : attempts[v] = <<>>
  BY DEF Init
<1>3. CallersInv
  BY <1>1 DEF CallersInv
<1> QED
  BY <1>2, <1>3 DEF Init, TimesInv, SettledInv, DurationsInv, StartsInv, StampsInv

\* What the sums are of does not change where nothing they read does.
LEMMA TimesUnchanged ==
  ASSUME UNCHANGED <<caller, attempts>>
  PROVE  /\ Invoked' = Invoked /\ Hops' = Hops
         /\ \A v : Total(v)' = Total(v)
         /\ \A v : CalleeTime(v)' = CalleeTime(v)
         /\ \A v, e : Wait(v, e)' = Wait(v, e)
         /\ \A v : FirstCall(v)' = FirstCall(v)
<1>1. Invoked' = Invoked /\ Hops' = Hops
  BY DEF Invoked, Hops
<1>2. \A v : Total(v)' = Total(v)
  BY DEF Total
<1>3. \A v : CalleeTime(v)' = CalleeTime(v)
  BY <1>2 DEF CalleeTime, EdgesFrom
<1>4. \A v : Own(v)' = Own(v)
  BY <1>1 DEF Own, EdgesFrom
<1>5. \A v, e : Wait(v, e)' = Wait(v, e)
  BY <1>2, <1>4 DEF Wait
<1>6. \A v : FirstCall(v)' = FirstCall(v)
  BY <1>4 DEF FirstCall
<1> QED
  BY <1>1, <1>2, <1>3, <1>5, <1>6

LEMMA InvokeKeepsTimes ==
  ASSUME RequestInv, TimesInv, Invoke
  PROVE  TimesInv'
<1> DEFINE v == Order[at]
           offered == {e \in EdgesTo(v) : Calls[e][1] \in Invoked}
<1>1. PICK made \in SUBSET offered :
        /\ offered \ Optional \subseteq made
        /\ caller' = IF made = {} THEN caller
                     ELSE [w \in Invoked \cup {v} |-> IF w = v THEN Calls[Min(made)][1] ELSE caller[w]]
  BY DEF Invoke
<1>2. at \in DOMAIN Order /\ at # 1 /\ 1 \in DOMAIN Order
  BY OrderTyped, RequestAssumption DEF Invoke, RequestInv, ControlInv, StageInv
<1>3. v # Root
  BY <1>2, TopologicalOrder DEF Root
<1>4. CallersInv'
  <2>1. CASE made = {}
    <3>1. caller' = caller
      BY <1>1, <2>1
    <3> QED
      BY <3>1 DEF TimesInv, CallersInv, Invoked, EdgesFrom
  <2>2. CASE made # {}
    <3> DEFINE first == Min(made)
    <3>1. first \in made
      <4>1. made \in SUBSET Nat
        BY TopologicalOrder DEF EdgesTo
      <4>2. \E x \in made : \A y \in made : x <= y
        <5> HIDE DEF offered
        <5> QED
          BY <2>2, <4>1, LeastNatural
      <4> QED
        BY <4>2 DEF Min
    <3> HIDE DEF first
    <3>2. first \in DOMAIN Calls /\ Calls[first][2] = v /\ Calls[first][1] \in Invoked
      BY <3>1 DEF EdgesTo
    <3>3. caller' = [w \in Invoked \cup {v} |-> IF w = v THEN Calls[first][1] ELSE caller[w]]
      BY <1>1, <2>2 DEF first
    <3>4. Invoked' = Invoked \cup {v}
      BY <3>3 DEF Invoked
    <3> SUFFICES ASSUME NEW w \in Invoked' \ {Root}
                 PROVE  /\ caller'[w] \in Invoked'
                        /\ \E e \in EdgesFrom(caller'[w]) : Calls[e][2] = w
      BY DEF CallersInv, EdgesFrom
    <3> HIDE DEF v
    <3>5. CASE w = v
      BY <3>2, <3>3, <3>4, <3>5 DEF EdgesFrom
    <3>6. CASE w # v
      <4>1. w \in Invoked \ {Root} /\ caller'[w] = caller[w]
        BY <3>3, <3>4, <3>6
      <4> QED
        BY <3>4, <4>1 DEF TimesInv, CallersInv
    <3> QED
      BY <3>5, <3>6
  <2> QED
    BY <2>1, <2>2
<1>5. SettledInv'
  BY DEF Invoke, TimesInv, SettledInv
<1>6. DurationsInv'
  BY DEF Invoke, TimesInv, SettledInv, DurationsInv
<1>7. StartsInv' /\ StampsInv'
  BY DEF Invoke, StartsInv, StampsInv
<1> QED
  BY <1>4, <1>5, <1>6, <1>7 DEF TimesInv

LEMMA AttemptKeepsTimes ==
  ASSUME RequestInv, TimesInv, Attempt
  PROVE  TimesInv'
<1> DEFINE v == Order[at]
           waited == IF attempts[v] = <<>> THEN CalleeTime(v) ELSE Backoff
<1>1. at \in DOMAIN Order /\ v \in EndpointsOf /\ pc = "evaluate" /\ pc' = pc /\ at' = at
  BY OrderTyped, RequestAssumption DEF Attempt, RequestInv, ControlInv, StageInv
<1>2. PICK own \in OwnTimes :
        \E class \in (IF worst' = 0 THEN Classes ELSE Propagates[worst']) \cup Refused(v) :
          attempts' = [attempts EXCEPT ![v] = Append(@,
             [own |-> own, total |-> own + waited, out |-> OutcomeFor(v, class, own + waited)])]
  BY DEF Attempt
<1>3. PICK class :
        attempts' = [attempts EXCEPT ![v] = Append(@,
           [own |-> own, total |-> own + waited, out |-> OutcomeFor(v, class, own + waited)])]
  BY <1>2
<1> DEFINE a == [own |-> own, total |-> own + waited, out |-> OutcomeFor(v, class, own + waited)]
<1>4. own \in Nat /\ waited \in Nat
  <2>1. CalleeTime(v) \in Nat /\ Backoff \in Nat
    BY <1>1, CalleeTimeTyped, RequestAssumption DEF RequestInv, TimesInv
  <2> QED
    BY <2>1, RequestAssumption
<1>5. /\ attempts'[v] = Append(attempts[v], a) /\ DOMAIN attempts' = EndpointsOf
      /\ \A w \in EndpointsOf \ {v} : attempts'[w] = attempts[w]
  <2> HIDE DEF v, waited
  <2> QED
    BY <1>1, <1>3 DEF RequestInv, AttemptsInv
<1>6. /\ Len(attempts[v]) \in Nat
      /\ DOMAIN attempts'[v] = DOMAIN attempts[v] \cup {Len(attempts[v]) + 1}
      /\ \A k \in DOMAIN attempts[v] : attempts'[v][k] = attempts[v][k]
      /\ attempts'[v][Len(attempts[v]) + 1] = a
      /\ attempts'[v] # <<>>
      /\ attempts[v] = <<>> => attempts'[v][1] = a
      /\ attempts[v] # <<>> => attempts'[v][1] = attempts[v][1]
  <2> HIDE DEF v, a
  <2>1. PICK S : attempts[v] \in Seq(S)
    BY <1>1 DEF RequestInv, AttemptsInv
  <2>2. /\ DOMAIN attempts'[v] = DOMAIN attempts[v] \cup {Len(attempts[v]) + 1}
        /\ \A k \in DOMAIN attempts[v] : attempts'[v][k] = attempts[v][k]
        /\ attempts'[v][Len(attempts[v]) + 1] = a
    BY <1>5, <2>1, AppendTyped
  <2>3. Len(attempts[v]) \in Nat /\ (attempts[v] = <<>> => Len(attempts[v]) = 0)
    BY <2>1
  <2>4. attempts[v] # <<>> => 1 \in DOMAIN attempts[v]
    BY <1>1, AttemptsFinite DEF RequestInv
  <2>5. attempts'[v] # <<>>
    BY <2>2
  <2> QED
    BY <2>2, <2>3, <2>4, <2>5
\* The callees of an endpoint that has made an attempt, or makes one, make none.
<1>7. \A w \in EndpointsOf : w = v \/ attempts[w] # <<>> =>
        \A e \in EdgesFrom(w) : Calls[e][2] \in EndpointsOf \ {v}
  <2> SUFFICES ASSUME NEW w \in EndpointsOf, w = v \/ attempts[w] # <<>>, NEW e \in EdgesFrom(w)
               PROVE  Calls[e][2] \in EndpointsOf \ {v}
    OBVIOUS
  <2>1. PICK i \in DOMAIN Order : Order[i] = w
    BY EndpointHasPlace
  <2>2. PICK j \in DOMAIN Order : i < j /\ Order[j] = Calls[e][2]
    BY <2>1, CalleeLater
  <2>3. i >= at
    <3>1. i \in Nat /\ at \in Nat
      BY <1>1, RequestAssumption
    <3>2. CASE w = v
      BY <1>1, <2>1, <3>1, <3>2, TopologicalOrder
    <3>3. CASE attempts[w] # <<>>
      BY <1>1, <2>1, <3>1, <3>3 DEF TimesInv, SettledInv
    <3> QED
      BY <3>2, <3>3
  <2>4. j # at
    BY <1>1, <2>2, <2>3, RequestAssumption
  <2>5. Order[j] # v
    BY <1>1, <2>4, TopologicalOrder
  <2> QED
    BY <2>2, <2>5 DEF EndpointsOf, ToSet
<1>8. \A w \in EndpointsOf : w = v \/ attempts[w] # <<>> => CalleeTime(w)' = CalleeTime(w)
  <2> SUFFICES ASSUME NEW w \in EndpointsOf, w = v \/ attempts[w] # <<>>
               PROVE  CalleeTime(w)' = CalleeTime(w)
    OBVIOUS
  <2>1. \A e \in EdgesFrom(w) : attempts'[Calls[e][2]] = attempts[Calls[e][2]]
    BY <1>5, <1>7
  <2>2. \A e \in EdgesFrom(w) : Total(Calls[e][2])' = Total(Calls[e][2])
    BY <2>1 DEF Total
  <2> QED
    BY <2>2 DEF CalleeTime, EdgesFrom
<1>9. Invoked' = Invoked /\ caller' = caller
  BY DEF Attempt, Invoked
<1>10. CallersInv'
  BY <1>9 DEF TimesInv, CallersInv, EdgesFrom
<1>11. SettledInv'
  <2>1. ASSUME NEW i \in DOMAIN Order, i < at PROVE attempts'[Order[i]] = <<>>
    <3>1. i # at
      BY <1>1, <2>1, RequestAssumption
    <3>2. Order[i] \in EndpointsOf \ {v}
      BY <1>1, <3>1, TopologicalOrder DEF EndpointsOf, ToSet
    <3>3. attempts[Order[i]] = <<>>
      BY <1>1, <2>1 DEF TimesInv, SettledInv
    <3> QED
      BY <1>5, <3>2, <3>3
  <2>2. ASSUME NEW i \in DOMAIN Order, i > at, Order[i] \in Invoked PROVE attempts'[Order[i]] # <<>>
    <3>1. i # at
      BY <1>1, <2>2, RequestAssumption
    <3>2. Order[i] \in EndpointsOf \ {v}
      BY <1>1, <3>1, TopologicalOrder DEF EndpointsOf, ToSet
    <3>3. attempts[Order[i]] # <<>>
      BY <1>1, <2>2 DEF TimesInv, SettledInv
    <3> QED
      BY <1>5, <3>2, <3>3
  <2> QED
    BY <1>1, <1>9, <2>1, <2>2 DEF SettledInv
<1>12. DurationsInv'
  <2> SUFFICES ASSUME NEW w \in EndpointsOf
               PROVE  /\ \A k \in DOMAIN attempts'[w] :
                           attempts'[w][k].own \in Nat /\ attempts'[w][k].total \in Nat
                      /\ attempts'[w] # <<>> =>
                           attempts'[w][1].total = attempts'[w][1].own + CalleeTime(w)'
    BY DEF DurationsInv
  <2>1. CASE w # v
    <3>1. attempts'[w] = attempts[w]
      BY <1>5, <2>1
    <3> QED
      BY <1>8, <3>1 DEF TimesInv, DurationsInv
  <2>2. CASE w = v
    <3>1. a.own = own /\ a.total = own + waited /\ a.own \in Nat /\ a.total \in Nat
      BY <1>4
    <3>2. \A k \in DOMAIN attempts[v] : attempts[v][k].own \in Nat /\ attempts[v][k].total \in Nat
      BY <1>1 DEF TimesInv, DurationsInv
    <3>3. CalleeTime(w)' = CalleeTime(w)
      BY <1>8, <2>2
    <3>4. ASSUME NEW k \in DOMAIN attempts'[v]
          PROVE  attempts'[v][k].own \in Nat /\ attempts'[v][k].total \in Nat
      <4> HIDE DEF v, a
      <4> QED
        BY <1>6, <3>1, <3>2
    <3>5. attempts'[v][1].total = attempts'[v][1].own + CalleeTime(v)
      <4>1. CASE attempts[v] = <<>>
        <5>1. waited = CalleeTime(v)
          BY <4>1
        <5> HIDE DEF a, waited, v
        <5> QED
          BY <1>6, <3>1, <4>1, <5>1
      <4>2. CASE attempts[v] # <<>>
        <5>1. attempts[v][1].total = attempts[v][1].own + CalleeTime(v)
          BY <1>1, <4>2 DEF TimesInv, DurationsInv
        <5> HIDE DEF v, a
        <5> QED
          BY <1>6, <4>2, <5>1
      <4> QED
        BY <4>1, <4>2
    <3> HIDE DEF a, v
    <3> QED
      BY <2>2, <3>3, <3>4, <3>5
  <2> QED
    BY <2>1, <2>2
<1>13. StartsInv' /\ StampsInv'
  BY <1>1 DEF StartsInv, StampsInv
<1> QED
  BY <1>10, <1>11, <1>12, <1>13 DEF TimesInv

LEMMA TimeKeepsTimes ==
  ASSUME RequestInv, TimesInv, Time
  PROVE  TimesInv'
<1>1. UNCHANGED <<caller, attempts>> /\ pc = "evaluate" /\ pc' = "emit" /\ at = 0
  BY DEF Time
<1>2. /\ Invoked' = Invoked
      /\ \A v : Total(v)' = Total(v)
      /\ \A v : CalleeTime(v)' = CalleeTime(v)
      /\ \A v, e : Wait(v, e)' = Wait(v, e)
      /\ \A v : FirstCall(v)' = FirstCall(v)
  BY <1>1, TimesUnchanged
<1>3. \A v \in Invoked : attempts[v] # <<>>
  <2> SUFFICES ASSUME NEW v \in Invoked PROVE attempts[v] # <<>>
    OBVIOUS
  <2>1. PICK i \in DOMAIN Order : Order[i] = v
    BY EndpointHasPlace DEF RequestInv, AttemptsInv
  <2>2. i > 0
    BY <2>1, RequestAssumption
  <2> QED
    BY <1>1, <2>1, <2>2 DEF TimesInv, SettledInv
<1>4. CallersInv' /\ SettledInv' /\ DurationsInv' /\ StampsInv'
  BY <1>1, <1>2, <1>3 DEF TimesInv, CallersInv, SettledInv, DurationsInv, StampsInv
<1> DEFINE PlaceOf(v) == CHOOSE i \in DOMAIN Order : Order[i] = v
           rank == [v \in Invoked |-> PlaceOf(v)]
           up == [v \in Invoked |-> IF v = Root THEN v ELSE caller[v]]
           step == [v \in Invoked |-> IF v = Root THEN 0 ELSE
                      attempts[caller[v]][1].own \div 2 + Wait(caller[v], FirstCall(v))]
<1>5. \A v \in EndpointsOf : PlaceOf(v) \in DOMAIN Order /\ Order[PlaceOf(v)] = v
  BY EndpointHasPlace
<1>6. Invoked \subseteq EndpointsOf /\ Root \in Invoked
  BY DEF RequestInv, AttemptsInv
<1>7. \A v \in Invoked \ {Root} : caller[v] \in Invoked
  BY DEF TimesInv, CallersInv
<1>8. rank \in [Invoked -> Nat] /\ up \in [Invoked -> Invoked]
  BY <1>5, <1>6, <1>7, RequestAssumption
<1>9. step \in [Invoked -> Nat]
  <2> SUFFICES ASSUME NEW v \in Invoked \ {Root}
               PROVE  attempts[caller[v]][1].own \div 2 + Wait(caller[v], FirstCall(v)) \in Nat
    OBVIOUS
  <2>1. caller[v] \in EndpointsOf /\ attempts[caller[v]] # <<>>
    BY <1>3, <1>6, <1>7
  <2>2. attempts[caller[v]][1].own \in Nat
    BY <2>1, AttemptsFinite DEF RequestInv, TimesInv, DurationsInv
  <2>3. Wait(caller[v], FirstCall(v)) \in Nat
    BY <2>1, WaitTyped DEF RequestInv, TimesInv
  <2> DEFINE n == attempts[caller[v]][1].own
             m == Wait(caller[v], FirstCall(v))
  <2>4. n \in Nat /\ m \in Nat
    BY <2>2, <2>3
  <2> HIDE DEF n, m
  <2>5. n \div 2 + m \in Nat
    BY <2>4
  <2> QED
    BY <2>5 DEF n, m
<1>10. \A v \in Invoked \ {Root} : rank[up[v]] < rank[v]
  <2> SUFFICES ASSUME NEW v \in Invoked \ {Root} PROVE PlaceOf(caller[v]) < PlaceOf(v)
    BY <1>7
  <2>1. PICK e \in EdgesFrom(caller[v]) : Calls[e][2] = v
    BY DEF TimesInv, CallersInv
  <2>2. PICK j \in DOMAIN Order : PlaceOf(caller[v]) < j /\ Order[j] = v
    BY <1>5, <1>6, <1>7, <2>1, CalleeLater
  <2>3. PlaceOf(v) = j
    BY <1>5, <1>6, <2>2, TopologicalOrder
  <2> QED
    BY <2>2, <2>3
<1>11. IsPath(Invoked, {Root}, rank, up, step)
  BY <1>8, <1>9, <1>10 DEF IsPath
<1> DEFINE IsStart(G) == G = [v \in Invoked |->
             IF v = Root THEN 0
             ELSE LET u == caller[v] IN attempts[u][1].own \div 2 + Wait(u, FirstCall(v)) + G[u]]
<1>12. start' = CHOOSE G : IsStart(G)
  BY DEF Time
\* Its equation is that of a path.
<1>13. ASSUME NEW v \in Invoked \ {Root}
       PROVE  /\ up[v] = caller[v]
              /\ step[v] = attempts[caller[v]][1].own \div 2 + Wait(caller[v], FirstCall(v))
  OBVIOUS
<1>14. \E G : IsStart(G)
  <2>1. PICK G \in [Invoked -> Nat] :
          \A v \in Invoked : G[v] = IF v \in {Root} THEN 0 ELSE step[v] + G[up[v]]
    <3> HIDE DEF rank, up, step
    <3> QED
      BY <1>11, PathRecursion
  <2>2. ASSUME NEW v \in Invoked
        PROVE  G[v] = IF v = Root THEN 0
                      ELSE attempts[caller[v]][1].own \div 2 + Wait(caller[v], FirstCall(v)) + G[caller[v]]
    BY <1>13, <2>1
  <2>3. IsStart(G)
    BY <2>1, <2>2
  <2> QED
    BY <2>3
<1>15. IsStart(start')
  BY <1>12, <1>14
<1>16. \A v \in Invoked :
         start'[v] = IF v = Root THEN 0
                     ELSE attempts[caller[v]][1].own \div 2 + Wait(caller[v], FirstCall(v)) + start'[caller[v]]
  BY <1>15
<1> HIDE DEF IsStart
<1>17. \A v \in Invoked : start'[v] \in Nat
  <2>1. \A v \in Invoked : start'[v] = IF v \in {Root} THEN 0 ELSE step[v] + start'[up[v]]
    BY <1>13, <1>16
  <2> HIDE DEF rank, up, step
  <2> QED
    BY <1>11, <2>1, PathValuesAreNaturals
<1>18. StartsInv'
  BY <1>1, <1>2, <1>16, <1>17 DEF StartsInv, Called
<1> QED
  BY <1>4, <1>18 DEF TimesInv

LEMMA LinksUnchanged ==
  ASSUME UNCHANGED lines
  PROVE  \A h : InferredParent(h)' = InferredParent(h)
BY DEF InferredParent, CandidatesOf, Tighter, Lexicographic, Violation, LineStart, RequestTime,
       Over, IsEdge, Edge

\* The steps of the engine's end and of the correlator leave calls and attempts alone.
LEMMA StepKeepsTimes ==
  ASSUME RequestInv, TimesInv, StartEvaluating \/ Settle \/ Emit \/ BuildTrees \/ UNCHANGED vars
  PROVE  TimesInv'
<1>1. UNCHANGED <<caller, attempts, start>>
  BY DEF StartEvaluating, Settle, Emit, BuildTrees, vars
<1>2. /\ Invoked' = Invoked /\ Hops' = Hops
      /\ \A v : Total(v)' = Total(v)
      /\ \A v : CalleeTime(v)' = CalleeTime(v)
      /\ \A v, e : Wait(v, e)' = Wait(v, e)
      /\ \A v : FirstCall(v)' = FirstCall(v)
  BY <1>1, TimesUnchanged
<1>3. CallersInv' /\ DurationsInv'
  BY <1>1, <1>2 DEF TimesInv, CallersInv, DurationsInv
<1>4. SettledInv'
  <2>1. Len(Order) \in Nat /\ DOMAIN Order = 1 .. Len(Order) /\ at \in 0 .. Len(Order) + 1
    BY RequestAssumption DEF RequestInv, ControlInv, StageInv
  <2>2. CASE StartEvaluating
    <3>1. pc = "invoke" /\ pc' = "evaluate" /\ at' = Len(Order)
      BY <2>2 DEF StartEvaluating
    <3>2. \A i \in DOMAIN Order : Order[i] \in EndpointsOf
      BY DEF EndpointsOf, ToSet
    <3>3. \A i \in DOMAIN Order : ~(i > at')
      BY <2>1, <3>1
    <3> QED
      BY <1>1, <3>1, <3>2, <3>3 DEF TimesInv, SettledInv
  <2>3. CASE Settle
    <3>1. pc = "evaluate" /\ pc' = pc /\ at' = at - 1 /\ at \in 1 .. Len(Order)
          /\ (Order[at] \in Invoked => attempts[Order[at]] # <<>>)
      BY <2>1, <2>3 DEF Settle, RequestInv, ControlInv, StageInv
    <3>2. \A i \in DOMAIN Order : /\ i < at' => i < at
                                  /\ i > at' => i > at \/ i = at
      BY <2>1, <3>1
    <3> QED
      BY <1>1, <1>2, <3>1, <3>2 DEF TimesInv, SettledInv
  <2>4. CASE Emit \/ BuildTrees
    BY <1>1, <1>2, <2>4 DEF Emit, BuildTrees, TimesInv, SettledInv
  <2>5. CASE UNCHANGED vars
    BY <1>2, <2>5 DEF vars, TimesInv, SettledInv
  <2> QED
    BY <2>2, <2>3, <2>4, <2>5
<1>5. StartsInv'
  <2>1. \A v : Called(v)' = Called(v)
    BY <1>1, <1>2 DEF Called
  <2>2. pc' \in {"emit", "trees", "done"} => pc \in {"emit", "trees", "done"}
    BY DEF StartEvaluating, Settle, Emit, BuildTrees, vars
  <2> QED
    BY <1>1, <1>2, <2>1, <2>2 DEF TimesInv, StartsInv
<1>6. StampsInv'
  <2>1. \A h : HopEnd(h)' = HopEnd(h) /\ Duration(h)' = Duration(h)
    <3>1. \A h : HopStart(h)' = HopStart(h) /\ Duration(h)' = Duration(h)
      BY <1>1 DEF HopStart, Before, Duration
    <3> QED
      BY <1>1, <3>1 DEF HopEnd
  <2>2. \A h, skew : LineOf(h, skew)' = LineOf(h, skew)
    BY <1>1, <2>1 DEF LineOf
  <2>3. CASE StartEvaluating \/ Settle
    BY <2>3 DEF StartEvaluating, Settle, StampsInv
  <2>4. CASE Emit
    <3>1. PICK late \in UNION {kSubset(n, Hops) : n \in 0 .. MaxSkewed}, skew \in Skews :
                lines' = [h \in Hops |-> LineOf(h, IF h \in late THEN skew ELSE 0)]
      BY <2>4 DEF Emit
    <3>2. \A h \in Hops : \E s \in Skews \cup {0} : lines'[h] = LineOf(h, s)
      BY <3>1
    <3>3. clientTs' \in {None, HopEnd(<<Root, 1>>) + CLIENT_DELAY} /\ pc' = "trees"
      BY <2>4 DEF Emit
    <3> QED
      BY <1>2, <2>1, <2>2, <3>2, <3>3 DEF StampsInv
  <2>5. CASE BuildTrees
    <3>1. UNCHANGED <<lines, clientTs>> /\ pc = "trees"
      BY <2>5 DEF BuildTrees
    <3>2. /\ \A h \in Hops : \E s \in Skews \cup {0} : lines'[h] = LineOf(h, s)
          /\ clientTs' \in {None, HopEnd(<<Root, 1>>) + CLIENT_DELAY}
      BY <3>1 DEF TimesInv, StampsInv
    <3>3. \A h \in Hops : parent'[h] = InferredParent(h)
      BY <2>5 DEF BuildTrees, RequestInv, ControlInv, LinesInv
    <3>4. \A h : InferredParent(h)' = InferredParent(h)
      BY <3>1, LinksUnchanged
    <3> QED
      BY <1>2, <2>1, <2>2, <3>2, <3>3, <3>4 DEF StampsInv
  <2>6. CASE UNCHANGED vars
    <3>1. UNCHANGED <<pc, lines, clientTs, parent>>
      BY <2>6 DEF vars
    <3>2. \A h : InferredParent(h)' = InferredParent(h)
      BY <3>1, LinksUnchanged
    <3> QED
      BY <1>2, <2>1, <2>2, <3>1, <3>2 DEF TimesInv, StampsInv
  <2> QED
    BY <2>3, <2>4, <2>5, <2>6
<1> QED
  BY <1>3, <1>4, <1>5, <1>6 DEF TimesInv

LEMMA TimesInvHolds == Spec => [](RequestInv /\ TimesInv)
<1>1. ASSUME RequestInv, TimesInv, [Next]_vars PROVE TimesInv'
  BY <1>1, InvokeKeepsTimes, AttemptKeepsTimes, TimeKeepsTimes, StepKeepsTimes DEF Next
<1>2. RequestInv /\ TimesInv /\ [Next]_vars => TimesInv'
  BY <1>1
<1> QED
  BY RequestInvInit, RequestInvStep, TimesInvInit, <1>2, PTL DEF Spec

(***************************************************************************)
(* The theorems.                                                           *)
(***************************************************************************)
\* Endpoints that are not invoked make no attempt, the others no more than their
\* retries allow and the BFF one, and lines and links are those of attempts.
THEOREM RequestTypeCorrect == Spec => []TypeOK
<1>1. RequestInv => TypeOK
  BY DEF RequestInv, AttemptsInv, ControlInv, StageInv, LinesInv, TypeOK
<1> QED
  BY <1>1, RequestInvHolds, PTL

\* What a line shows of a time is at most half a millisecond above it and at most one
\* and a half below.
LEMMA ShownTime ==
  ASSUME NEW total \in Nat, NEW l, l.time = Rint(total)
  PROVE  /\ RequestTime(l) \in Nat /\ Ms * RequestTime(l) \in Int /\ Ms \in Nat \ {0}
         /\ 2 * (Ms * RequestTime(l)) <= 2 * total + Ms
         /\ 2 * total <= 2 * (Ms * RequestTime(l)) + 3 * Ms
<1> DEFINE n == Rint(total)
           x == Ms * n
<1>1. /\ n \in Nat /\ x \in Int /\ Ms \in Nat \ {0}
      /\ 2 * x <= 2 * total + Ms /\ 2 * total <= 2 * x + Ms
  BY RintTyped, RequestAssumption
<1>2. CASE l.time \in Lossy
  <2>1. RequestTime(l) = n - 1 /\ n # 0
    BY <1>2, RequestAssumption DEF RequestTime
  <2> HIDE DEF n
  <2>2. Ms * (n - 1) = x - Ms
    <3>1. Ms * ((n - 1) + 1) = Ms * (n - 1) + Ms * 1 /\ (n - 1) + 1 = n /\ Ms * 1 = Ms /\ Ms * (n - 1) \in Int
      BY <1>1, Multiples
    <3> QED
      BY <1>1, <3>1
  <2> HIDE DEF x
  <2>3. n - 1 \in Nat /\ x - Ms \in Int /\ 2 * (x - Ms) <= 2 * total + Ms /\ 2 * total <= 2 * (x - Ms) + 3 * Ms
    BY <1>1, <2>1
  <2> QED
    BY <1>1, <2>1, <2>2, <2>3
<1>3. CASE l.time \notin Lossy
  <2>1. RequestTime(l) = n
    BY <1>3 DEF RequestTime
  <2>2. 2 * total <= 2 * x + 3 * Ms
    <3> HIDE DEF x
    <3> QED
      BY <1>1
  <2> QED
    BY <1>1, <2>1, <2>2
<1> QED
  BY <1>2, <1>3

\* The status and the time of a line give the outcome the engine drew but for a time so
\* near the threshold, as long as slow attempts are in the repertoire.
LEMMA ShownIsRecovered ==
  ASSUME "slow" \in Mask, NEW v \in EndpointsOf, NEW a, a.total \in Nat, Shown(v, a),
         NEW l, l.op = v, l.time = Rint(a.total), l.status = Status(a.out)
  PROVE  LET beyond == 2 * (a.total - Threshold[v])
         IN \/ OutcomeOf(l) = a.out
            \/ a.out = "slow" /\ OutcomeOf(l) = "ok" /\ 0 < beyond /\ beyond <= 3 * Ms
            \/ a.out = "ok" /\ OutcomeOf(l) = "slow" /\ beyond <= 0 /\ -beyond < Ms
<1> DEFINE total == a.total
           limit == Threshold[v]
           read == Ms * RequestTime(l)
<1>1. PICK class \in Drawn : a.out = OutcomeFor(v, class, total)
  BY DEF Shown
<1>2. Masked(class) \in Drawn
  BY DEF Masked, Drawn
<1>3. total \in Nat /\ limit \in Nat /\ read \in Int /\ Ms \in Nat \ {0}
      /\ 2 * read <= 2 * total + Ms /\ 2 * total <= 2 * read + 3 * Ms
  BY ShownTime, RequestAssumption DEF EndpointsOf
<1>4. l.status = "2xx" => OutcomeOf(l) = IF read > limit THEN "slow" ELSE "ok"
  BY DEF OutcomeOf
<1> HIDE DEF total, limit, read
<1>5. CASE Masked(class) = "ok" /\ total > limit
  <2>1. a.out = "slow" /\ l.status = "2xx"
    BY <1>1, <1>5 DEF OutcomeFor, Status, limit
  <2>2. 0 < 2 * (total - limit) /\ (~(read > limit) => 2 * (total - limit) <= 3 * Ms)
    BY <1>3, <1>5
  <2> QED
    BY <1>4, <2>1, <2>2 DEF total, limit
<1>6. CASE Masked(class) = "ok" /\ ~(total > limit)
  <2>1. a.out = "ok" /\ l.status = "2xx"
    BY <1>1, <1>6 DEF OutcomeFor, Status, limit
  <2>2. 2 * (total - limit) <= 0 /\ (read > limit => -(2 * (total - limit)) < Ms)
    BY <1>3, <1>6
  <2> QED
    BY <1>4, <2>1, <2>2 DEF total, limit
<1>7. CASE Masked(class) # "ok"
  BY <1>1, <1>2, <1>7 DEF OutcomeFor, OutcomeOf, Status, Drawn
<1> QED
  BY <1>5, <1>6, <1>7

\* Whatever is called, retried, refused and skewed, the correlator reads the engine's
\* outcomes off the lines when the repertoire has slow attempts, but that ok and slow
\* may be told wrongly within a rounding step of the threshold.
THEOREM OutcomesAreRecovered == Spec => []("slow" \in Mask => OutcomesRecovered)
<1>1. RequestInv /\ TimesInv => ("slow" \in Mask => OutcomesRecovered)
  <2> SUFFICES ASSUME RequestInv, TimesInv, "slow" \in Mask, pc = "done", NEW h \in DOMAIN lines
               PROVE  LET a == attempts[h[1]][h[2]]
                          shown == OutcomeOf(lines[h])
                          beyond == 2 * (a.total - Threshold[h[1]])
                      IN \/ shown = a.out
                         \/ a.out = "slow" /\ shown = "ok" /\ 0 < beyond /\ beyond <= 3 * Ms
                         \/ a.out = "ok" /\ shown = "slow" /\ beyond <= 0 /\ -beyond < Ms
    BY DEF OutcomesRecovered
  <2> DEFINE a == attempts[h[1]][h[2]]
             l == lines[h]
  <2>1. h \in Hops
    BY DEF RequestInv, ControlInv, StageInv, LinesInv
  <2>2. l.time = Rint(a.total) /\ l.op = h[1] /\ l.status = Status(a.out)
    BY <2>1 DEF RequestInv, ControlInv, StageInv, LinesInv, Duration
  <2>3. h[1] \in EndpointsOf /\ Shown(h[1], a) /\ a.total \in Nat
    <3>1. h[1] \in EndpointsOf /\ h[2] \in DOMAIN attempts[h[1]]
      BY <2>1 DEF Hops
    <3> QED
      BY <3>1 DEF RequestInv, AttemptsInv, TimesInv, DurationsInv
  <2> HIDE DEF a, l
  <2>4. LET beyond == 2 * (a.total - Threshold[h[1]])
        IN \/ OutcomeOf(l) = a.out
           \/ a.out = "slow" /\ OutcomeOf(l) = "ok" /\ 0 < beyond /\ beyond <= 3 * Ms
           \/ a.out = "ok" /\ OutcomeOf(l) = "slow" /\ beyond <= 0 /\ -beyond < Ms
    BY <2>2, <2>3, ShownIsRecovered
  <2> QED
    BY <2>4 DEF a, l
<1> QED
  BY <1>1, TimesInvHolds, PTL

(***************************************************************************)
(* How attempts lie in time.                                               *)
(***************************************************************************)
Evaluated == RequestInv /\ TimesInv /\ pc \in {"emit", "trees", "done"}

LEMMA HopTyped ==
  ASSUME Evaluated, NEW h \in Hops
  PROVE  /\ h = <<h[1], h[2]>> /\ h[1] \in EndpointsOf /\ h[2] \in DOMAIN attempts[h[1]]
         /\ h[1] \in Invoked /\ attempts[h[1]][h[2]].total \in Nat
<1>1. h = <<h[1], h[2]>> /\ h[1] \in EndpointsOf /\ h[2] \in DOMAIN attempts[h[1]]
  BY DEF Hops
<1>2. attempts[h[1]] # <<>>
  BY <1>1
<1> QED
  BY <1>1, <1>2 DEF Evaluated, RequestInv, AttemptsInv, TimesInv, DurationsInv

\* An attempt lies within all attempts of its endpoint.
LEMMA HopWithin ==
  ASSUME Evaluated, NEW h \in Hops
  PROVE  /\ start[h[1]] \in Nat /\ Before(h) \in Nat /\ attempts[h[1]][h[2]].total \in Nat
         /\ Before(h) + attempts[h[1]][h[2]].total <= Total(h[1])
         /\ h[2] = 1 => Before(h) = 0
<1> DEFINE v == h[1]
           k == h[2]
           before == [i \in 1 .. k - 1 |-> attempts[v][i].total]
<1>1. v \in EndpointsOf /\ k \in DOMAIN attempts[v] /\ start[v] \in Nat /\ attempts[v][k].total \in Nat
  BY HopTyped DEF Evaluated, TimesInv, StartsInv
<1>2. k \in Nat \ {0} /\ 1 .. k - 1 \subseteq DOMAIN attempts[v] /\ k \notin 1 .. k - 1
      /\ (k = 1 => 1 .. k - 1 = {})
  BY <1>1, AttemptsFinite DEF Evaluated, RequestInv
<1>3. IsTerms(TotalsOf(v), DOMAIN attempts[v]) /\ Total(v) = SumFunction(TotalsOf(v)) /\ Total(v) \in Nat
  BY <1>1, TotalTyped DEF Evaluated, RequestInv, TimesInv
<1>4. before \in [1 .. k - 1 -> Nat] /\ IsFiniteSet(1 .. k - 1)
  <2>1. \A i \in 1 .. k - 1 : attempts[v][i].total \in Nat
    BY <1>1, <1>2 DEF Evaluated, TimesInv, DurationsInv
  <2>2. IsFiniteSet(1 .. k - 1)
    BY <1>1, <1>2, AttemptsFinite, FS_Subset DEF Evaluated, RequestInv
  <2> QED
    BY <2>1, <2>2
<1>5. IsTerms(before, 1 .. k - 1)
  BY <1>4 DEF IsTerms
<1>6. \A i \in 1 .. k - 1 : before[i] = TotalsOf(v)[i]
  BY <1>2 DEF TotalsOf
<1>7. TotalsOf(v)[k] = attempts[v][k].total
  BY <1>1 DEF TotalsOf
<1> DEFINE sum == SumFunction(before)
<1>8. Before(h) = sum
  BY DEF Before
<1> HIDE DEF v, k, before
<1>9. sum \in Nat /\ (k = 1 => sum = 0)
  BY <1>2, <1>5, SumTyped
<1>10. sum + attempts[v][k].total <= Total(v)
  <2> DEFINE S == DOMAIN attempts[v]
             R == 1 .. k - 1
             g == TotalsOf(v)
  <2>1. IsTerms(g, S) /\ R \in SUBSET S /\ before \in [R -> Nat] /\ k \in S \ R
        /\ \A i \in R : before[i] = g[i]
    BY <1>1, <1>2, <1>3, <1>4, <1>6
  <2> HIDE DEF S, R, g
  <2>2. SumFunction(before) + g[k] <= SumFunction(g)
    BY <2>1, SumGrows
  <2> QED
    BY <1>3, <1>7, <2>2 DEF g
<1> QED
  BY <1>1, <1>8, <1>9, <1>10 DEF v, k

\* What is emitted of it: truncated and rounded.
LEMMA HopRounded ==
  ASSUME Evaluated, NEW h \in Hops
  PROVE  /\ HopStart(h) = Floor(start[h[1]]) + Rint(Before(h)) /\ HopStart(h) \in Nat
         /\ Duration(h) = Rint(attempts[h[1]][h[2]].total) /\ Duration(h) \in Nat
         /\ HopEnd(h) = HopStart(h) + Duration(h) /\ HopEnd(h) \in Nat
<1>1. /\ Floor(start[h[1]]) \in Nat /\ Rint(Before(h)) \in Nat
      /\ Rint(attempts[h[1]][h[2]].total) \in Nat
  BY HopWithin, FloorTyped, RintTyped
<1> QED
  BY <1>1 DEF HopStart, HopEnd, Duration

\* The first call of an endpoint is one of its caller.
LEMMA FirstCallTyped ==
  ASSUME Evaluated, NEW v \in Invoked \ {Root}
  PROVE  /\ caller[v] \in Invoked /\ caller[v] \in EndpointsOf
         /\ FirstCall(v) \in Own(caller[v]) /\ Calls[FirstCall(v)][2] = v
<1>1. caller[v] \in Invoked /\ caller[v] \in EndpointsOf
  BY DEF Evaluated, RequestInv, AttemptsInv, TimesInv, CallersInv
<1>2. PICK e \in EdgesFrom(caller[v]) : Calls[e][2] = v
  BY DEF Evaluated, TimesInv, CallersInv
<1>3. e \in Own(caller[v])
  BY <1>2 DEF Own
<1> QED
  BY <1>1, <1>2, <1>3 DEF FirstCall

\* A caller waits for all attempts of what it calls.
LEMMA CalleeWithin ==
  ASSUME Evaluated, NEW v \in Invoked \ {Root}
  PROVE  /\ <<caller[v], 1>> \in Hops /\ start[caller[v]] \in Nat /\ start[v] \in Nat
         /\ Total(v) \in Nat
         /\ start[caller[v]] <= start[v]
         /\ start[v] + Total(v) <= start[caller[v]] + attempts[caller[v]][1].total
<1> DEFINE u == caller[v]
           e == FirstCall(v)
           own == attempts[u][1].own
           half == own \div 2
           before == {y \in Own(u) : y < e}
<1>1. u \in Invoked /\ u \in EndpointsOf /\ e \in Own(u) /\ Calls[e][2] = v /\ v \in EndpointsOf
  BY FirstCallTyped DEF Evaluated, RequestInv, AttemptsInv
<1>2. attempts[u] # <<>> /\ 1 \in DOMAIN attempts[u] /\ 1 \in 1 .. Retries + 1
  <2>1. attempts[u] # <<>>
    BY <1>1 DEF Evaluated, TimesInv, SettledInv
  <2> QED
    BY <1>1, <2>1, AttemptsFinite, RequestAssumption DEF Evaluated, RequestInv
<1>3. <<u, 1>> \in Hops
  BY <1>1, <1>2 DEF Hops
<1>4. own \in Nat /\ attempts[u][1].total = own + CalleeTime(u)
  BY <1>1, <1>2 DEF Evaluated, TimesInv, DurationsInv
<1>5. /\ start[u] \in Nat /\ start[v] \in Nat
      /\ start[v] = half + Wait(u, e) + start[u]
  BY <1>1 DEF Evaluated, TimesInv, StartsInv, Called
<1>7. Total(v) \in Nat
  BY <1>1, TotalTyped DEF Evaluated, RequestInv, TimesInv
<1>8. Wait(u, e) \in Nat /\ CalleeTime(u) \in Nat /\ Wait(u, e) + Total(v) <= CalleeTime(u)
  <2>1. /\ IsTerms(WaitTotals(u, e), before)
        /\ Wait(u, e) = SumFunction(WaitTotals(u, e)) /\ Wait(u, e) \in Nat
    BY <1>1, WaitTyped DEF Evaluated, RequestInv, TimesInv
  <2>2. /\ IsTerms(CalleeTotals(u), EdgesFrom(u))
        /\ CalleeTime(u) = SumFunction(CalleeTotals(u)) /\ CalleeTime(u) \in Nat
    BY <1>1, CalleeTimeTyped DEF Evaluated, RequestInv, TimesInv
  <2>3. before \subseteq EdgesFrom(u) /\ e \in EdgesFrom(u) /\ e \notin before
    <3>1. e \in Nat
      BY <1>1, EdgesTyped DEF Own
    <3> QED
      BY <1>1, <3>1 DEF Own
  <2>4. \A x \in before : WaitTotals(u, e)[x] = CalleeTotals(u)[x]
    BY <2>3 DEF WaitTotals, CalleeTotals
  <2>5. CalleeTotals(u)[e] = Total(v)
    BY <1>1, <2>3 DEF CalleeTotals
  <2>6. WaitTotals(u, e) \in [before -> Nat]
    BY <2>1 DEF IsTerms
  <2> HIDE DEF u, e, before
  <2>7. SumFunction(WaitTotals(u, e)) + CalleeTotals(u)[e] <= SumFunction(CalleeTotals(u))
    BY <2>2, <2>3, <2>4, <2>6, SumGrows
  <2> QED
    BY <2>1, <2>2, <2>5, <2>7
<1> DEFINE wait == Wait(u, e)
           callees == CalleeTime(u)
           s == start[u]
           total == Total(v)
<1>9. half \in Nat /\ half <= own
  <2> HIDE DEF own
  <2> QED
    BY <1>4
<1>10. s <= half + wait + s /\ half + wait + s + total <= s + (own + callees)
  <2> HIDE DEF s, half, wait, total, callees, own
  <2>1. s \in Nat /\ half \in Nat /\ wait \in Nat /\ total \in Nat /\ callees \in Nat /\ own \in Nat
    BY <1>4, <1>5, <1>7, <1>8, <1>9 DEF s, wait, total, callees
  <2>2. wait + total <= callees
    BY <1>8 DEF wait, total, callees
  <2> QED
    BY <1>9, <2>1, <2>2
<1> QED
  BY <1>3, <1>4, <1>5, <1>7, <1>10

\* A caller calls one callee after another.
LEMMA CalleesApart ==
  ASSUME Evaluated, NEW v \in Invoked \ {Root}, NEW w \in Invoked \ {Root}, caller[v] = caller[w],
         FirstCall(v) < FirstCall(w)
  PROVE  start[v] + Total(v) <= start[w]
<1> DEFINE u == caller[v]
           e == FirstCall(v)
           f == FirstCall(w)
           half == attempts[u][1].own \div 2
           before(x) == {y \in Own(u) : y < x}
<1>1. /\ u \in Invoked /\ u \in EndpointsOf /\ v \in EndpointsOf
      /\ e \in Own(u) /\ Calls[e][2] = v /\ f \in Own(u)
  BY FirstCallTyped DEF Evaluated, RequestInv, AttemptsInv
<1>2. e \in Nat /\ f \in Nat
  BY <1>1, EdgesTyped DEF Own
<1>3. start[v] = half + Wait(u, e) + start[u] /\ start[w] = half + Wait(u, f) + start[u] /\ start[u] \in Nat
  BY <1>1 DEF Evaluated, TimesInv, StartsInv, Called
<1>4. \A x : /\ IsTerms(WaitTotals(u, x), before(x))
             /\ Wait(u, x) = SumFunction(WaitTotals(u, x)) /\ Wait(u, x) \in Nat
  BY <1>1, WaitTyped DEF Evaluated, RequestInv, TimesInv
<1>5. before(e) \subseteq before(f) /\ e \in before(f) \ before(e)
  <2>1. Own(u) \subseteq Nat
    BY EdgesTyped DEF Own
  <2> QED
    BY <1>1, <1>2, <2>1
<1>6. \A x \in before(e) : WaitTotals(u, e)[x] = WaitTotals(u, f)[x]
  BY <1>5 DEF WaitTotals
<1>7. WaitTotals(u, f)[e] = Total(v)
  BY <1>1, <1>5 DEF WaitTotals
<1>8. Wait(u, e) + Total(v) <= Wait(u, f)
  <2> DEFINE S == before(f)
             R == before(e)
  <2>1. IsTerms(WaitTotals(u, f), S) /\ R \in SUBSET S /\ WaitTotals(u, e) \in [R -> Nat] /\ e \in S \ R
    BY <1>4, <1>5 DEF IsTerms
  <2>2. \A x \in R : WaitTotals(u, e)[x] = WaitTotals(u, f)[x]
    BY <1>6
  <2> HIDE DEF u, e, f, before, S, R
  <2>3. SumFunction(WaitTotals(u, e)) + WaitTotals(u, f)[e] <= SumFunction(WaitTotals(u, f))
    BY <2>1, <2>2, SumGrows
  <2> QED
    BY <1>4, <1>7, <2>3
<1> DEFINE p == Wait(u, e)
           q == Wait(u, f)
           s == start[u]
           total == Total(v)
<1>9. total \in Nat
  BY <1>1, TotalTyped DEF Evaluated, RequestInv, TimesInv
<1>10. half \in Int
  <2> DEFINE own == attempts[u][1].own
  <2>1. attempts[u] # <<>>
    BY <1>1 DEF Evaluated, TimesInv, SettledInv
  <2>2. own \in Nat
    BY <1>1, <2>1, AttemptsFinite DEF Evaluated, RequestInv, TimesInv, DurationsInv
  <2> HIDE DEF own
  <2>3. own \div 2 \in Int
    BY <2>2
  <2> QED
    BY <2>3 DEF own
<1>11. half + p + s + total <= half + q + s
  <2> HIDE DEF p, q, s, total, half
  <2>1. p \in Nat /\ q \in Nat /\ s \in Nat
    BY <1>3, <1>4 DEF p, q, s
  <2>2. p + total <= q
    BY <1>8 DEF p, q, total
  <2> QED
    BY <1>9, <1>10, <2>1, <2>2
<1> QED
  BY <1>3, <1>11

\* So it is as far as rounding keeps it: a callee and its caller.
LEMMA ParentRounded ==
  ASSUME Evaluated, NEW h \in Hops, h[1] # Root
  PROVE  LET c == ParentHop(h)
         IN /\ c \in Hops /\ c = <<caller[h[1]], 1>>
            /\ HopStart(c) <= HopStart(h)
            /\ HopEnd(h) <= HopEnd(c) + 2
            /\ h[2] = 1 => HopEnd(h) <= HopEnd(c) + 1
            /\ HopStart(h) = HopStart(c) => HopEnd(h) <= HopEnd(c)
<1> DEFINE v == h[1]
           u == caller[v]
           c == <<u, 1>>
           s == start[v]
           S == start[u]
           p == Before(h)
           q == attempts[v][h[2]].total
           T == attempts[u][1].total
<1>1. v \in Invoked \ {Root} /\ ParentHop(h) = c
  BY HopTyped DEF ParentHop
<1>2. /\ c \in Hops /\ S \in Nat /\ s \in Nat /\ Total(v) \in Nat
      /\ S <= s /\ s + Total(v) <= S + T
  BY <1>1, CalleeWithin
<1>3. p \in Nat /\ q \in Nat /\ p + q <= Total(v) /\ (h[2] = 1 => p = 0)
  BY HopWithin
<1>4. Before(c) = 0 /\ T \in Nat
  BY <1>2, HopWithin
<1>5. HopStart(c) = Floor(S) /\ Duration(c) = Rint(T) /\ HopEnd(c) = Floor(S) + Rint(T)
      /\ Floor(S) \in Nat /\ Rint(T) \in Nat
  <2>1. Rint(Before(c)) = 0
    BY <1>4, RintTyped
  <2>2. HopStart(c) = Floor(S) + Rint(Before(c)) /\ Duration(c) = Rint(T) /\ HopEnd(c) = HopStart(c) + Duration(c)
    BY <1>2, HopRounded
  <2>3. Floor(S) \in Nat /\ Rint(T) \in Nat
    BY <1>2, <1>4, FloorTyped, RintTyped
  <2> HIDE DEF S, T, c
  <2> QED
    BY <2>1, <2>2, <2>3
<1>6. HopStart(h) = Floor(s) + Rint(p) /\ HopEnd(h) = Floor(s) + Rint(p) + Rint(q)
      /\ HopStart(h) \in Nat /\ Rint(q) \in Nat
  BY HopRounded
<1> HIDE DEF v, u, c, s, S, p, q, T
<1>7. s + p + q <= S + T
  BY <1>2, <1>3, <1>4 DEF v
<1>8. /\ Floor(S) <= Floor(s) + Rint(p)
      /\ Floor(s) + Rint(p) + Rint(q) <= Floor(S) + Rint(T) + 2
      /\ p = 0 => Floor(s) + Rint(p) + Rint(q) <= Floor(S) + Rint(T) + 1
      /\ Floor(s) + Rint(p) = Floor(S) => Rint(q) <= Rint(T)
  BY <1>2, <1>3, <1>4, <1>7, WithinRounded
<1>9. /\ HopStart(c) <= HopStart(h) /\ HopEnd(h) <= HopEnd(c) + 2
      /\ h[2] = 1 => HopEnd(h) <= HopEnd(c) + 1
  BY <1>3, <1>5, <1>6, <1>8
<1>10. HopStart(h) = HopStart(c) => HopEnd(h) <= HopEnd(c)
  <2> SUFFICES ASSUME HopStart(h) = HopStart(c) PROVE HopEnd(h) <= HopEnd(c)
    OBVIOUS
  <2>1. HopEnd(h) = HopStart(h) + Rint(q) /\ HopEnd(c) = HopStart(c) + Rint(T) /\ Rint(q) <= Rint(T)
    BY <1>5, <1>6, <1>8
  <2> QED
    BY <1>5, <1>6, <2>1
<1> QED
  BY <1>1, <1>2, <1>9, <1>10 DEF c, u, v

\* And one callee after another.
LEMMA ApartKept ==
  ASSUME Evaluated, NEW v \in Invoked \ {Root}, NEW w \in Invoked \ {Root},
         caller[v] = caller[w], FirstCall(v) < FirstCall(w)
  PROVE  HopEnd(LastHop(v)) <= HopStart(<<w, 1>>) + 1
<1> DEFINE last == LastHop(v)
           next == <<w, 1>>
<1>1. v \in EndpointsOf /\ w \in EndpointsOf /\ attempts[v] # <<>> /\ attempts[w] # <<>>
  BY DEF Evaluated, RequestInv, AttemptsInv, TimesInv, SettledInv
<1>2. /\ Len(attempts[v]) \in DOMAIN attempts[v] /\ Len(attempts[v]) \in 1 .. Retries + 1
      /\ 1 \in DOMAIN attempts[w] /\ 1 \in 1 .. Retries + 1
  <2>1. ASSUME NEW x \in EndpointsOf, attempts[x] # <<>>
        PROVE  /\ Len(attempts[x]) \in Nat \ {0} /\ DOMAIN attempts[x] = 1 .. Len(attempts[x])
               /\ Len(attempts[x]) <= Retries + 1
    <3>1. PICK S : attempts[x] \in Seq(S)
      BY <2>1 DEF Evaluated, RequestInv, AttemptsInv
    <3>2. Len(attempts[x]) <= MaxAttempts(x) /\ MaxAttempts(x) <= Retries + 1 /\ MaxAttempts(x) \in Nat
      BY <2>1, RequestAssumption DEF Evaluated, RequestInv, AttemptsInv, MaxAttempts
    <3> QED
      BY <2>1, <3>1, <3>2, RequestAssumption
  <2> QED
    BY <1>1, <2>1, RequestAssumption
<1>3. last \in Hops /\ next \in Hops
  BY <1>1, <1>2 DEF Hops, LastHop
<1> DEFINE s == start[v]
           p == Before(last)
           q == attempts[v][Len(attempts[v])].total
           e == start[w]
<1>4. last[1] = v /\ last[2] = Len(attempts[v]) /\ next[1] = w /\ next[2] = 1
  BY DEF LastHop
<1>5. s \in Nat /\ p \in Nat /\ q \in Nat /\ p + q <= Total(v) /\ e \in Nat /\ Before(next) = 0
  BY <1>3, <1>4, HopWithin
<1>6. Total(v) \in Nat /\ s + Total(v) <= e
  BY CalleesApart, CalleeWithin
<1>7. HopEnd(last) = Floor(s) + Rint(p) + Rint(q)
  <2>1. HopStart(last) = Floor(s) + Rint(p) /\ Duration(last) = Rint(q) /\ HopEnd(last) = HopStart(last) + Duration(last)
    BY <1>3, <1>4, HopRounded
  <2> QED
    BY <2>1
<1>8. HopStart(next) = Floor(e)
  <2>1. HopStart(next) = Floor(e) + Rint(Before(next)) /\ Rint(Before(next)) = 0 /\ Floor(e) \in Nat
    BY <1>3, <1>4, <1>5, HopRounded, RintTyped, FloorTyped
  <2> HIDE DEF next, e
  <2> QED
    BY <2>1
<1> HIDE DEF s, p, q, e, last, next
<1>9. s + p + q <= e
  BY <1>5, <1>6
<1>10. Floor(s) + Rint(p) + Rint(q) <= Floor(e) + 1
  BY <1>5, <1>9, ApartRounded
<1> QED
  BY <1>7, <1>8, <1>10 DEF last, next

\* Callees, with their retries, lie within the first attempt of their caller and do not
\* overlap but for what truncating starts and rounding durations adds, whatever is
\* called, cached, retried and however long it takes.
THEOREM CalleesLieWithin == Spec => []ChildInsideCaller
<1>1. RequestInv /\ TimesInv => ChildInsideCaller
  <2> SUFFICES ASSUME RequestInv, TimesInv, pc = "emit" PROVE ChildInsideCaller
    BY DEF ChildInsideCaller
  <2>1. Evaluated
    BY DEF Evaluated
  <2>2. ASSUME NEW h \in Hops, h[1] # Root
        PROVE  /\ HopStart(ParentHop(h)) <= HopStart(h)
               /\ HopEnd(h) <= HopEnd(ParentHop(h)) + (IF h[2] = 1 THEN 1 ELSE 2)
    BY <2>1, <2>2, ParentRounded
  <2>3. ASSUME NEW v \in Invoked \ {Root}, NEW w \in Invoked \ {Root}, v # w, caller[v] = caller[w]
        PROVE  \/ HopEnd(LastHop(v)) <= HopStart(<<w, 1>>) + 1
               \/ HopEnd(LastHop(w)) <= HopStart(<<v, 1>>) + 1
    <3>1. FirstCall(v) \in Nat /\ FirstCall(w) \in Nat /\ FirstCall(v) # FirstCall(w)
      BY <2>1, <2>3, FirstCallTyped, EdgesTyped DEF Own
    <3>2. FirstCall(v) < FirstCall(w) \/ FirstCall(w) < FirstCall(v)
      BY <3>1
    <3> QED
      BY <2>1, <2>3, <3>2, ApartKept
  <2> QED
    BY <2>2, <2>3 DEF ChildInsideCaller
<1> QED
  BY <1>1, TimesInvHolds, PTL

(***************************************************************************)
(* The inferred parents.                                                   *)
(***************************************************************************)
\* Clocks of pods differ by no more than the correlator tolerates, two milliseconds of
\* which rounding may take.
ClocksAgree == \A s, t \in Skews \cup {0} : s - t + 2 <= SkewTolerance

Inferred == Evaluated /\ pc = "done"

LEMMA HopsFinite == IsFiniteSet(Hops)
<1>1. Len(Order) \in Int /\ DOMAIN Order = 1 .. Len(Order) /\ Retries + 1 \in Int /\ 1 \in Int
  BY RequestAssumption
<1>2. IsFiniteSet(DOMAIN Order) /\ IsFiniteSet(1 .. Retries + 1)
  BY <1>1, FS_Interval
<1>3. Order \in Surjection(DOMAIN Order, EndpointsOf)
  BY RequestAssumption DEF Surjection, EndpointsOf, ToSet
<1>4. IsFiniteSet(EndpointsOf)
  BY <1>2, <1>3, FS_Surjection
<1>5. IsFiniteSet(EndpointsOf \X (1 .. Retries + 1))
  BY <1>2, <1>4, FS_Product
<1> QED
  BY <1>5, FS_Subset DEF Hops

\* What a line says of its attempt.
LEMMA LineTyped ==
  ASSUME Inferred, NEW h \in Hops
  PROVE  /\ DOMAIN lines = Hops
         /\ lines[h].service = ServiceOf[h[1]] /\ ServiceOf[h[1]] \in Nat
         /\ lines[h].client = IF h[1] = Root THEN None ELSE ServiceOf[caller[h[1]]]
         /\ lines[h].id = SpanIdOf[h] /\ lines[h].id \in Nat /\ RequestTime(lines[h]) \in Nat
         /\ \E skew \in Skews \cup {0}, lost \in {0, 1} :
              /\ lines[h].end = HopEnd(h) + skew
              /\ LineStart(lines[h]) = HopStart(h) + lost + skew
         /\ lines[h].end \in Int /\ LineStart(lines[h]) \in Int
<1>1. DOMAIN lines = Hops
  BY DEF Inferred, Evaluated, RequestInv, ControlInv, LinesInv
<1>2. PICK skew \in Skews \cup {0} : lines[h] = LineOf(h, skew)
  BY DEF Inferred, Evaluated, TimesInv, StampsInv
<1>3. /\ h \in EndpointsOf \X (1 .. Retries + 1) /\ h[1] \in EndpointsOf
      /\ attempts[h[1]][h[2]].total \in Nat
  BY HopTyped DEF Inferred, Hops
<1>4. SpanIdOf[h] \in Nat /\ ServiceOf[h[1]] \in Nat
  BY <1>3, LinesAreTold DEF EndpointsOf
<1> DEFINE d == Duration(h)
           s == HopStart(h)
           lost == IF d \in Lossy THEN 1 ELSE 0
<1>5. s \in Nat /\ d \in Nat /\ HopEnd(h) = s + d
  BY HopRounded DEF Inferred
<1>6. /\ lines[h].service = ServiceOf[h[1]] /\ lines[h].id = SpanIdOf[h]
      /\ lines[h].client = IF h[1] = Root THEN None ELSE ServiceOf[caller[h[1]]]
      /\ lines[h].time = d /\ lines[h].end = HopEnd(h) + skew
  BY <1>2 DEF LineOf
<1>7. skew \in Int /\ lost \in {0, 1}
  BY RequestAssumption
<1>8. RequestTime(lines[h]) = d - lost /\ RequestTime(lines[h]) \in Nat
  <2>1. d \in Lossy => d # 0
    BY RequestAssumption
  <2>2. RequestTime(lines[h]) = IF d \in Lossy THEN d - 1 ELSE d
    BY <1>6 DEF RequestTime
  <2> HIDE DEF d
  <2> QED
    BY <1>5, <2>1, <2>2
<1>9. /\ lines[h].end = HopEnd(h) + skew /\ lines[h].end \in Int
      /\ LineStart(lines[h]) = s + lost + skew /\ LineStart(lines[h]) \in Int
  <2>1. LineStart(lines[h]) = (s + d + skew) - (d - lost)
    BY <1>5, <1>6, <1>8 DEF LineStart
  <2> HIDE DEF s, d, lost
  <2> QED
    BY <1>5, <1>6, <1>7, <2>1
<1> HIDE DEF lost
<1> QED
  BY <1>1, <1>4, <1>6, <1>7, <1>8, <1>9

\* The edge's line is the BFF's only one.
LEMMA EdgeIsRoot ==
  ASSUME Inferred
  PROVE  /\ <<Root, 1>> \in Hops
         /\ \A h \in Hops : IsEdge(h) <=> h[1] = Root
         /\ \A h \in Hops : h[1] = Root => h = <<Root, 1>>
         /\ Edge = <<Root, 1>>
<1>1. Root \in Invoked /\ Root \in EndpointsOf /\ attempts[Root] # <<>>
  BY OrderTyped DEF Inferred, Evaluated, RequestInv, AttemptsInv, TimesInv, SettledInv
<1>2. <<Root, 1>> \in Hops
  <2>1. 1 \in 1 .. Retries + 1 /\ 1 \in DOMAIN attempts[Root]
    BY <1>1, AttemptsFinite, RequestAssumption DEF Inferred, Evaluated, RequestInv
  <2> QED
    BY <1>1, <2>1 DEF Hops
<1>3. ASSUME NEW h \in Hops PROVE IsEdge(h) <=> h[1] = Root
  <2>1. h[1] # Root => ServiceOf[caller[h[1]]] \in Nat
    <3>1. h[1] # Root => caller[h[1]] \in EndpointsOf
      BY HopTyped, FirstCallTyped DEF Inferred
    <3> QED
      BY <3>1, LinesAreTold DEF EndpointsOf
  <2> QED
    BY <2>1, LineTyped DEF IsEdge, None
<1>4. ASSUME NEW h \in Hops, h[1] = Root PROVE h = <<Root, 1>>
  <2>1. h = <<h[1], h[2]>> /\ h[2] \in DOMAIN attempts[Root]
    BY <1>4, HopTyped DEF Inferred
  <2>2. Len(attempts[Root]) \in Nat /\ DOMAIN attempts[Root] = 1 .. Len(attempts[Root]) /\ Len(attempts[Root]) <= 1
    BY <1>1, AttemptsFinite DEF Inferred, Evaluated, RequestInv, AttemptsInv, MaxAttempts
  <2>3. h[2] = 1
    BY <2>1, <2>2
  <2> QED
    BY <1>4, <2>1, <2>3
<1>5. DOMAIN lines = Hops
  BY <1>2, LineTyped
<1>6. Edge = <<Root, 1>>
  <2>1. \E h \in DOMAIN lines : IsEdge(h)
    BY <1>2, <1>3, <1>5
  <2>2. Edge \in DOMAIN lines /\ IsEdge(Edge)
    BY <2>1 DEF Edge
  <2> QED
    BY <1>3, <1>4, <1>5, <2>2
<1> QED
  BY <1>2, <1>3, <1>4, <1>6

LEMMA ParentHopTyped ==
  ASSUME Inferred, NEW h \in Hops, h[1] # Root
  PROVE  /\ ParentHop(h) \in Hops /\ ParentHop(h) # h /\ ParentHop(h)[1] = caller[h[1]]
         /\ caller[h[1]] \in Invoked
         /\ \E e \in DOMAIN Calls : Calls[e][1] = caller[h[1]] /\ Calls[e][2] = h[1]
<1> DEFINE v == h[1]
           u == caller[v]
           c == <<u, 1>>
<1>1. v \in Invoked \ {Root} /\ ParentHop(h) = c
  BY HopTyped DEF Inferred, ParentHop
<1>2. u \in Invoked /\ u \in EndpointsOf /\ FirstCall(v) \in Own(u) /\ Calls[FirstCall(v)][2] = v
  BY <1>1, FirstCallTyped DEF Inferred
<1>3. FirstCall(v) \in DOMAIN Calls /\ Calls[FirstCall(v)][1] = u
  BY <1>2 DEF Own, EdgesFrom
<1>4. u # v
  <2>1. PICK i \in DOMAIN Order : Order[i] = u
    BY <1>2, EndpointHasPlace
  <2>2. PICK j \in DOMAIN Order : i < j /\ Order[j] = v
    BY <1>2, <1>3, <2>1, TopologicalOrder
  <2>3. i # j
    BY <2>2, RequestAssumption
  <2> QED
    BY <2>1, <2>2, <2>3, TopologicalOrder
<1>5. c \in Hops
  BY <1>1, CalleeWithin DEF Inferred
<1>6. c # h
  BY <1>4
<1> QED
  BY <1>1, <1>2, <1>3, <1>5, <1>6

\* How far the line of a callee sticks out of its caller's is at most two milliseconds
\* more than their clocks are apart: it starts no earlier, but for a millisecond lost in
\* the caller's text, and ends no more than two later, not at all if both start together.
LEMMA OverApart ==
  ASSUME NEW x \in Int, NEW y \in Int, NEW d \in Int, NEW before \in Int, NEW after \in Int,
         before <= 0, after <= 2, before = 0 => after <= 0,
         x <= before + 1 + d, y <= after - d
  PROVE  /\ Over(x) + Over(y) \in Nat
         /\ \A n \in Nat : d + 2 <= n /\ -d + 2 <= n => Over(x) + Over(y) <= n
<1>1. Over(x) \in Nat /\ Over(y) \in Nat
  BY DEF Over
<1>2. ASSUME NEW n \in Nat, d + 2 <= n, -d + 2 <= n
      PROVE  Over(x) + Over(y) <= n
  <2>1. before + 1 + after <= 2
    <3>1. CASE before = 0
      BY <3>1
    <3>2. CASE before # 0
      BY <3>2
    <3> QED
      BY <3>1, <3>2
  <2>2. n >= 2
    BY <1>2
  <2>3. CASE x > 0 /\ y > 0
    BY <1>2, <2>1, <2>2, <2>3 DEF Over
  <2>4. CASE ~(x > 0) \/ ~(y > 0)
    BY <1>2, <2>2, <2>4 DEF Over
  <2> QED
    BY <2>3, <2>4
<1> QED
  BY <1>1, <1>2

LEMMA TrueParentIsNear ==
  ASSUME Inferred, NEW h \in Hops, h[1] # Root
  PROVE  /\ ClocksAgree => Violation(h, ParentHop(h)) <= SkewTolerance
         /\ TrueClocks => Violation(h, ParentHop(h)) <= 2
<1> DEFINE c == ParentHop(h)
           before == HopStart(c) - HopStart(h)
           after == HopEnd(h) - HopEnd(c)
<1>1. /\ c \in Hops /\ HopStart(c) <= HopStart(h) /\ HopEnd(h) <= HopEnd(c) + 2
      /\ HopStart(h) = HopStart(c) => HopEnd(h) <= HopEnd(c)
  BY ParentRounded DEF Inferred
<1>2. PICK a \in Skews \cup {0}, k \in {0, 1} :
        lines[h].end = HopEnd(h) + a /\ LineStart(lines[h]) = HopStart(h) + k + a
  BY LineTyped
<1>3. PICK b \in Skews \cup {0}, l \in {0, 1} :
        lines[c].end = HopEnd(c) + b /\ LineStart(lines[c]) = HopStart(c) + l + b
  BY <1>1, LineTyped
<1>4. a \in Int /\ b \in Int /\ SkewTolerance \in Nat
  BY RequestAssumption
<1>5. /\ HopStart(h) \in Nat /\ HopEnd(h) \in Nat /\ HopStart(c) \in Nat /\ HopEnd(c) \in Nat
  BY <1>1, HopRounded DEF Inferred
<1> HIDE DEF c
<1> DEFINE x == LineStart(lines[c]) - LineStart(lines[h])
           y == lines[h].end - lines[c].end
           d == b - a
<1>6. /\ x \in Int /\ y \in Int /\ d \in Int /\ before \in Int /\ after \in Int
      /\ before <= 0 /\ after <= 2 /\ (before = 0 => after <= 0)
      /\ x <= before + 1 + d /\ y <= after - d
  <2> DEFINE i == HopStart(c)
             j == HopEnd(c)
             m == HopStart(h)
             n == HopEnd(h)
  <2>1. /\ i \in Nat /\ j \in Nat /\ m \in Nat /\ n \in Nat
        /\ i <= m /\ n <= j + 2 /\ (m = i => n <= j)
    BY <1>1, <1>5
  <2>2. x = (i + l + b) - (m + k + a) /\ y = (n + a) - (j + b)
    BY <1>2, <1>3
  <2>3. before = i - m /\ after = n - j /\ d = b - a
    OBVIOUS
  <2> HIDE DEF i, j, m, n, x, y, d, before, after
  <2>4. k \in Int /\ l \in Int /\ k >= 0 /\ l <= 1
    BY <1>2, <1>3
  <2> QED
    BY <1>4, <2>1, <2>2, <2>3, <2>4
<1>7. Violation(h, c) = Over(x) + Over(y)
  BY DEF Violation
<1>8. ClocksAgree => d + 2 <= SkewTolerance /\ -d + 2 <= SkewTolerance
  <2>1. ClocksAgree => b - a + 2 <= SkewTolerance /\ a - b + 2 <= SkewTolerance
    BY DEF ClocksAgree
  <2> QED
    BY <1>4, <2>1
<1>9. TrueClocks => d + 2 <= 2 /\ -d + 2 <= 2
  <2>1. TrueClocks => lines[h].end = HopEnd(h) /\ lines[c].end = HopEnd(c)
    BY <1>1, LineTyped DEF TrueClocks
  <2>2. TrueClocks => a = 0 /\ b = 0
    BY <1>2, <1>3, <1>4, <1>5, <2>1
  <2> QED
    BY <2>2
<1> HIDE DEF x, y, d, before, after
<1>10. /\ Over(x) + Over(y) \in Nat
       /\ \A n \in Nat : d + 2 <= n /\ -d + 2 <= n => Over(x) + Over(y) <= n
  BY <1>6, OverApart
<1>11. ClocksAgree => Violation(h, c) <= SkewTolerance
  BY <1>4, <1>7, <1>8, <1>10
<1>12. TrueClocks => Violation(h, c) <= 2
  BY <1>7, <1>9, <1>10
<1> QED
  BY <1>11, <1>12 DEF c

LEMMA FirstOfThree ==
  ASSUME NEW a, NEW b, NEW c, NEW x, NEW y, NEW z,
         a < x \/ (a = x /\ b < y) \/ (a = x /\ b = y /\ c < z)
  PROVE  Lexicographic(<<a, b, c>>, <<x, y, z>>)
<1> DEFINE s == <<a, b, c>>
           t == <<x, y, z>>
<1>1. DOMAIN s = 1 .. 3 /\ s[1] = a /\ s[2] = b /\ s[3] = c /\ t[1] = x /\ t[2] = y /\ t[3] = z
  OBVIOUS
<1>2. 1 .. 1 - 1 = {} /\ 1 .. 2 - 1 = {1} /\ 1 .. 3 - 1 = {1, 2}
  OBVIOUS
<1> HIDE DEF s, t
<1>3. CASE a < x
  BY <1>1, <1>2, <1>3 DEF Lexicographic, s, t
<1>4. CASE a = x /\ b < y
  BY <1>1, <1>2, <1>4 DEF Lexicographic, s, t
<1>5. CASE a = x /\ b = y /\ c < z
  BY <1>1, <1>2, <1>5 DEF Lexicographic, s, t
<1> QED
  BY <1>3, <1>4, <1>5

\* Among lines with ids of their own one is tighter than all others.
LEMMA TightestExists ==
  ASSUME NEW S, S # {}, NEW p \in [S -> Nat], NEW q \in [S -> Nat], NEW r \in [S -> Nat],
         \A c, d \in S : r[c] = r[d] => c = d
  PROVE  \E c \in S : \A d \in S \ {c} : Lexicographic(<<p[c], q[c], r[c]>>, <<p[d], q[d], r[d]>>)
<1>1. PICK c1 \in S : \A d \in S : p[c1] <= p[d]
  <2> DEFINE P == {p[c] : c \in S}
  <2>1. P \in SUBSET Nat /\ P # {}
    OBVIOUS
  <2> HIDE DEF P
  <2>2. \E m \in P : \A n \in P : m <= n
    BY <2>1, LeastNatural
  <2> QED
    BY <2>2 DEF P
<1> DEFINE S1 == {c \in S : p[c] = p[c1]}
<1>2. PICK c2 \in S1 : \A d \in S1 : q[c2] <= q[d]
  <2> DEFINE P == {q[c] : c \in S1}
  <2>1. P \in SUBSET Nat /\ P # {}
    OBVIOUS
  <2> HIDE DEF P
  <2>2. \E m \in P : \A n \in P : m <= n
    BY <2>1, LeastNatural
  <2> QED
    BY <2>2 DEF P
<1> DEFINE S2 == {c \in S1 : q[c] = q[c2]}
<1>3. PICK c \in S2 : \A d \in S2 : r[c] <= r[d]
  <2> DEFINE P == {r[c] : c \in S2}
  <2>1. P \in SUBSET Nat /\ P # {}
    OBVIOUS
  <2> HIDE DEF P
  <2>2. \E m \in P : \A n \in P : m <= n
    BY <2>1, LeastNatural
  <2> QED
    BY <2>2 DEF P
<1>4. ASSUME NEW d \in S \ {c}
      PROVE  Lexicographic(<<p[c], q[c], r[c]>>, <<p[d], q[d], r[d]>>)
  <2>1. p[c] < p[d] \/ (p[c] = p[d] /\ q[c] < q[d]) \/ (p[c] = p[d] /\ q[c] = q[d] /\ r[c] < r[d])
    <3>1. /\ p[c] \in Nat /\ q[c] \in Nat /\ r[c] \in Nat /\ p[d] \in Nat /\ q[d] \in Nat /\ r[d] \in Nat
          /\ p[c1] \in Nat /\ q[c2] \in Nat
      OBVIOUS
    <3>2. p[c] <= p[d]
      BY <1>1
    <3>3. CASE p[c] # p[d]
      BY <3>1, <3>2, <3>3
    <3>4. CASE p[c] = p[d]
      <4>1. d \in S1 /\ q[c] <= q[d]
        BY <1>2, <3>4
      <4>2. CASE q[c] # q[d]
        BY <3>1, <3>4, <4>1, <4>2
      <4>3. CASE q[c] = q[d]
        <5>1. d \in S2 /\ r[c] <= r[d] /\ r[c] # r[d]
          BY <1>3, <4>1, <4>3
        <5> QED
          BY <3>1, <3>4, <4>3, <5>1
      <4> QED
        BY <4>2, <4>3
    <3> QED
      BY <3>3, <3>4
  <2> QED
    BY <2>1, FirstOfThree
<1> QED
  BY <1>4

\* A line that has candidates hangs under the tightest of them.
LEMMA ParentIsTightest ==
  ASSUME Inferred, NEW h \in Hops, h[1] # Root, CandidatesOf(h) # {}
  PROVE  /\ parent[h] \in CandidatesOf(h) /\ CandidatesOf(h) \subseteq Hops
         /\ \A d \in CandidatesOf(h) \ {parent[h]} : Tighter(h, parent[h], d)
<1> DEFINE S == CandidatesOf(h)
           p == [c \in S |-> Violation(h, c)]
           q == [c \in S |-> RequestTime(lines[c])]
           r == [c \in S |-> lines[c].id]
<1>1. S \subseteq Hops
  BY LineTyped DEF CandidatesOf
<1>2. p \in [S -> Nat]
  <2> SUFFICES ASSUME NEW c \in S PROVE Violation(h, c) \in Nat
    OBVIOUS
  <2>1. /\ lines[c].end \in Int /\ LineStart(lines[c]) \in Int
        /\ lines[h].end \in Int /\ LineStart(lines[h]) \in Int
    BY <1>1, LineTyped
  <2> QED
    BY <2>1 DEF Violation, Over
<1>3. q \in [S -> Nat] /\ r \in [S -> Nat]
  BY <1>1, LineTyped
<1>4. \A c, d \in S : r[c] = r[d] => c = d
  <2> SUFFICES ASSUME NEW c \in S, NEW d \in S, r[c] = r[d] PROVE c = d
    OBVIOUS
  <2>1. SpanIdOf[c] = SpanIdOf[d]
    BY <1>1, LineTyped
  <2>2. c \in EndpointsOf \X (1 .. Retries + 1) /\ d \in EndpointsOf \X (1 .. Retries + 1)
    BY <1>1 DEF Hops
  <2> QED
    BY <2>1, <2>2, LinesAreTold DEF EndpointsOf
<1>5. \E c \in S : \A d \in S \ {c} : Lexicographic(<<p[c], q[c], r[c]>>, <<p[d], q[d], r[d]>>)
  <2> HIDE DEF S, p, q, r
  <2> QED
    BY <1>2, <1>3, <1>4, TightestExists DEF S
<1>6. \E c \in S : \A d \in S \ {c} : Tighter(h, c, d)
  BY <1>5 DEF Tighter
<1>7. parent[h] = CHOOSE c \in S : \A d \in S \ {c} : Tighter(h, c, d)
  <2>1. parent[h] = InferredParent(h) /\ ~IsEdge(h)
    BY EdgeIsRoot DEF Inferred, Evaluated, TimesInv, StampsInv
  <2> QED
    BY <2>1 DEF InferredParent
<1> HIDE DEF S
<1>8. parent[h] \in S /\ \A d \in S \ {parent[h]} : Tighter(h, parent[h], d)
  BY <1>6, <1>7
<1> QED
  BY <1>1, <1>8 DEF S

LEMMA TrueParentIsCandidate ==
  ASSUME Inferred, NEW h \in Hops, h[1] # Root,
         ClocksAgree \/ (TrueClocks /\ 2 <= SkewTolerance)
  PROVE  ParentHop(h) \in CandidatesOf(h)
<1>1. ParentHop(h) \in Hops /\ ParentHop(h) # h /\ ParentHop(h)[1] = caller[h[1]]
  BY ParentHopTyped
<1>2. DOMAIN lines = Hops /\ lines[ParentHop(h)].service = lines[h].client
  BY <1>1, LineTyped
<1>3. Violation(h, ParentHop(h)) <= SkewTolerance
  <2>1. Violation(h, ParentHop(h)) \in Int
    <3>1. /\ lines[h].end \in Int /\ LineStart(lines[h]) \in Int
          /\ lines[ParentHop(h)].end \in Int /\ LineStart(lines[ParentHop(h)]) \in Int
      BY <1>1, LineTyped
    <3> QED
      BY <3>1 DEF Violation, Over
  <2> QED
    BY <2>1, TrueParentIsNear, RequestAssumption
<1> QED
  BY <1>1, <1>2, <1>3 DEF CandidatesOf

\* With clocks that agree up to the tolerance less rounding, every line hangs under a line of the
\* service that called it, and under its true caller where that is the only one.
THEOREM TrueCallersAreFound ==
  ASSUME ClocksAgree
  PROVE  Spec => []TrueCallerFound
<1>1. RequestInv /\ TimesInv => TrueCallerFound
  <2> SUFFICES ASSUME RequestInv, TimesInv, pc = "done", NEW h \in DOMAIN lines, h[1] # Root
               PROVE  /\ lines[parent[h]].service = lines[ParentHop(h)].service
                      /\ Cardinality({c \in DOMAIN lines : lines[c].service = lines[h].client}) = 1
                           => parent[h] = ParentHop(h)
    BY DEF TrueCallerFound
  <2>1. Inferred
    BY DEF Inferred, Evaluated
  <2>2. h \in Hops /\ DOMAIN lines = Hops
    BY DEF RequestInv, ControlInv, LinesInv
  <2> DEFINE S == {c \in DOMAIN lines : lines[c].service = lines[h].client}
  <2>3. ParentHop(h) \in CandidatesOf(h)
    BY <2>1, <2>2, TrueParentIsCandidate
  <2>4. parent[h] \in CandidatesOf(h)
    BY <2>1, <2>2, <2>3, ParentIsTightest
  <2>5. parent[h] \in S /\ ParentHop(h) \in S
    BY <2>3, <2>4 DEF CandidatesOf
  <2>6. IsFiniteSet(S)
    BY <2>2, HopsFinite, FS_Subset
  <2>7. ASSUME Cardinality(S) = 1 PROVE parent[h] = ParentHop(h)
    <3> HIDE DEF S
    <3>1. \E x : S = {x}
      BY <2>6, <2>7, FS_Singleton
    <3> QED
      BY <2>5, <3>1
  <2> QED
    BY <2>5, <2>7
<1> QED
  BY <1>1, TimesInvHolds, PTL

(***************************************************************************)
(* Depths under inferred links, and the rows of a view.                    *)
(***************************************************************************)
\* Links that lead to a lower rank, or out of the set.
IsForest(S, none, up, rank) ==
  /\ IsFiniteSet(S) /\ none \notin S /\ rank \in [S -> Nat]
  /\ \A s \in S : up[s] = none \/ (up[s] \in S /\ rank[up[s]] < rank[s])

IsLevels(D, S, none, up) ==
  /\ D[0] = {s \in S : up[s] = none}
  /\ \A n \in Nat : D[n + 1] = {s \in S : up[s] \in D[n]}

LEMMA LevelIsUnique ==
  ASSUME NEW S, NEW none, none \notin S, NEW up, NEW D, IsLevels(D, S, none, up)
  PROVE  \A n, m \in Nat : \A s \in S : s \in D[n] /\ s \in D[m] => n = m
<1> DEFINE P == {n \in Nat : \A m \in Nat : \A s \in S : s \in D[n] /\ s \in D[m] => n = m}
<1>1. \A n \in Nat : D[n] \subseteq S
  <2> SUFFICES ASSUME NEW n \in Nat PROVE D[n] \subseteq S
    OBVIOUS
  <2>1. n = 0 \/ (n - 1 \in Nat /\ n - 1 + 1 = n)
    OBVIOUS
  <2> QED
    BY <2>1 DEF IsLevels
<1>2. \A m \in Nat : \A s \in S : s \in D[m] => (up[s] = none <=> m = 0)
  <2> SUFFICES ASSUME NEW m \in Nat, NEW s \in S, s \in D[m] PROVE up[s] = none <=> m = 0
    OBVIOUS
  <2>1. CASE m = 0
    BY <2>1 DEF IsLevels
  <2>2. CASE m # 0
    <3>1. m - 1 \in Nat /\ m - 1 + 1 = m
      BY <2>2
    <3>2. up[s] \in D[m - 1]
      BY <3>1 DEF IsLevels
    <3> QED
      BY <1>1, <2>2, <3>1, <3>2
  <2> QED
    BY <2>1, <2>2
<1>3. 0 \in P
  BY <1>2
<1>4. ASSUME NEW n \in P PROVE n + 1 \in P
  <2> SUFFICES ASSUME NEW m \in Nat, NEW s \in S, s \in D[n + 1], s \in D[m] PROVE n + 1 = m
    OBVIOUS
  <2>1. n + 1 \in Nat /\ n + 1 # 0
    OBVIOUS
  <2>2. m # 0
    BY <1>2, <2>1
  <2>3. m - 1 \in Nat /\ m - 1 + 1 = m
    BY <2>2
  <2>4. up[s] \in D[n] /\ up[s] \in D[m - 1]
    BY <2>3 DEF IsLevels
  <2>5. n = m - 1
    BY <1>1, <2>3, <2>4
  <2> QED
    BY <2>3, <2>5
<1>5. P = Nat
  <2>1. P \in SUBSET Nat
    OBVIOUS
  <2> HIDE DEF P
  <2> QED
    BY <1>3, <1>4, <2>1, InductionOnNat
<1> QED
  BY <1>5

LEMMA LevelExists ==
  ASSUME NEW S, NEW none, NEW up, NEW rank, IsForest(S, none, up, rank),
         NEW D, IsLevels(D, S, none, up)
  PROVE  \A s \in S : \E n \in Nat : s \in D[n]
<1> DEFINE P == {r \in Nat : \A s \in S : rank[s] <= r => \E n \in Nat : s \in D[n]}
<1>1. ASSUME NEW s \in S, up[s] = none \/ \E n \in Nat : up[s] \in D[n]
      PROVE  \E n \in Nat : s \in D[n]
  <2>1. CASE up[s] = none
    BY <2>1 DEF IsLevels
  <2>2. CASE \E n \in Nat : up[s] \in D[n]
    <3>1. PICK n \in Nat : up[s] \in D[n]
      BY <2>2
    <3>2. s \in D[n + 1] /\ n + 1 \in Nat
      BY <3>1 DEF IsLevels
    <3> QED
      BY <3>2
  <2> QED
    BY <1>1, <2>1, <2>2
<1>2. \A s \in S : rank[s] \in Nat
  BY DEF IsForest
<1>3. 0 \in P
  <2> SUFFICES ASSUME NEW s \in S, rank[s] <= 0 PROVE \E n \in Nat : s \in D[n]
    OBVIOUS
  <2>1. up[s] = none
    <3>1. up[s] \in S => rank[up[s]] \in Nat /\ ~(rank[up[s]] < rank[s])
      BY <1>2
    <3> QED
      BY <3>1 DEF IsForest
  <2> QED
    BY <1>1, <2>1
<1>4. ASSUME NEW r \in P PROVE r + 1 \in P
  <2> SUFFICES ASSUME NEW s \in S, rank[s] <= r + 1 PROVE \E n \in Nat : s \in D[n]
    OBVIOUS
  <2>1. CASE up[s] = none
    BY <1>1, <2>1
  <2>2. CASE up[s] # none
    <3>1. up[s] \in S /\ rank[up[s]] < rank[s]
      BY <2>2 DEF IsForest
    <3>2. rank[up[s]] <= r
      BY <1>2, <3>1
    <3> QED
      BY <1>1, <3>1, <3>2
  <2> QED
    BY <2>1, <2>2
<1>5. P = Nat
  <2>1. P \in SUBSET Nat
    OBVIOUS
  <2> HIDE DEF P
  <2> QED
    BY <1>3, <1>4, <2>1, InductionOnNat
<1>6. ASSUME NEW s \in S PROVE \E n \in Nat : s \in D[n]
  <2>1. rank[s] \in P /\ rank[s] <= rank[s]
    BY <1>2, <1>5
  <2> QED
    BY <2>1
<1> QED
  BY <1>6

\* A level has above it one span of each level before.
LEMMA LevelIsBounded ==
  ASSUME NEW S, NEW none, NEW up, NEW rank, IsForest(S, none, up, rank),
         NEW D, IsLevels(D, S, none, up)
  PROVE  \A n \in Nat : \A s \in S : s \in D[n] => n <= Cardinality(S)
<1>0. none \notin S /\ IsFiniteSet(S)
  BY DEF IsForest
<1> DEFINE Chain(n, s, C) == /\ C \in SUBSET S /\ s \in C /\ Cardinality(C) = n + 1
                             /\ \A x \in C : \E m \in 0 .. n : x \in D[m]
           P == {n \in Nat : \A s \in S : s \in D[n] => \E C : Chain(n, s, C)}
<1>1. 0 \in P
  <2>1. ASSUME NEW s \in S, s \in D[0] PROVE Chain(0, s, {s})
    <3>1. Cardinality({s}) = 1
      BY FS_Singleton
    <3>2. 0 \in 0 .. 0 /\ 0 + 1 = 1
      OBVIOUS
    <3> QED
      BY <2>1, <3>1, <3>2
  <2>2. \A s \in S : s \in D[0] => \E C : Chain(0, s, C)
    BY <2>1
  <2> HIDE DEF Chain
  <2> QED
    BY <2>2
<1>2. ASSUME NEW n \in P PROVE n + 1 \in P
  <2> SUFFICES ASSUME NEW s \in S, s \in D[n + 1] PROVE \E C : Chain(n + 1, s, C)
    OBVIOUS
  <2>1. up[s] \in S /\ up[s] \in D[n]
    <3>1. up[s] \in D[n]
      BY DEF IsLevels
    <3>2. up[s] # none
      <4>1. up[s] = none => s \in D[0]
        BY DEF IsLevels
      <4>2. s \notin D[0]
        BY <1>0, LevelIsUnique
      <4> QED
        BY <4>1, <4>2
    <3> QED
      BY <3>1, <3>2 DEF IsForest
  <2>2. PICK C : Chain(n, up[s], C)
    BY <2>1
  <2>3. s \notin C
    <3> SUFFICES ASSUME s \in C PROVE FALSE
      OBVIOUS
    <3>1. PICK m \in 0 .. n : s \in D[m]
      BY <2>2
    <3>2. m \in Nat /\ n + 1 \in Nat /\ m # n + 1
      OBVIOUS
    <3> QED
      BY <1>0, <3>1, <3>2, LevelIsUnique
  <2>4. IsFiniteSet(C) /\ Cardinality(C) = n + 1
    BY <1>0, <2>2, FS_Subset
  <2>5. Cardinality(C \cup {s}) = n + 1 + 1
    BY <2>3, <2>4, FS_AddElement
  <2>6. \A x \in C \cup {s} : \E m \in 0 .. n + 1 : x \in D[m]
    <3>1. n + 1 \in 0 .. n + 1 /\ \A m \in 0 .. n : m \in 0 .. n + 1
      OBVIOUS
    <3> QED
      BY <2>2, <3>1
  <2>7. Chain(n + 1, s, C \cup {s})
    BY <2>2, <2>5, <2>6
  <2> QED
    BY <2>7
<1>3. P = Nat
  <2>1. P \in SUBSET Nat
    OBVIOUS
  <2> HIDE DEF P
  <2> QED
    BY <1>1, <1>2, <2>1, InductionOnNat
<1>4. ASSUME NEW n \in Nat, NEW s \in S, s \in D[n] PROVE n <= Cardinality(S)
  <2>1. PICK C : Chain(n, s, C)
    BY <1>3, <1>4
  <2>2. Cardinality(C) <= Cardinality(S) /\ Cardinality(C) = n + 1 /\ Cardinality(S) \in Nat
    BY <1>0, <2>1, FS_Subset, FS_CardinalityType
  <2> QED
    BY <2>2
<1> QED
  BY <1>4

LEMMA LevelsExist ==
  ASSUME NEW S, NEW none, NEW up
  PROVE  \E D \in [Nat -> SUBSET S] : IsLevels(D, S, none, up)
<1> DEFINE V == SUBSET S
           a0 == {s \in S : up[s] = none}
           step == [X \in V |-> {s \in S : up[s] \in X}]
<1>1. a0 \in V /\ step \in [V -> V]
  OBVIOUS
<1>2. \E W \in [Nat -> V] : W[0] = a0 /\ \A n \in Nat : W[n + 1] = step[W[n]]
  <2> HIDE DEF V, a0, step
  <2> QED
    BY <1>1, RecursionExists
<1>3. PICK W \in [Nat -> V] : W[0] = a0 /\ \A n \in Nat : W[n + 1] = step[W[n]]
  BY <1>2
<1>4. \A n \in Nat : W[n + 1] = {s \in S : up[s] \in W[n]}
  BY <1>3
<1>5. IsLevels(W, S, none, up)
  BY <1>3, <1>4 DEF IsLevels
<1> QED
  BY <1>3, <1>5

\* A service lies in one layer, and calls go to a deeper one.
ServicesLayered(depth) ==
  /\ depth \in [EndpointsOf -> Nat]
  /\ \A v, w \in EndpointsOf : ServiceOf[v] = ServiceOf[w] => depth[v] = depth[w]
  /\ \A e \in DOMAIN Calls : Calls[e][1] \in EndpointsOf /\ Calls[e][2] \in EndpointsOf =>
       depth[Calls[e][1]] < depth[Calls[e][2]]

\* The parents of a row's spans, and how deep their services lie.
Up == [s \in Spans |-> SpanParent(s)]
Depth(depth) == [s \in Spans |-> IF s = Client THEN 0 ELSE depth[s[1]] + 1]

LEMMA SpansTyped ==
  ASSUME Inferred, TrueClocks, NEW s \in Spans
  PROVE  /\ IsFiniteSet(Spans) /\ NoSpan \notin Spans /\ Client \notin Hops
         /\ s = Client => SpanParent(s) = NoSpan /\ clientTs # None
         /\ s # Client => s \in Hops
         /\ s = Edge => SpanParent(s) = IF clientTs = None THEN NoSpan ELSE Client
         /\ s # Client /\ s # Edge => SpanParent(s) = parent[s] /\ s[1] # Root
         /\ SpanStart(s) \in Int /\ SpanEnd(s) \in Int /\ SpanId(s) \in Nat
<1>1. DOMAIN lines = Hops
  BY DEF Inferred, Evaluated, RequestInv, ControlInv, LinesInv
<1>2. \A v \in EndpointsOf : v \in Nat \ {0}
  BY RequestAssumption DEF EndpointsOf, ToSet
<1>3. Client \notin Hops /\ NoSpan \notin Hops /\ Client # NoSpan
  BY <1>2 DEF Hops, Client, NoSpan, None
<1>4. Spans = IF clientTs = None THEN Hops ELSE Hops \cup {Client}
  BY <1>1 DEF Spans
<1>5. IsFiniteSet(Spans)
  BY <1>4, HopsFinite, FS_AddElement
<1>6. Edge \in Hops /\ Edge = <<Root, 1>> /\ \A h \in Hops : h[1] = Root => h = Edge
  BY EdgeIsRoot
<1>7. clientTs \in {None, HopEnd(Edge) + CLIENT_DELAY} /\ HopEnd(Edge) \in Nat
  BY <1>6, HopRounded DEF Inferred, Evaluated, TimesInv, StampsInv
<1>8. clientTs \in Int
  BY <1>7 DEF None, CLIENT_DELAY
<1>9. SpanStart(s) \in Int /\ SpanEnd(s) \in Int /\ SpanId(s) \in Nat
  <2>1. CASE s = Client
    <3>1. LineStart(lines[Edge]) \in Int
      BY <1>6, LineTyped
    <3> QED
      BY <1>8, <2>1, <3>1 DEF SpanStart, SpanEnd, SpanId
  <2>2. CASE s # Client
    <3>1. s \in Hops
      BY <1>4, <2>2
    <3> QED
      BY <2>2, <3>1, LineTyped DEF SpanStart, SpanEnd, SpanId
  <2> QED
    BY <2>1, <2>2
<1> QED
  BY <1>3, <1>4, <1>5, <1>6, <1>9 DEF SpanParent

LEMMA LowerFirst ==
  ASSUME NEW a, NEW b, NEW c, NEW x, NEW y, NEW z, Lexicographic(<<a, b, c>>, <<x, y, z>>)
  PROVE  a < x \/ a = x
<1> DEFINE s == <<a, b, c>>
           t == <<x, y, z>>
<1>1. DOMAIN s = 1 .. 3 /\ s[1] = a /\ t[1] = x
  OBVIOUS
<1> HIDE DEF s, t
<1>2. PICK i \in DOMAIN s : s[i] < t[i] /\ \A j \in 1 .. i - 1 : s[j] = t[j]
  BY DEF Lexicographic, s, t
<1>3. i = 1 \/ 1 \in 1 .. i - 1
  BY <1>1
<1> QED
  BY <1>1, <1>2, <1>3

\* With true clocks a child sticks out of its parent by two milliseconds at most, and
\* the parent's service lies less deep.
LEMMA ParentCovers ==
  ASSUME Inferred, TrueClocks, 2 <= SkewTolerance, NEW depth, ServicesLayered(depth),
         NEW s \in Spans, SpanParent(s) # NoSpan
  PROVE  /\ SpanParent(s) \in Spans
         /\ Depth(depth)[SpanParent(s)] < Depth(depth)[s]
         /\ Inversion(s) <= 2
         /\ Inversion(s) = 0 => /\ SpanStart(SpanParent(s)) <= SpanStart(s)
                                /\ SpanEnd(s) <= SpanEnd(SpanParent(s))
<1>1. Spans = IF clientTs = None THEN Hops ELSE Hops \cup {Client}
  BY DEF Spans, Inferred, Evaluated, RequestInv, ControlInv, LinesInv
<1>2. s # Client /\ s \in Hops
  BY SpansTyped
<1>3. \A h \in Hops : h \in Spans /\ h # Client /\ Depth(depth)[h] = depth[h[1]] + 1 /\ depth[h[1]] \in Nat
  <2> SUFFICES ASSUME NEW h \in Hops
               PROVE  h \in Spans /\ h # Client /\ Depth(depth)[h] = depth[h[1]] + 1 /\ depth[h[1]] \in Nat
    OBVIOUS
  <2>1. h \in Spans /\ h # Client
    BY <1>1, SpansTyped
  <2>2. depth[h[1]] \in Nat
    BY HopTyped DEF Inferred, ServicesLayered
  <2> QED
    BY <2>1, <2>2 DEF Depth
<1>4. CASE s = Edge
  <2>1. SpanParent(s) = Client /\ clientTs # None
    BY <1>4, SpansTyped
  <2>2. Client \in Spans /\ Depth(depth)[Client] = 0
    BY <1>1, <2>1 DEF Depth
  <2>3. Depth(depth)[s] > 0
    BY <1>2, <1>3
  <2>4. s = <<Root, 1>>
    BY <1>4, EdgeIsRoot
  <2>5. clientTs = HopEnd(s) + CLIENT_DELAY /\ HopEnd(s) \in Nat
    BY <1>2, <2>1, <2>4, HopRounded DEF Inferred, Evaluated, TimesInv, StampsInv
  <2>6. lines[s].end = HopEnd(s) /\ LineStart(lines[s]) \in Int
    BY <1>2, LineTyped DEF TrueClocks
  <2>7. SpanStart(Client) = LineStart(lines[s]) - 1 /\ SpanEnd(Client) = clientTs
        /\ SpanStart(s) = LineStart(lines[s]) /\ SpanEnd(s) = lines[s].end
    BY <1>2, <1>4 DEF SpanStart, SpanEnd
  <2>8. SpanStart(Client) <= SpanStart(s) /\ SpanEnd(s) <= SpanEnd(Client)
        /\ SpanStart(s) \in Int /\ SpanEnd(s) \in Int /\ SpanStart(Client) \in Int /\ SpanEnd(Client) \in Int
    BY <2>5, <2>6, <2>7 DEF CLIENT_DELAY
  <2>9. Inversion(s) = 0
    BY <2>1, <2>8 DEF Inversion, Over
  <2> QED
    BY <2>1, <2>2, <2>3, <2>8, <2>9
<1>5. CASE s # Edge
  <2> DEFINE p == parent[s]
  <2>1. SpanParent(s) = p /\ s[1] # Root
    BY <1>2, <1>5, SpansTyped
  <2>2. ParentHop(s) \in CandidatesOf(s)
    BY <1>2, <2>1, TrueParentIsCandidate
  <2>3. p \in CandidatesOf(s) /\ p \in Hops /\ \A d \in CandidatesOf(s) \ {p} : Tighter(s, p, d)
    BY <1>2, <2>1, <2>2, ParentIsTightest
  <2> HIDE DEF p
  <2>4. /\ lines[s].end \in Int /\ LineStart(lines[s]) \in Int
        /\ lines[p].end \in Int /\ LineStart(lines[p]) \in Int
    BY <1>2, <2>3, LineTyped
  <2>5. Violation(s, p) \in Nat /\ Violation(s, ParentHop(s)) <= 2
        /\ Violation(s, ParentHop(s)) \in Nat
    <3>1. /\ ParentHop(s) \in Hops
          /\ lines[ParentHop(s)].end \in Int /\ LineStart(lines[ParentHop(s)]) \in Int
      BY <1>2, <2>1, ParentHopTyped, LineTyped
    <3>2. Violation(s, ParentHop(s)) <= 2
      BY <1>2, <2>1, TrueParentIsNear
    <3> QED
      BY <2>4, <3>1, <3>2 DEF Violation, Over
  <2>6. Violation(s, p) <= 2
    <3>1. CASE p = ParentHop(s)
      BY <2>5, <3>1
    <3>2. CASE p # ParentHop(s)
      <4>1. Tighter(s, p, ParentHop(s))
        BY <2>2, <2>3, <3>2
      <4>2. Violation(s, p) < Violation(s, ParentHop(s)) \/ Violation(s, p) = Violation(s, ParentHop(s))
        BY <4>1, LowerFirst DEF Tighter
      <4> QED
        BY <2>5, <4>2
    <3> QED
      BY <3>1, <3>2
  <2>7. Violation(s, p) = 0 => LineStart(lines[p]) <= LineStart(lines[s]) /\ lines[s].end <= lines[p].end
    <3> DEFINE x == LineStart(lines[p]) - LineStart(lines[s])
               y == lines[s].end - lines[p].end
    <3> SUFFICES ASSUME Violation(s, p) = 0
                 PROVE  LineStart(lines[p]) <= LineStart(lines[s]) /\ lines[s].end <= lines[p].end
      OBVIOUS
    <3>1. x \in Int /\ y \in Int /\ Over(x) + Over(y) = 0
      BY <2>4 DEF Violation
    <3> HIDE DEF x, y
    <3>2. x <= 0 /\ y <= 0
      BY <3>1 DEF Over
    <3> QED
      BY <2>4, <3>2 DEF x, y
  <2>8. depth[p[1]] < depth[s[1]]
    <3>1. PICK e \in DOMAIN Calls : Calls[e][1] = caller[s[1]] /\ Calls[e][2] = s[1]
      BY <1>2, <2>1, ParentHopTyped
    <3>2. caller[s[1]] \in EndpointsOf /\ s[1] \in EndpointsOf /\ p[1] \in EndpointsOf
      <4>1. ParentHop(s) \in Hops /\ ParentHop(s)[1] = caller[s[1]]
        BY <1>2, <2>1, ParentHopTyped
      <4> QED
        BY <1>2, <2>3, <4>1, HopTyped DEF Inferred
    <3>3. depth[caller[s[1]]] < depth[s[1]]
      BY <3>1, <3>2 DEF ServicesLayered
    <3>4. ServiceOf[p[1]] = ServiceOf[caller[s[1]]]
      BY <1>2, <2>1, <2>3, LineTyped DEF CandidatesOf
    <3> QED
      BY <3>2, <3>3, <3>4 DEF ServicesLayered
  <2>9. /\ SpanStart(p) = LineStart(lines[p]) /\ SpanEnd(p) = lines[p].end
        /\ SpanStart(s) = LineStart(lines[s]) /\ SpanEnd(s) = lines[s].end
    BY <1>2, <1>3, <2>3 DEF SpanStart, SpanEnd
  <2>10. Depth(depth)[p] < Depth(depth)[s] /\ p \in Spans
    BY <1>2, <1>3, <2>3, <2>8
  <2>11. Inversion(s) = Violation(s, p)
    BY <2>1, <2>9 DEF Inversion, Violation
  <2> QED
    BY <2>1, <2>6, <2>7, <2>9, <2>10, <2>11
<1> QED
  BY <1>4, <1>5

\* A child is one deeper than its parent.
LEMMA DepthBelowParent ==
  ASSUME Inferred, TrueClocks, 2 <= SkewTolerance, NEW depth, ServicesLayered(depth),
         NEW s \in Spans, SpanParent(s) # NoSpan
  PROVE  /\ Depths[s] \in Nat /\ Depths[SpanParent(s)] \in Nat
         /\ Depths[s] = Depths[SpanParent(s)] + 1
<1> DEFINE IsLevel(D) == D = [n \in Nat |-> IF n = 0 THEN {x \in Spans : SpanParent(x) = NoSpan}
                                           ELSE {x \in Spans : SpanParent(x) \in D[n - 1]}]
           L == CHOOSE D : IsLevel(D)
           p == SpanParent(s)
<1>1. IsFiniteSet(Spans) /\ NoSpan \notin Spans /\ p \in Spans
  BY SpansTyped, ParentCovers
<1>2. IsForest(Spans, NoSpan, Up, Depth(depth))
  <2>1. Depth(depth) \in [Spans -> Nat]
    <3> SUFFICES ASSUME NEW x \in Spans PROVE (IF x = Client THEN 0 ELSE depth[x[1]] + 1) \in Nat
      BY DEF Depth
    <3>1. CASE x = Client
      BY <3>1
    <3>2. CASE x # Client
      <4>1. x[1] \in EndpointsOf
        BY <3>2, SpansTyped, HopTyped DEF Inferred
      <4> QED
        BY <3>2, <4>1 DEF ServicesLayered
    <3> QED
      BY <3>1, <3>2
  <2>2. ASSUME NEW x \in Spans
        PROVE  Up[x] = NoSpan \/ (Up[x] \in Spans /\ Depth(depth)[Up[x]] < Depth(depth)[x])
    BY ParentCovers DEF Up
  <2> QED
    BY <1>1, <2>1, <2>2 DEF IsForest
<1>3. \E D : IsLevel(D)
  <2>1. PICK D \in [Nat -> SUBSET Spans] : IsLevels(D, Spans, NoSpan, Up)
    BY LevelsExist
  <2>2. ASSUME NEW n \in Nat
        PROVE  D[n] = IF n = 0 THEN {x \in Spans : SpanParent(x) = NoSpan}
                      ELSE {x \in Spans : SpanParent(x) \in D[n - 1]}
    <3>1. CASE n = 0
      BY <2>1, <3>1 DEF IsLevels, Up
    <3>2. CASE n # 0
      <4>1. n - 1 \in Nat /\ n - 1 + 1 = n
        BY <3>2
      <4>2. D[n] = {x \in Spans : Up[x] \in D[n - 1]}
        BY <2>1, <4>1 DEF IsLevels
      <4> QED
        BY <3>2, <4>2 DEF Up
    <3> QED
      BY <3>1, <3>2
  <2>3. IsLevel(D)
    BY <2>1, <2>2
  <2> QED
    BY <2>3
<1>4. IsLevel(L)
  BY <1>3
<1>5. IsLevels(L, Spans, NoSpan, Up)
  <2> HIDE DEF L
  <2>1. \A n \in Nat : L[n] = IF n = 0 THEN {x \in Spans : SpanParent(x) = NoSpan}
                              ELSE {x \in Spans : SpanParent(x) \in L[n - 1]}
    BY <1>4
  <2>2. L[0] = {x \in Spans : Up[x] = NoSpan}
    BY <2>1 DEF Up
  <2>3. ASSUME NEW n \in Nat PROVE L[n + 1] = {x \in Spans : Up[x] \in L[n]}
    <3>1. n + 1 \in Nat /\ n + 1 # 0 /\ n + 1 - 1 = n
      OBVIOUS
    <3> DEFINE m == n + 1
    <3>2. L[m] = {x \in Spans : SpanParent(x) \in L[m - 1]}
      <4> HIDE DEF m
      <4>1. m \in Nat /\ m # 0
        BY <3>1 DEF m
      <4> QED
        BY <2>1, <4>1
    <3>3. {x \in Spans : Up[x] \in L[n]} = {x \in Spans : SpanParent(x) \in L[n]}
      BY DEF Up
    <3> QED
      BY <3>1, <3>2, <3>3
  <2> QED
    BY <2>2, <2>3 DEF IsLevels
<1>6. Depths = [x \in Spans |-> CHOOSE n \in 0 .. Cardinality(Spans) : x \in L[n]]
  BY DEF Depths
<1> HIDE DEF L, IsLevel
<1>7. Cardinality(Spans) \in Nat
  BY <1>1, FS_CardinalityType
<1>8. ASSUME NEW x \in Spans PROVE Depths[x] \in Nat /\ x \in L[Depths[x]]
  <2>1. PICK n \in Nat : x \in L[n]
    BY <1>2, <1>5, LevelExists
  <2>2. n <= Cardinality(Spans)
    BY <1>2, <1>5, <2>1, LevelIsBounded
  <2>3. n \in 0 .. Cardinality(Spans)
    BY <1>7, <2>2
  <2>4. Depths[x] \in 0 .. Cardinality(Spans) /\ x \in L[Depths[x]]
    BY <1>6, <2>1, <2>3
  <2> QED
    BY <2>4
<1>9. s \in L[Depths[p] + 1]
  <2>1. Up[s] = p
    BY DEF Up
  <2> QED
    BY <1>1, <1>5, <1>8, <2>1 DEF IsLevels
<1>10. Depths[s] = Depths[p] + 1
  <2>1. Depths[s] \in Nat /\ Depths[p] + 1 \in Nat /\ s \in L[Depths[s]]
    BY <1>1, <1>8
  <2> QED
    BY <1>1, <1>5, <1>9, <2>1, LevelIsUnique
<1> QED
  BY <1>1, <1>8, <1>10

LEMMA FirstOfFour ==
  ASSUME NEW a, NEW b, NEW c, NEW d, NEW x, NEW y, NEW z, NEW w,
         a < x \/ (a = x /\ b < y) \/ (a = x /\ b = y /\ c < z)
  PROVE  Lexicographic(<<a, b, c, d>>, <<x, y, z, w>>)
<1> DEFINE s == <<a, b, c, d>>
           t == <<x, y, z, w>>
<1>1. DOMAIN s = 1 .. 4 /\ s[1] = a /\ s[2] = b /\ s[3] = c /\ t[1] = x /\ t[2] = y /\ t[3] = z
  OBVIOUS
<1>2. 1 .. 1 - 1 = {} /\ 1 .. 2 - 1 = {1} /\ 1 .. 3 - 1 = {1, 2} /\ {1, 2, 3} \subseteq 1 .. 4
  OBVIOUS
<1> HIDE DEF s, t
<1>3. CASE a < x
  BY <1>1, <1>2, <1>3 DEF Lexicographic, s, t
<1>4. CASE a = x /\ b < y
  BY <1>1, <1>2, <1>4 DEF Lexicographic, s, t
<1>5. CASE a = x /\ b = y /\ c < z
  BY <1>1, <1>2, <1>5 DEF Lexicographic, s, t
<1> QED
  BY <1>3, <1>4, <1>5

\* Where services lie in layers and the correlator tolerates rounding, with true clocks
\* a span sticks out of its parent by two milliseconds at most, and one that does not
\* comes before its parent in the row by end and after it in the row by start, whatever
\* stamps are equal.
THEOREM RowsAreCausal ==
  ASSUME NEW depth, ServicesLayered(depth), 2 <= SkewTolerance
  PROVE  Spec => []ViewsAreCausal
<1>1. RequestInv /\ TimesInv => ViewsAreCausal
  <2> SUFFICES ASSUME RequestInv, TimesInv, pc = "done", TrueClocks,
                      NEW s \in Spans, SpanParent(s) # NoSpan
               PROVE  /\ Inversion(s) <= 2
                      /\ Inversion(s) = 0 =>
                           RowBefore("end", s, SpanParent(s)) /\ RowBefore("start", SpanParent(s), s)
    BY DEF ViewsAreCausal
  <2>1. Inferred
    BY DEF Inferred, Evaluated
  <2> DEFINE p == SpanParent(s)
             ds == Depths[s]
             dp == Depths[p]
  <2>2. /\ p \in Spans /\ Inversion(s) <= 2
        /\ Inversion(s) = 0 => SpanStart(p) <= SpanStart(s) /\ SpanEnd(s) <= SpanEnd(p)
    BY <2>1, ParentCovers
  <2>3. ds \in Nat /\ dp \in Nat /\ ds = dp + 1
    BY <2>1, DepthBelowParent
  <2>4. /\ SpanStart(s) \in Int /\ SpanEnd(s) \in Int /\ SpanStart(p) \in Int /\ SpanEnd(p) \in Int
    BY <2>1, <2>2, SpansTyped
  <2>5. ASSUME Inversion(s) = 0 PROVE RowBefore("end", s, p)
    <3> HIDE DEF p, ds, dp
    <3>1. \/ SpanEnd(s) < SpanEnd(p)
          \/ (SpanEnd(s) = SpanEnd(p) /\ -SpanStart(s) < -SpanStart(p))
          \/ (SpanEnd(s) = SpanEnd(p) /\ -SpanStart(s) = -SpanStart(p) /\ -ds < -dp)
      BY <2>2, <2>3, <2>4, <2>5
    <3>2. Lexicographic(<<SpanEnd(s), -SpanStart(s), -ds, SpanId(s)>>, <<SpanEnd(p), -SpanStart(p), -dp, SpanId(p)>>)
      BY <3>1, FirstOfFour
    <3> QED
      BY <3>2 DEF RowBefore, ds, dp
  <2>6. ASSUME Inversion(s) = 0 PROVE RowBefore("start", p, s)
    <3> HIDE DEF p, ds, dp
    <3>1. \/ SpanStart(p) < SpanStart(s)
          \/ (SpanStart(p) = SpanStart(s) /\ -SpanEnd(p) < -SpanEnd(s))
          \/ (SpanStart(p) = SpanStart(s) /\ -SpanEnd(p) = -SpanEnd(s) /\ dp < ds)
      BY <2>2, <2>3, <2>4, <2>6
    <3>2. Lexicographic(<<SpanStart(p), -SpanEnd(p), dp, SpanId(p)>>, <<SpanStart(s), -SpanEnd(s), ds, SpanId(s)>>)
      BY <3>1, FirstOfFour
    <3> QED
      BY <3>2 DEF RowBefore, ds, dp
  <2> QED
    BY <2>2, <2>5, <2>6
<1> QED
  BY <1>1, TimesInvHolds, PTL

=============================================================================
