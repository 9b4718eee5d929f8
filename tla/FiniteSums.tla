----------------------------- MODULE FiniteSums -----------------------------
(***************************************************************************)
(* Facts about finite sets that the proofs of the components rest on:      *)
(* induction over the naturals and over the subsets of a finite set, and   *)
(* what MapThenSumSet computes.                                            *)
(*                                                                         *)
(* Induction is stated for a set of naturals, or of sets, in place of a    *)
(* predicate, and derived from the pigeonhole principle: no lemma takes an *)
(* operator as parameter.                                                  *)
(***************************************************************************)
EXTENDS Integers, FiniteSets, FiniteSetTheorems, TLAPS

----------------------------------------------------------------------------
(* Induction *)

\* A set of naturals that holds 0 and is closed under successor holds them all:
\* otherwise counting up from 0 maps its part below a missing n one to one into
\* that part without 0, which has fewer elements.
LEMMA NaturalsAreReached ==
  ASSUME NEW A, 0 \in A, \A n \in Nat : n \in A => n + 1 \in A
  PROVE  Nat \subseteq A
<1> SUFFICES ASSUME NEW n \in Nat, n \notin A PROVE FALSE
  OBVIOUS
<1> DEFINE B == A \cap (0..n)
           next == [k \in B |-> k + 1]
<1>1. IsFiniteSet(B)
  BY FS_Interval, FS_Subset, 0 \in Int, n \in Int, B \in SUBSET (0..n)
<1>2. IsFiniteSet(B \ {0}) /\ Cardinality(B \ {0}) < Cardinality(B)
  <2>1. 0 \in B
    OBVIOUS
  <2> HIDE DEF B
  <2>2. Cardinality(B) \in Nat
    BY <1>1, FS_CardinalityType
  <2>3. IsFiniteSet(B \ {0}) /\ Cardinality(B \ {0}) = Cardinality(B) - 1
    BY <1>1, <2>1, FS_RemoveElement
  <2>4. QED
    BY <2>2, <2>3
<1>3. next \in [B -> B \ {0}]
  OBVIOUS
<1>4. PICK j, k \in B : j # k /\ next[j] = next[k]
  <2> HIDE DEF B, next
  <2>1. QED
    BY <1>1, <1>2, <1>3, FS_PigeonHole
<1>5. QED
  BY <1>4

\* What holds of a set as soon as it holds of the set without any one of its
\* elements holds of every subset of a finite set.
LEMMA SubsetsAreReached ==
  ASSUME NEW S, IsFiniteSet(S), NEW Good,
         \A T \in SUBSET S : (\A x \in T : T \ {x} \in Good) => T \in Good
  PROVE  SUBSET S \subseteq Good
<1> DEFINE A == {n \in Nat : \A T \in SUBSET S : Cardinality(T) = n => T \in Good}
<1>1. 0 \in A
  BY FS_Subset, FS_EmptySet
<1>2. ASSUME NEW n \in Nat, n \in A PROVE n + 1 \in A
  <2> SUFFICES ASSUME NEW T \in SUBSET S, Cardinality(T) = n + 1, NEW x \in T
               PROVE  T \ {x} \in Good
    OBVIOUS
  <2>1. IsFiniteSet(T)
    BY FS_Subset
  <2>2. Cardinality(T \ {x}) = Cardinality(T) - 1
    BY <2>1, FS_RemoveElement
  <2>3. Cardinality(T \ {x}) = n
    BY <2>2
  <2>4. QED
    BY <1>2, <2>3
<1>3. Nat \subseteq A
  <2> HIDE DEF A
  <2>1. QED
    BY <1>1, <1>2, NaturalsAreReached
<1>4. QED
  BY <1>3, FS_Subset, FS_CardinalityType

\* A nonempty set of naturals has a least element.
LEMMA LeastIsReached ==
  ASSUME NEW S \in SUBSET Nat, S # {}
  PROVE  \E m \in S : \A n \in S : m <= n
<1> DEFINE Below == {n \in Nat : \A m \in S : n <= m}
<1>1. 0 \in Below
  OBVIOUS
<1>2. PICK n \in Nat : n \in Below /\ n + 1 \notin Below
  <2>1. PICK m : m \in S
    OBVIOUS
  <2>2. m + 1 \notin Below /\ m + 1 \in Nat
    BY <2>1
  <2> HIDE DEF Below
  <2>3. QED
    BY <1>1, <2>2, NaturalsAreReached
<1>3. n \in S
  BY <1>2
<1>4. QED
  BY <1>2, <1>3

\* A nonempty set of naturals below a bound has a greatest element.
LEMMA GreatestIsReached ==
  ASSUME NEW bound \in Nat, NEW S \in SUBSET (0..bound), S # {}
  PROVE  \E m \in S : \A n \in S : m >= n
<1> DEFINE Gaps == {bound - n : n \in S}
<1>1. Gaps \in SUBSET Nat /\ Gaps # {}
  <2>1. \A n \in 0..bound : bound - n \in Nat
    OBVIOUS
  <2>2. QED
    BY <2>1
<1>2. PICK gap \in Gaps : \A k \in Gaps : gap <= k
  <2> HIDE DEF Gaps
  <2>1. QED
    BY <1>1, LeastIsReached
<1>3. PICK m \in S : gap = bound - m
  BY <1>2
<1>4. \A n \in S : bound - m <= bound - n
  BY <1>2, <1>3
<1>5. QED
  BY <1>4

----------------------------------------------------------------------------
(* Sums *)

\* g gives every subset of S the sum of f over it, whichever element is taken out
\* first.
Adds(g, f, S) ==
  /\ g \in [SUBSET S -> Nat]
  /\ g[{}] = 0
  /\ \A T \in SUBSET S : \A x \in T : g[T] = f[x] + g[T \ {x}]

\* The element MapThenSumSet takes out of T.
Chosen(T) == CHOOSE x \in T : TRUE

\* g is the sum of f the way MapThenSumSet computes it.
Folds(g, f, S) ==
  g = [T \in SUBSET S |-> IF T = {} THEN 0 ELSE f[Chosen(T)] + g[T \ {Chosen(T)}]]

\* Every function has sums: with one more element x, add f[x] where x is in.
LEMMA SumsExist ==
  ASSUME NEW S, IsFiniteSet(S), NEW f \in [S -> Nat]
  PROVE  \E g : Adds(g, f, S)
<1> DEFINE Good == {T \in SUBSET S : \E g : Adds(g, f, T)}
<1>1. ASSUME NEW T \in SUBSET S, \A x \in T : T \ {x} \in Good PROVE T \in Good
  <2>1. CASE T = {}
    <3> DEFINE g == [U \in SUBSET T |-> 0]
    <3>1. Adds(g, f, T)
      BY <2>1 DEF Adds
    <3>2. QED
      BY <3>1
  <2>2. CASE T # {}
    <3>1. PICK x : x \in T
      BY <2>2
    <3>2. PICK h : Adds(h, f, T \ {x})
      BY <1>1, <3>1
    <3> DEFINE g == [U \in SUBSET T |-> IF x \in U THEN f[x] + h[U \ {x}] ELSE h[U]]
    <3>3. \A U \in SUBSET T : U \ {x} \in SUBSET (T \ {x}) /\ (x \notin U => U \ {x} = U)
      OBVIOUS
    <3>4. f[x] \in Nat /\ \A U \in SUBSET (T \ {x}) : h[U] \in Nat
      BY <3>1, <3>2 DEF Adds
    <3>5. g \in [SUBSET T -> Nat]
      BY <3>3, <3>4
    <3>6. g[{}] = 0
      BY <3>2 DEF Adds
    <3>7. ASSUME NEW U \in SUBSET T, NEW y \in U PROVE g[U] = f[y] + g[U \ {y}]
      <4>1. CASE y = x
        BY <4>1
      <4>2. CASE y # x /\ x \notin U
        BY <3>2, <3>3, <4>2 DEF Adds
      <4>3. CASE y # x /\ x \in U
        <5> DEFINE W == (U \ {x}) \ {y}
        <5>1. h[U \ {x}] = f[y] + h[W]
          BY <3>2, <4>3 DEF Adds
        <5>2. (U \ {y}) \ {x} = W /\ x \in U \ {y}
          BY <4>3
        <5>3. g[U] = f[x] + (f[y] + h[W])
          BY <4>3, <5>1
        <5>4. g[U \ {y}] = f[x] + h[W]
          BY <5>2
        <5>5. f[x] \in Nat /\ f[y] \in Nat /\ h[W] \in Nat
          BY <3>4
        <5> HIDE DEF g, W
        <5>6. QED
          BY <5>3, <5>4, <5>5
      <4>4. QED
        BY <4>1, <4>2, <4>3
    <3> HIDE DEF g
    <3>8. Adds(g, f, T)
      BY <3>5, <3>6, <3>7 DEF Adds
    <3>9. QED
      BY <3>8
  <2>3. QED
    BY <2>1, <2>2
<1>2. SUBSET S \subseteq Good
  <2> HIDE DEF Good
  <2>1. QED
    BY <1>1, SubsetsAreReached
<1>3. QED
  BY <1>2

\* The recursion of MapThenSumSet has a solution, and what solves it is the sum
\* whichever elements it chooses.
LEMMA FoldIsTheSum ==
  ASSUME NEW S, IsFiniteSet(S), NEW f \in [S -> Nat]
  PROVE  /\ \E g : Folds(g, f, S)
         /\ \A g : Folds(g, f, S) => Adds(g, f, S)
<1>1. PICK h : Adds(h, f, S)
  BY SumsExist
<1>2. \A T \in SUBSET S : T # {} => Chosen(T) \in T
  BY DEF Chosen
<1>3. Folds(h, f, S)
  BY <1>1, <1>2 DEF Adds, Folds
<1>4. ASSUME NEW g, Folds(g, f, S) PROVE g = h
  <2> DEFINE Good == {T \in SUBSET S : g[T] = h[T]}
  <2>1. ASSUME NEW T \in SUBSET S, \A x \in T : T \ {x} \in Good PROVE T \in Good
    BY <1>2, <1>3, <1>4, <2>1 DEF Folds
  <2>2. SUBSET S \subseteq Good
    <3> HIDE DEF Good
    <3>1. QED
      BY <2>1, SubsetsAreReached
  <2>3. QED
    BY <1>3, <1>4, <2>2 DEF Folds
<1>5. QED
  BY <1>1, <1>3, <1>4

\* Summands are not negative: part of a set has no greater sum than the set.
LEMMA SumIsMonotone ==
  ASSUME NEW S, IsFiniteSet(S), NEW f \in [S -> Nat], NEW g, Adds(g, f, S),
         NEW T \in SUBSET S, NEW U \in SUBSET T
  PROVE  g[U] <= g[T]
<1> DEFINE Good == {V \in SUBSET S : U \subseteq V => g[U] <= g[V]}
<1>1. ASSUME NEW V \in SUBSET S, \A x \in V : V \ {x} \in Good PROVE V \in Good
  <2> SUFFICES ASSUME U \subseteq V PROVE g[U] <= g[V]
    OBVIOUS
  <2>1. g[U] \in Nat /\ g[V] \in Nat
    BY DEF Adds
  <2>2. CASE U = V
    BY <2>1, <2>2
  <2>3. CASE U # V
    <3>1. PICK x \in V : x \notin U
      BY <2>3
    <3>2. g[U] <= g[V \ {x}]
      BY <1>1, <3>1
    <3>3. g[V] = f[x] + g[V \ {x}] /\ f[x] \in Nat /\ g[V \ {x}] \in Nat
      BY <3>1 DEF Adds
    <3>4. QED
      BY <2>1, <3>2, <3>3
  <2>4. QED
    BY <2>2, <2>3
<1>2. SUBSET S \subseteq Good
  <2> HIDE DEF Good
  <2>1. QED
    BY <1>1, SubsetsAreReached
<1>3. QED
  BY <1>2

\* The sum over U depends on the summands in U only.
LEMMA SumsAgree ==
  ASSUME NEW S, IsFiniteSet(S), NEW f, NEW g, Adds(g, f, S),
         NEW T, NEW e, NEW h, Adds(h, e, T),
         NEW U \in SUBSET S, U \subseteq T, \A x \in U : f[x] = e[x]
  PROVE  g[U] = h[U]
<1> DEFINE Good == {V \in SUBSET U : g[V] = h[V]}
<1>1. ASSUME NEW V \in SUBSET U, \A x \in V : V \ {x} \in Good PROVE V \in Good
  <2>1. CASE V = {}
    BY <2>1 DEF Adds
  <2>2. CASE V # {}
    <3>1. PICK x : x \in V
      BY <2>2
    <3>2. g[V \ {x}] = h[V \ {x}] /\ f[x] = e[x]
      BY <1>1, <3>1
    <3>3. g[V] = f[x] + g[V \ {x}] /\ h[V] = e[x] + h[V \ {x}]
      BY <3>1 DEF Adds
    <3>4. QED
      BY <3>2, <3>3
  <2>3. QED
    BY <2>1, <2>2
<1>2. IsFiniteSet(U)
  BY FS_Subset
<1>3. SUBSET U \subseteq Good
  <2> HIDE DEF Good
  <2>1. QED
    BY <1>1, <1>2, SubsetsAreReached
<1>4. QED
  BY <1>3

\* The sum over two disjoint sets is the sum of their sums.
LEMMA SumOfDisjoint ==
  ASSUME NEW S, IsFiniteSet(S), NEW f \in [S -> Nat], NEW g, Adds(g, f, S),
         NEW T \in SUBSET S, NEW U \in SUBSET S, T \cap U = {}
  PROVE  g[T \cup U] = g[T] + g[U]
<1> DEFINE Good == {V \in SUBSET U : g[T \cup V] = g[T] + g[V]}
<1>1. ASSUME NEW V \in SUBSET U, \A x \in V : V \ {x} \in Good PROVE V \in Good
  <2>1. CASE V = {}
    <3>1. T \cup V = T /\ g[V] = 0 /\ g[T] \in Nat
      BY <2>1 DEF Adds
    <3>2. QED
      BY <3>1
  <2>2. CASE V # {}
    <3>1. PICK x : x \in V
      BY <2>2
    <3> DEFINE W == V \ {x}
    <3>2. g[T \cup W] = g[T] + g[W]
      BY <1>1, <3>1
    <3>3. T \cup V \in SUBSET S /\ x \in T \cup V /\ (T \cup V) \ {x} = T \cup W
      BY <3>1
    <3>4. g[T \cup V] = f[x] + g[T \cup W]
      BY <3>3 DEF Adds
    <3>5. g[V] = f[x] + g[W]
      BY <3>1 DEF Adds
    <3>6. f[x] \in Nat /\ g[T] \in Nat /\ g[W] \in Nat
      BY <3>1 DEF Adds
    <3> HIDE DEF W
    <3>7. QED
      BY <3>2, <3>4, <3>5, <3>6
  <2>3. QED
    BY <2>1, <2>2
<1>2. IsFiniteSet(U)
  BY FS_Subset
<1>3. SUBSET U \subseteq Good
  <2> HIDE DEF Good
  <2>1. QED
    BY <1>1, <1>2, SubsetsAreReached
<1>4. QED
  BY <1>3
=============================================================================
