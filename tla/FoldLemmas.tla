----------------------------- MODULE FoldLemmas ------------------------------
(***************************************************************************)
(* What the folds of the community modules compute, for the sums and the   *)
(* selections the models are built from.  A fold is a recursive function   *)
(* on the subsets of a finite set, so all of this is by induction on their *)
(* size: whatever fails somewhere fails at a least size, and there it does *)
(* not.                                                                    *)
(***************************************************************************)
EXTENDS SequencesExt, FiniteSetTheorems, WellFoundedInduction, TLAPS

\* Every set of natural numbers but the empty one has a least element.
LEMMA Least ==
    ASSUME NEW T \in SUBSET Nat, T # {}
    PROVE  \E n \in T : \A m \in T : n <= m
<1> DEFINE R == {p \in Nat \X Nat : p[1] < p[2]}
<1>1. IsWellFoundedOn(R, Nat)
  <2>1. R = OpToRel(<, Nat)
    BY DEF OpToRel
  <2> HIDE DEF R
  <2> QED
    BY <2>1, NatLessThanWellFounded DEF OpToRel
<1>2. PICK n \in T : \A m \in T : <<m, n>> \notin R
  BY <1>1, WFMin
<1>3. \A m \in T : ~(m < n)
  BY <1>2
<1> QED
  BY <1>3

\* A set of numbers that holds 0 and the successor of each it holds is Nat.
LEMMA Induction ==
    ASSUME NEW T, 0 \in T, \A n \in Nat : n \in T => n + 1 \in T
    PROVE  Nat \subseteq T
<1> SUFFICES ASSUME Nat \ T # {} PROVE FALSE
  OBVIOUS
<1>1. PICK n \in Nat \ T : \A m \in Nat \ T : n <= m
  BY Least
<1>2. n - 1 \in Nat /\ n - 1 \in T
  BY <1>1
<1> QED
  BY <1>1, <1>2

\* A set of numbers that are at most n has a greatest one.
LEMMA Greatest ==
    ASSUME NEW n \in Nat, NEW s \in SUBSET (1..n), s # {}
    PROVE  Max(s) \in s /\ \A i \in s : i <= Max(s)
<1> DEFINE T == {m \in Nat : \A i \in s : i <= m}
<1>1. n \in T
  OBVIOUS
<1>2. PICK m \in T : \A k \in T : m <= k
  <2>1. T \in SUBSET Nat /\ T # {}
    BY <1>1
  <2> HIDE DEF T
  <2> QED
    BY <2>1, Least
<1>3. m \in s
  <2> SUFFICES ASSUME m \notin s PROVE FALSE
    OBVIOUS
  <2>1. \A i \in s : i <= m - 1
    BY <1>2
  <2>2. PICK i \in s : TRUE
    OBVIOUS
  <2>3. m >= 1
    <3>1. i \in 1..n /\ i <= m /\ m \in Nat
      BY <1>2
    <3> QED
      BY <3>1
  <2>4. m - 1 \in T
    BY <2>1, <2>3
  <2> QED
    BY <1>2, <2>4
<1>4. \E x \in s : \A y \in s : x >= y
  BY <1>2, <1>3
<1> QED
  BY <1>4 DEF Max

\* Of the first numbers, the last is the greatest; without it, the others
\* are left.
LEMMA LastOfPrefix ==
    ASSUME NEW n \in Nat
    PROVE  Max(1..(n + 1)) = n + 1 /\ (1..(n + 1)) \ {n + 1} = 1..n
<1>2. n + 1 \in Nat /\ n + 1 \in 1..(n + 1)
  OBVIOUS
<1>1. Max(1..(n + 1)) \in 1..(n + 1) /\ \A i \in 1..(n + 1) : i <= Max(1..(n + 1))
  BY <1>2, Greatest
<1> DEFINE m == Max(1..(n + 1))
<1>3. m \in Nat /\ m <= n + 1 /\ n + 1 <= m
  BY <1>1, <1>2
<1> HIDE DEF m
<1>4. m = n + 1
  BY <1>3
<1>5. (1..(n + 1)) \ {n + 1} = 1..n
  OBVIOUS
<1> QED
  BY <1>4, <1>5 DEF m

-----------------------------------------------------------------------------
(* Folds are well defined.                                                 *)

\* What a fold of op over the subsets of S has to satisfy, with the element
\* c[s] of s taken last.
IsFold(g, S, base, op, c) ==
    \A s \in SUBSET S :
        g[s] = IF s = {} THEN base ELSE op[<<c[s], g[s \ {c[s]}]>>]

\* ... for the subsets of up to n elements.
IsFoldUpTo(g, S, base, op, c, n) ==
    \A s \in SUBSET S : Cardinality(s) <= n =>
        g[s] = IF s = {} THEN base ELSE op[<<c[s], g[s \ {c[s]}]>>]

LEMMA FoldExists ==
    ASSUME NEW S, IsFiniteSet(S), NEW V, NEW base \in V,
           NEW c, \A s \in SUBSET S : s # {} => c[s] \in s,
           NEW op \in [S \X V -> V]
    PROVE  \E g \in [SUBSET S -> V] : IsFold(g, S, base, op, c)
<1> DEFINE T == {n \in Nat : \E g \in [SUBSET S -> V] :
                               IsFoldUpTo(g, S, base, op, c, n)}
<1>1. \A s \in SUBSET S : IsFiniteSet(s) /\ Cardinality(s) \in Nat
                          /\ Cardinality(s) <= Cardinality(S)
  BY FS_Subset, FS_CardinalityType
<1>2. \A s \in SUBSET S : s # {} =>
        /\ s \ {c[s]} \in SUBSET S
        /\ Cardinality(s \ {c[s]}) = Cardinality(s) - 1
  BY <1>1, FS_RemoveElement
<1>3. \A s \in SUBSET S : Cardinality(s) = 0 <=> s = {}
  BY <1>1, FS_EmptySet
<1>4. 0 \in T
  <2> DEFINE g == [s \in SUBSET S |-> base]
  <2>1. IsFoldUpTo(g, S, base, op, c, 0)
    BY <1>1, <1>3 DEF IsFoldUpTo
  <2> QED
    BY <2>1
<1>5. ASSUME NEW n \in Nat, n \in T PROVE n + 1 \in T
  <2>1. PICK g \in [SUBSET S -> V] : IsFoldUpTo(g, S, base, op, c, n)
    BY <1>5
  <2> DEFINE h == [s \in SUBSET S |->
                     IF s = {} THEN base ELSE op[<<c[s], g[s \ {c[s]}]>>]]
  <2>2. h \in [SUBSET S -> V]
    <3>1. \A s \in SUBSET S : s # {} => c[s] \in S /\ g[s \ {c[s]}] \in V
      BY <1>2
    <3> QED
      BY <3>1
  <2>3. \A s \in SUBSET S : Cardinality(s) <= n => h[s] = g[s]
    BY <2>1 DEF IsFoldUpTo
  <2>4. IsFoldUpTo(h, S, base, op, c, n + 1)
    <3> SUFFICES ASSUME NEW s \in SUBSET S, Cardinality(s) <= n + 1, s # {}
                 PROVE  h[s] = op[<<c[s], h[s \ {c[s]}]>>]
      BY DEF IsFoldUpTo
    <3>1. h[s] = op[<<c[s], g[s \ {c[s]}]>>]
      OBVIOUS
    <3>2. h[s \ {c[s]}] = g[s \ {c[s]}]
      <4>1. s \ {c[s]} \in SUBSET S /\ Cardinality(s \ {c[s]}) <= n
        BY <1>1, <1>2
      <4> HIDE DEF h
      <4> QED
        BY <4>1, <2>3
    <3> HIDE DEF h
    <3> QED
      BY <3>1, <3>2
  <2> HIDE DEF h
  <2> QED
    BY <2>2, <2>4
<1>6. Cardinality(S) \in T
  <2> HIDE DEF T
  <2> QED
    BY <1>4, <1>5, Induction, FS_CardinalityType
<1>7. PICK g \in [SUBSET S -> V] : IsFoldUpTo(g, S, base, op, c, Cardinality(S))
  BY <1>6
<1> QED
  BY <1>1, <1>7 DEF IsFold, IsFoldUpTo

\* There is one fold: its value at a set depends on that set alone.
LEMMA FoldUnique ==
    ASSUME NEW S, IsFiniteSet(S), NEW R \in SUBSET S, NEW base,
           NEW c, \A s \in SUBSET S : s # {} => c[s] \in s,
           NEW op, NEW g, IsFold(g, S, base, op, c),
           NEW h, IsFold(h, R, base, op, c)
    PROVE  g[R] = h[R]
<1> DEFINE T == {n \in Nat : \A s \in SUBSET R : Cardinality(s) = n => g[s] = h[s]}
<1>1. \A s \in SUBSET R : IsFiniteSet(s) /\ Cardinality(s) \in Nat
  BY FS_Subset, FS_CardinalityType
<1>2. \A s \in SUBSET R : s # {} =>
        /\ s \ {c[s]} \in SUBSET R
        /\ Cardinality(s \ {c[s]}) = Cardinality(s) - 1
  BY <1>1, FS_RemoveElement
<1>3. 0 \in T
  BY <1>1, FS_EmptySet DEF IsFold
<1>4. ASSUME NEW n \in Nat, n \in T PROVE n + 1 \in T
  <2> SUFFICES ASSUME NEW s \in SUBSET R, Cardinality(s) = n + 1
               PROVE  g[s] = h[s]
    BY <1>4
  <2>1. s # {}
    <3>1. Cardinality({}) = 0
      BY FS_EmptySet
    <3> QED
      BY <3>1
  <2>2. g[s \ {c[s]}] = h[s \ {c[s]}]
    BY <1>1, <1>2, <1>4, <2>1
  <2> QED
    BY <2>1, <2>2 DEF IsFold
<1>5. Cardinality(R) \in T
  <2> HIDE DEF T
  <2> QED
    BY <1>1, <1>3, <1>4, Induction
<1> QED
  BY <1>5

-----------------------------------------------------------------------------
(* Sums.                                                                   *)

\* The sum of f over S, as MapThenSumSet takes it.
SumOf(f, S) == MapThenSumSet(LAMBDA x : f[x], S)

Pick(s) == CHOOSE x \in s : TRUE
IsSum(g, f, S) ==
    \A s \in SUBSET S :
        g[s] = IF s = {} THEN 0 ELSE f[Pick(s)] + g[s \ {Pick(s)}]

LEMMA SumIsFold ==
    ASSUME NEW S, IsFiniteSet(S), NEW f, \A x \in S : f[x] \in Nat
    PROVE  \E g \in [SUBSET S -> Nat] : IsSum(g, f, S) /\ SumOf(f, S) = g[S]
<1> DEFINE c == [s \in SUBSET S |-> Pick(s)]
           Is(g) == g = [s \in SUBSET S |-> IF s = {} THEN 0 ELSE
                           f[CHOOSE x \in s : TRUE] + g[s \ {CHOOSE x \in s : TRUE}]]
           h == CHOOSE g : Is(g)
           V == Nat \cup {h[s] : s \in SUBSET S}
           op == [p \in S \X V |-> f[p[1]] + p[2]]
           plus == [p \in S \X Nat |-> f[p[1]] + p[2]]
<1>1. \A s \in SUBSET S : s # {} => c[s] \in s
  BY DEF Pick
<1>2. plus \in [S \X Nat -> Nat]
  OBVIOUS
<1> HIDE DEF c, plus
<1>3. PICK g \in [SUBSET S -> Nat] : IsFold(g, S, 0, plus, c)
  BY <1>1, <1>2, FoldExists
<1>4. \A s \in SUBSET S : s # {} =>
        g[s] = f[c[s]] + g[s \ {c[s]}]
  BY <1>1, <1>3 DEF plus, IsFold
<1>5. g[{}] = 0
  BY <1>3 DEF IsFold
<1>6. Is(g)
  BY <1>4, <1>5 DEF c, Pick
<1>7. Is(h)
  BY <1>6
<1> HIDE DEF h, op, V
<1>8. ASSUME NEW i, Is(i), \A s \in SUBSET S : i[s] \in V
      PROVE  IsFold(i, S, 0, op, c)
  <2>1. \A s \in SUBSET S : s # {} => op[<<c[s], i[s \ {c[s]}]>>] = f[c[s]] + i[s \ {c[s]}]
    BY <1>1, <1>8 DEF op
  <2>2. \A s \in SUBSET S : i[s] = IF s = {} THEN 0 ELSE f[c[s]] + i[s \ {c[s]}]
    BY <1>8 DEF c, Pick
  <2> HIDE DEF Is
  <2> QED
    BY <2>1, <2>2 DEF IsFold
<1>9. IsFold(g, S, 0, op, c)
  BY <1>6, <1>8 DEF V
<1>10. IsFold(h, S, 0, op, c)
  BY <1>7, <1>8 DEF V
<1>11. g[S] = h[S]
  BY <1>1, <1>9, <1>10, FoldUnique
<1>12. SumOf(f, S) = h[S]
  BY DEF SumOf, MapThenSumSet, MapThenFoldSet, h
<1>13. IsSum(g, f, S)
  BY <1>4, <1>5 DEF IsSum, c
<1> QED
  BY <1>11, <1>12, <1>13

\* It starts with one of the elements, whichever CHOOSE takes ...
LEMMA SumFirst ==
    ASSUME NEW S, IsFiniteSet(S), NEW f, \A x \in S : f[x] \in Nat
    PROVE  /\ SumOf(f, S) \in Nat
           /\ S = {} => SumOf(f, S) = 0
           /\ S # {} => \E x \in S : SumOf(f, S) = f[x] + SumOf(f, S \ {x})
<1>1. PICK g \in [SUBSET S -> Nat] : IsSum(g, f, S) /\ SumOf(f, S) = g[S]
  BY SumIsFold
<1>2. ASSUME S # {}
      PROVE  \E x \in S : SumOf(f, S) = f[x] + SumOf(f, S \ {x})
  <2> DEFINE y == Pick(S)
             R == S \ {y}
  <2>1. y \in S
    BY <1>2 DEF Pick
  <2>2. g[S] = f[y] + g[R]
    BY <1>1, <1>2 DEF IsSum
  <2>3. IsFiniteSet(R) /\ R \in SUBSET S
    BY FS_Subset
  <2> HIDE DEF y, R
  <2>4. PICK h \in [SUBSET R -> Nat] : IsSum(h, f, R) /\ SumOf(f, R) = h[R]
    BY <2>3, SumIsFold
  <2> DEFINE c == [s \in SUBSET S |-> Pick(s)]
             plus == [p \in S \X Nat |-> f[p[1]] + p[2]]
  <2>5. \A s \in SUBSET S : s # {} => c[s] \in s /\ c[s] \in S
    BY DEF Pick
  <2>6. \A x \in S, n \in Nat : plus[<<x, n>>] = f[x] + n
    OBVIOUS
  <2>7. \A s \in SUBSET S : c[s] = Pick(s)
    OBVIOUS
  <2> HIDE DEF c, plus
  <2>8. IsFold(g, S, 0, plus, c)
    <3> SUFFICES ASSUME NEW s \in SUBSET S
                 PROVE  g[s] = IF s = {} THEN 0 ELSE plus[<<c[s], g[s \ {c[s]}]>>]
      BY DEF IsFold
    <3>1. g[s \ {c[s]}] \in Nat
      OBVIOUS
    <3> QED
      BY <1>1, <2>5, <2>6, <2>7, <3>1 DEF IsSum
  <2>9. IsFold(h, R, 0, plus, c)
    <3> SUFFICES ASSUME NEW s \in SUBSET R
                 PROVE  h[s] = IF s = {} THEN 0 ELSE plus[<<c[s], h[s \ {c[s]}]>>]
      BY DEF IsFold
    <3>1. h[s \ {c[s]}] \in Nat /\ s \in SUBSET S
      BY <2>3
    <3> QED
      BY <2>4, <2>5, <2>6, <2>7, <3>1 DEF IsSum
  <2>10. g[R] = h[R]
    BY <2>3, <2>5, <2>8, <2>9, FoldUnique
  <2>11. SumOf(f, S) = f[y] + SumOf(f, R)
    BY <1>1, <2>2, <2>4, <2>10
  <2> QED
    BY <2>1, <2>11 DEF R
<1>3. S = {} => g[S] = 0
  BY <1>1 DEF IsSum
<1>4. S \in SUBSET S
  OBVIOUS
<1>5. g[S] \in Nat
  BY <1>4
<1>6. SumOf(f, S) \in Nat
  BY <1>1, <1>5
<1>7. S # {} => \E x \in S : SumOf(f, S) = f[x] + SumOf(f, S \ {x})
  BY <1>2
<1> QED
  BY <1>1, <1>3, <1>6, <1>7

\* ... and so with any of them: addition is commutative.
LEMMA SumTake ==
    ASSUME NEW S, IsFiniteSet(S), NEW f, \A x \in S : f[x] \in Nat, NEW x \in S
    PROVE  SumOf(f, S) = f[x] + SumOf(f, S \ {x})
<1> DEFINE T == {n \in Nat : \A s \in SUBSET S : \A y \in s : Cardinality(s) = n =>
                   SumOf(f, s) = f[y] + SumOf(f, s \ {y})}
<1>1. \A s \in SUBSET S : IsFiniteSet(s) /\ Cardinality(s) \in Nat
  BY FS_Subset, FS_CardinalityType
<1>2. 0 \in T
  BY <1>1, FS_EmptySet
<1>3. ASSUME NEW n \in Nat, n \in T PROVE n + 1 \in T
  <2> SUFFICES ASSUME NEW s \in SUBSET S, NEW y \in s, Cardinality(s) = n + 1
               PROVE  SumOf(f, s) = f[y] + SumOf(f, s \ {y})
    OBVIOUS
  <2>1. PICK z \in s : SumOf(f, s) = f[z] + SumOf(f, s \ {z})
    BY <1>1, SumFirst
  <2>2. CASE z # y
    <3>1. Cardinality(s \ {z}) = n /\ Cardinality(s \ {y}) = n
      BY <1>1, FS_RemoveElement
    <3>2. SumOf(f, s \ {z}) = f[y] + SumOf(f, (s \ {z}) \ {y})
      BY <1>3, <2>2, <3>1
    <3>3. SumOf(f, s \ {y}) = f[z] + SumOf(f, (s \ {y}) \ {z})
      BY <1>3, <2>2, <3>1
    <3>4. (s \ {z}) \ {y} = (s \ {y}) \ {z}
      OBVIOUS
    <3>5. SumOf(f, (s \ {y}) \ {z}) \in Nat
      BY <1>1, SumFirst
    <3>6. f[y] \in Nat /\ f[z] \in Nat
      OBVIOUS
    <3> QED
      BY <2>1, <3>2, <3>3, <3>4, <3>5, <3>6
  <2> QED
    BY <2>1, <2>2
<1>4. Cardinality(S) \in T
  <2> HIDE DEF T
  <2> QED
    BY <1>1, <1>2, <1>3, Induction
<1> QED
  BY <1>4

\* Where f is at least g everywhere, so is its sum; and adding elements does
\* not make it less.
LEMMA SumMonotone ==
    ASSUME NEW S, IsFiniteSet(S), NEW R \in SUBSET S,
           NEW f, \A x \in S : f[x] \in Nat,
           NEW g, \A x \in R : g[x] \in Nat /\ g[x] <= f[x]
    PROVE  SumOf(g, R) <= SumOf(f, S)
<1> DEFINE T == {n \in Nat : \A s \in SUBSET S : Cardinality(s) = n =>
                   SumOf(g, s \cap R) <= SumOf(f, s)}
<1>1. \A s \in SUBSET S : IsFiniteSet(s) /\ Cardinality(s) \in Nat
  BY FS_Subset, FS_CardinalityType
<1>2. 0 \in T
  <2> SUFFICES ASSUME NEW s \in SUBSET S, Cardinality(s) = 0
               PROVE  SumOf(g, s \cap R) <= SumOf(f, s)
    OBVIOUS
  <2>1. s = {} /\ s \cap R = {}
    BY <1>1, FS_EmptySet
  <2>2. SumOf(f, {}) = 0 /\ SumOf(g, {}) = 0
    BY FS_EmptySet, SumFirst
  <2> QED
    BY <2>1, <2>2
<1>3. ASSUME NEW n \in Nat, n \in T PROVE n + 1 \in T
  <2> SUFFICES ASSUME NEW s \in SUBSET S, Cardinality(s) = n + 1
               PROVE  SumOf(g, s \cap R) <= SumOf(f, s)
    OBVIOUS
  <2>1. PICK z \in s : SumOf(f, s) = f[z] + SumOf(f, s \ {z})
    BY <1>1, SumFirst, FS_EmptySet
  <2>2. Cardinality(s \ {z}) = n
    <3>1. IsFiniteSet(s) /\ z \in s /\ Cardinality(s) = n + 1
      BY <1>1
    <3>2. Cardinality(s \ {z}) = Cardinality(s) - 1
      BY <3>1, FS_RemoveElement
    <3> QED
      BY <3>1, <3>2
  <2>3. SumOf(g, (s \ {z}) \cap R) <= SumOf(f, s \ {z})
    BY <1>3, <2>2
  <2>4. SumOf(f, s \ {z}) \in Nat /\ f[z] \in Nat
    BY <1>1, SumFirst
  <2> DEFINE A == (s \ {z}) \cap R
             B == s \cap R
  <2>5. SumOf(g, A) \in Nat
    BY <1>1, SumFirst
  <2>6. CASE z \in R
    <3>1. SumOf(g, B) = g[z] + SumOf(g, B \ {z})
      BY <1>1, <2>6, SumTake
    <3>2. B \ {z} = A
      OBVIOUS
    <3>3. g[z] \in Nat /\ g[z] <= f[z]
      BY <2>6
    <3>4. SumOf(g, A) <= SumOf(f, s \ {z})
      BY <2>3
    <3> HIDE DEF A, B
    <3>5. SumOf(g, B) = g[z] + SumOf(g, A)
      BY <3>1, <3>2
    <3>6. g[z] + SumOf(g, A) <= f[z] + SumOf(f, s \ {z})
      BY <2>4, <2>5, <3>3, <3>4
    <3>7. SumOf(g, B) <= SumOf(f, s)
      BY <2>1, <3>5, <3>6
    <3> QED
      BY <3>7 DEF B
  <2>7. CASE z \notin R
    <3>1. B = A
      BY <2>7
    <3>2. SumOf(g, A) <= SumOf(f, s \ {z})
      BY <2>3
    <3> HIDE DEF A, B
    <3>3. SumOf(g, B) <= SumOf(f, s)
      BY <2>1, <2>4, <2>5, <3>1, <3>2
    <3> QED
      BY <3>3 DEF B
  <2> QED
    BY <2>6, <2>7
<1>4. Cardinality(S) \in T
  <2> HIDE DEF T
  <2> QED
    BY <1>1, <1>2, <1>3, Induction
<1>5. S \cap R = R
  OBVIOUS
<1> QED
  BY <1>4, <1>5

\* A sum is that of the summands that are not 0.
LEMMA SumRelevant ==
    ASSUME NEW S, IsFiniteSet(S), NEW R \in SUBSET S,
           NEW f, \A x \in S : f[x] \in Nat, \A x \in S \ R : f[x] = 0,
           NEW g, \A x \in R : g[x] = f[x]
    PROVE  SumOf(f, S) = SumOf(g, R)
<1> DEFINE T == {n \in Nat : \A s \in SUBSET S : Cardinality(s) = n =>
                   SumOf(f, s) = SumOf(g, s \cap R)}
<1>1. \A s \in SUBSET S : IsFiniteSet(s) /\ Cardinality(s) \in Nat
  BY FS_Subset, FS_CardinalityType
<1>2. 0 \in T
  <2> SUFFICES ASSUME NEW s \in SUBSET S, Cardinality(s) = 0
               PROVE  SumOf(f, s) = SumOf(g, s \cap R)
    OBVIOUS
  <2>1. s = {} /\ s \cap R = {}
    BY <1>1, FS_EmptySet
  <2>2. SumOf(f, {}) = 0 /\ SumOf(g, {}) = 0
    BY FS_EmptySet, SumFirst
  <2> QED
    BY <2>1, <2>2
<1>3. ASSUME NEW n \in Nat, n \in T PROVE n + 1 \in T
  <2> SUFFICES ASSUME NEW s \in SUBSET S, Cardinality(s) = n + 1
               PROVE  SumOf(f, s) = SumOf(g, s \cap R)
    OBVIOUS
  <2>1. PICK z \in s : SumOf(f, s) = f[z] + SumOf(f, s \ {z})
    BY <1>1, SumFirst, FS_EmptySet
  <2>2. Cardinality(s \ {z}) = n
    BY <1>1, FS_RemoveElement
  <2>3. SumOf(f, s \ {z}) = SumOf(g, (s \ {z}) \cap R)
    BY <1>3, <2>2
  <2> DEFINE A == (s \ {z}) \cap R
             B == s \cap R
  <2>4. IsFiniteSet(B) /\ SumOf(g, A) \in Nat /\ \A x \in B : g[x] \in Nat
    BY <1>1, SumFirst
  <2>5. CASE z \in R
    <3>1. SumOf(g, B) = g[z] + SumOf(g, B \ {z})
      BY <2>4, <2>5, SumTake
    <3>2. B \ {z} = A /\ g[z] = f[z]
      BY <2>5
    <3>3. SumOf(f, s) = f[z] + SumOf(g, A)
      BY <2>1, <2>3
    <3> HIDE DEF A, B
    <3>4. SumOf(f, s) = SumOf(g, B)
      BY <3>1, <3>2, <3>3
    <3> QED
      BY <3>4 DEF B
  <2>6. CASE z \notin R
    <3>1. B = A /\ f[z] = 0
      BY <2>6
    <3>2. SumOf(f, s) = f[z] + SumOf(g, A)
      BY <2>1, <2>3
    <3> HIDE DEF A, B
    <3>3. SumOf(f, s) = SumOf(g, B)
      BY <2>4, <3>1, <3>2
    <3> QED
      BY <3>3 DEF B
  <2> QED
    BY <2>5, <2>6
<1>4. Cardinality(S) \in T
  <2> HIDE DEF T
  <2> QED
    BY <1>1, <1>2, <1>3, Induction
<1>5. S \cap R = R
  OBVIOUS
<1> QED
  BY <1>4, <1>5

LEMMA SumOfZeros ==
    ASSUME NEW S, IsFiniteSet(S), NEW f, \A x \in S : f[x] = 0
    PROVE  SumOf(f, S) = 0
<1> DEFINE R == {}
<1>1. R \in SUBSET S /\ R = {} /\ IsFiniteSet(R)
  BY FS_EmptySet
<1>2. PICK g : g = f
  OBVIOUS
<1> HIDE DEF R
<1>3. /\ \A x \in R : g[x] \in Nat /\ g[x] = f[x]
      /\ \A x \in S : f[x] \in Nat
      /\ \A x \in S \ R : f[x] = 0
  BY <1>1
<1>4. SumOf(g, R) = 0
  BY <1>1, <1>3, SumFirst
<1>5. SumOf(f, S) = SumOf(g, R)
  BY <1>1, <1>3, SumRelevant
<1> QED
  BY <1>4, <1>5

\* One more at one place is one more in all.
LEMMA SumRaised ==
    ASSUME NEW S, IsFiniteSet(S), NEW f, \A y \in S : f[y] \in Nat, NEW x \in S,
           NEW g, g[x] = f[x] + 1, \A y \in S \ {x} : g[y] = f[y]
    PROVE  SumOf(g, S) = SumOf(f, S) + 1
<1> DEFINE R == S \ {x}
<1>1. IsFiniteSet(R) /\ R \in SUBSET S
  BY FS_Subset
<1>2. f[x] \in Nat /\ \A y \in S : g[y] \in Nat
  OBVIOUS
<1>3. SumOf(f, S) = f[x] + SumOf(f, R) /\ SumOf(g, S) = g[x] + SumOf(g, R)
  BY <1>2, SumTake
<1> HIDE DEF R
<1>4. \A y \in R : f[y] \in Nat /\ g[y] = f[y]
  BY <1>1 DEF R
<1>5. SumOf(f, R) \in Nat
  BY <1>1, <1>4, SumFirst
<1>6. SumOf(g, R) = SumOf(f, R)
  BY <1>1, <1>4, SumRelevant
<1> QED
  BY <1>2, <1>3, <1>5, <1>6

-----------------------------------------------------------------------------
(* Products.                                                               *)

IsProduct(g, S) ==
    \A s \in SUBSET S : g[s] = IF s = {} THEN 1 ELSE Pick(s) * g[s \ {Pick(s)}]

LEMMA ProductIsFold ==
    ASSUME NEW S, IsFiniteSet(S), S \subseteq Nat
    PROVE  \E g \in [SUBSET S -> Nat] : IsProduct(g, S) /\ ProductSet(S) = g[S]
<1> DEFINE c == [s \in SUBSET S |-> Pick(s)]
           Is(g) == g = [s \in SUBSET S |-> IF s = {} THEN 1 ELSE
                           (CHOOSE x \in s : TRUE) * g[s \ {CHOOSE x \in s : TRUE}]]
           h == CHOOSE g : Is(g)
           V == Nat \cup {h[s] : s \in SUBSET S}
           op == [p \in S \X V |-> p[1] * p[2]]
           times == [p \in S \X Nat |-> p[1] * p[2]]
<1>1. \A s \in SUBSET S : s # {} => c[s] \in s
  BY DEF Pick
<1>2. times \in [S \X Nat -> Nat]
  <2>1. \A m, n \in Nat : m * n \in Nat
    OBVIOUS
  <2>2. \A p \in S \X Nat : p[1] \in Nat /\ p[2] \in Nat
    OBVIOUS
  <2> QED
    BY <2>1, <2>2
<1> HIDE DEF c, times
<1>3. PICK g \in [SUBSET S -> Nat] : IsFold(g, S, 1, times, c)
  BY <1>1, <1>2, FoldExists
<1>4. \A s \in SUBSET S : s # {} => g[s] = c[s] * g[s \ {c[s]}]
  BY <1>1, <1>3 DEF times, IsFold
<1>5. g[{}] = 1
  BY <1>3 DEF IsFold
<1>6. Is(g)
  BY <1>4, <1>5 DEF c, Pick
<1>7. Is(h)
  BY <1>6
<1> HIDE DEF h, op, V
<1>8. ASSUME NEW i, Is(i), \A s \in SUBSET S : i[s] \in V
      PROVE  IsFold(i, S, 1, op, c)
  <2>1. \A s \in SUBSET S : s # {} => op[<<c[s], i[s \ {c[s]}]>>] = c[s] * i[s \ {c[s]}]
    BY <1>1, <1>8 DEF op
  <2>2. \A s \in SUBSET S : i[s] = IF s = {} THEN 1 ELSE c[s] * i[s \ {c[s]}]
    BY <1>8 DEF c, Pick
  <2> HIDE DEF Is
  <2> QED
    BY <2>1, <2>2 DEF IsFold
<1>9. IsFold(g, S, 1, op, c)
  BY <1>6, <1>8 DEF V
<1>10. IsFold(h, S, 1, op, c)
  BY <1>7, <1>8 DEF V
<1>11. g[S] = h[S]
  BY <1>1, <1>9, <1>10, FoldUnique
<1>12. ProductSet(S) = h[S]
  BY DEF ProductSet, FoldSet, MapThenFoldSet, h
<1>13. IsProduct(g, S)
  BY <1>4, <1>5 DEF IsProduct, c
<1> QED
  BY <1>11, <1>12, <1>13

\* The product of positive numbers is positive, and each divides it.
LEMMA ProductDivides ==
    ASSUME NEW S, IsFiniteSet(S), S \subseteq Nat \ {0}
    PROVE  /\ ProductSet(S) \in Nat \ {0}
           /\ \A x \in S : \E q \in Nat : ProductSet(S) = x * q
<1>1. PICK g \in [SUBSET S -> Nat] : IsProduct(g, S) /\ ProductSet(S) = g[S]
  BY ProductIsFold
<1> DEFINE Divided(s) == g[s] # 0 /\ \A x \in s : \E q \in Nat : g[s] = x * q
           T == {n \in Nat : \A s \in SUBSET S : Cardinality(s) = n => Divided(s)}
<1>2. \A s \in SUBSET S : IsFiniteSet(s) /\ Cardinality(s) \in Nat
  BY FS_Subset, FS_CardinalityType
<1>3. 0 \in T
  <2>1. {} \in SUBSET S
    OBVIOUS
  <2>2. g[{}] = 1
    BY <1>1, <2>1 DEF IsProduct
  <2>3. Divided({})
    BY <2>2
  <2> HIDE DEF Divided
  <2> QED
    BY <1>2, <2>3, FS_EmptySet
<1>4. ASSUME NEW n \in Nat, n \in T PROVE n + 1 \in T
  <2> SUFFICES ASSUME NEW s \in SUBSET S, Cardinality(s) = n + 1
               PROVE  Divided(s)
    OBVIOUS
  <2> DEFINE y == Pick(s)
             r == s \ {y}
  <2>1. s # {}
    <3>1. Cardinality({}) = 0
      BY FS_EmptySet
    <3>2. n + 1 # 0
      OBVIOUS
    <3> HIDE DEF T, y, r, Divided
    <3> QED
      BY <3>1, <3>2, Zenon
  <2>2. y \in s
    BY <2>1 DEF Pick
  <2>3. g[s] = y * g[r]
    BY <1>1, <2>1 DEF IsProduct
  <2>4. r \in SUBSET S /\ Cardinality(r) = n
    <3>1. r \in SUBSET S
      OBVIOUS
    <3>2. Cardinality(r) = Cardinality(s) - 1
      BY <1>2, <2>2, FS_RemoveElement
    <3> HIDE DEF T, y, r, Divided
    <3> QED
      BY <3>1, <3>2
  <2>5. Divided(r)
    <3> HIDE DEF r, Divided
    <3> QED
      BY <1>4, <2>4
  <2>6. y \in Nat \ {0} /\ g[r] \in Nat \ {0}
    BY <2>2, <2>4, <2>5
  <2> HIDE DEF y
  <2>7. g[s] # 0
    <3> DEFINE a == g[r]
    <3>1. \A m, k \in Nat \ {0} : m * k # 0
      OBVIOUS
    <3> HIDE DEF a, r
    <3> QED
      BY <2>3, <2>6, <3>1
  <2>8. ASSUME NEW x \in s PROVE \E q \in Nat : g[s] = x * q
    <3>1. CASE x = y
      BY <2>3, <2>6, <3>1
    <3>2. CASE x # y
      <4>1. PICK q \in Nat : g[r] = x * q
        BY <2>5, <3>2
      <4>2. x \in Nat
        OBVIOUS
      <4>3. y * (x * q) = x * (y * q) /\ y * q \in Nat
        BY <2>6, <4>2
      <4> QED
        BY <2>3, <4>1, <4>3
    <3> QED
      BY <3>1, <3>2
  <2> QED
    BY <2>7, <2>8
<1>5. Cardinality(S) \in T
  <2> HIDE DEF T
  <2> QED
    BY <1>2, <1>3, <1>4, Induction
<1>6. Divided(S) /\ g[S] \in Nat
  <2>1. S \in SUBSET S
    OBVIOUS
  <2> HIDE DEF Divided
  <2> QED
    BY <1>5, <2>1
<1> QED
  BY <1>1, <1>6
=============================================================================
