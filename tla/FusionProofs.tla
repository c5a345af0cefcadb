---------------------------- MODULE FusionProofs ----------------------------
(***************************************************************************)
(* Theorems about reciprocal rank fusion, for any k, any top_n and any two *)
(* lists.                                                                  *)
(***************************************************************************)
EXTENDS FusionProperties, FoldLemmas

-----------------------------------------------------------------------------
(* Scores.                                                                 *)

\* A list of known ids, each at most once.
Listing(s) ==
    /\ s \in Seq(DOMAIN IdOrder)
    /\ \A i, j \in 1..Len(s) : s[i] = s[j] => i = j

\* The rank of an id is where it is.
LEMMA RankIs ==
    ASSUME NEW s, Listing(s), NEW id \in Members(s)
    PROVE  /\ RankIn(s, id) \in 1..Len(s)
           /\ s[RankIn(s, id)] = id
           /\ \A i \in 1..Len(s) : s[i] = id => i = RankIn(s, id)
<1>1. \E i \in 1..Len(s) : s[i] = id
  BY DEF Members
<1>2. RankIn(s, id) \in 1..Len(s) /\ s[RankIn(s, id)] = id
  BY <1>1 DEF RankIn
<1> QED
  BY <1>2 DEF Listing

LEMMA MembersFinite ==
    ASSUME NEW s, Listing(s)
    PROVE  IsFiniteSet(Members(s)) /\ Members(s) \subseteq DOMAIN IdOrder
<1>1. Len(s) \in Nat /\ s \in [1..Len(s) -> DOMAIN IdOrder]
  BY DEF Listing
<1>2. IsFiniteSet(1..Len(s))
  BY <1>1, FS_Interval
<1>3. s \in Surjection(1..Len(s), Members(s))
  BY <1>1 DEF Surjection, Members
<1> QED
  BY <1>1, <1>2, <1>3, FS_Surjection DEF Members

\* The two lists of a fusion.
LEMMA TwoLists ==
    ASSUME NEW r, NEW s
    PROVE  /\ Len(<<r, s>>) = 2 /\ <<r, s>>[1] = r /\ <<r, s>>[2] = s
           /\ 1..Len(<<r, s>>) = {1, 2}
           /\ IdsOf(<<r, s>>) = Members(r) \cup Members(s)
<1> DEFINE R == <<r, s>>
<1>1. Len(R) = 2 /\ R[1] = r /\ R[2] = s
  OBVIOUS
<1> HIDE DEF R
<1>2. 1..Len(R) = {1, 2}
  BY <1>1
<1>3. IdsOf(R) = Members(r) \cup Members(s)
  BY <1>1, <1>2 DEF IdsOf
<1> QED
  BY <1>1, <1>2, <1>3 DEF R

\* The common denominator is a multiple of each k + rank.
LEMMA DenominatorDivided ==
    ASSUME NEW r, Listing(r), NEW s, Listing(s)
    PROVE  /\ CommonDenominator(<<r, s>>) \in Nat \ {0}
           /\ \A i \in (1..Len(r)) \cup (1..Len(s)) : \E q \in Nat :
                CommonDenominator(<<r, s>>) = (RrfK + i) * q
<1> DEFINE R == <<r, s>>
           I == UNION {1..Len(R[l]) : l \in 1..Len(R)}
           J == {RrfK + i : i \in I}
<1>1. I = (1..Len(r)) \cup (1..Len(s))
  <2>1. Len(R) = 2 /\ R[1] = r /\ R[2] = s /\ 1..Len(R) = {1, 2}
    BY TwoLists
  <2> HIDE DEF R
  <2> QED
    BY <2>1
<1>2. Len(r) \in Nat /\ Len(s) \in Nat /\ RrfK \in Nat \ {0}
  BY FusionAssumption DEF Listing
<1> DEFINE m == RrfK + Len(r) + Len(s)
<1>3. J \in SUBSET Nat /\ J \subseteq Nat \ {0} /\ m \in Nat /\ \A j \in J : j <= m
  <2> HIDE DEF R, I
  <2> QED
    BY <1>1, <1>2
<1>4. IsFiniteSet(J)
  <2> HIDE DEF J, m
  <2> QED
    BY <1>3, FS_BoundedSetOfNaturals
<1>5. CommonDenominator(R) = ProductSet(J)
  BY DEF CommonDenominator
<1>6. \A i \in (1..Len(r)) \cup (1..Len(s)) : RrfK + i \in J
  <2> HIDE DEF I, R
  <2> QED
    BY <1>1
<1> HIDE DEF J, I, m
<1>7. ProductSet(J) \in Nat \ {0} /\ \A x \in J : \E q \in Nat : ProductSet(J) = x * q
  BY <1>3, <1>4, ProductDivides
<1> HIDE DEF R
<1>8. CommonDenominator(R) \in Nat \ {0}
      /\ \A i \in (1..Len(r)) \cup (1..Len(s)) : \E q \in Nat :
           CommonDenominator(R) = (RrfK + i) * q
  BY <1>5, <1>6, <1>7
<1> QED
  BY <1>8 DEF R

\* Dividing by a divisor gives the other one back.
LEMMA Quotient ==
    ASSUME NEW a \in Nat \ {0}, NEW q \in Nat, NEW p \in Nat, p = a * q
    PROVE  p \div a = q
<1> DEFINE d == p \div a
           m == p % a
<1>1. d \in Int /\ m \in 0..(a - 1) /\ p = a * d + m
  OBVIOUS
<1> HIDE DEF d, m
<1>2. a * q = a * d + m
  BY <1>1
<1>3. CASE d < q
  <2>1. a * (d + 1) <= a * q
    BY <1>1, <1>3
  <2>2. a * (d + 1) = a * d + a
    BY <1>1
  <2> QED
    BY <1>1, <1>2, <2>1, <2>2
<1>4. CASE d > q
  <2>1. a * (q + 1) <= a * d
    BY <1>1, <1>4
  <2>2. a * (q + 1) = a * q + a
    OBVIOUS
  <2> QED
    BY <1>1, <1>2, <2>1, <2>2
<1> QED
  BY <1>1, <1>3, <1>4 DEF d

\* A list contributes 1 / (k + rank) of the common denominator.
LEMMA ContributionIs ==
    ASSUME NEW r, Listing(r), NEW s, Listing(s), NEW l \in {1, 2},
           NEW id \in Members(<<r, s>>[l])
    PROVE  /\ Contribution(<<r, s>>, l, id) \in Nat \ {0}
           /\ RrfK + RankIn(<<r, s>>[l], id) \in Nat \ {0}
           /\ CommonDenominator(<<r, s>>)
                = (RrfK + RankIn(<<r, s>>[l], id)) * Contribution(<<r, s>>, l, id)
<1> DEFINE R == <<r, s>>
           P == CommonDenominator(R)
           i == RankIn(R[l], id)
           a == RrfK + i
<1>1. R[1] = r /\ R[2] = s /\ Listing(R[l])
  OBVIOUS
<1>2. P \in Nat \ {0}
      /\ \A k \in (1..Len(r)) \cup (1..Len(s)) : \E q \in Nat : P = (RrfK + k) * q
  BY DenominatorDivided
<1> HIDE DEF P
<1>3. id \in Members(R[l])
  OBVIOUS
<1> HIDE DEF R
<1>4. i \in 1..Len(R[l])
  BY <1>1, <1>3, RankIs
<1>5. Len(r) \in Nat /\ Len(s) \in Nat /\ RrfK \in Nat \ {0}
  BY FusionAssumption DEF Listing
<1>6. i \in (1..Len(r)) \cup (1..Len(s))
  BY <1>1, <1>4
<1> HIDE DEF i
<1>7. a \in Nat \ {0}
  BY <1>5, <1>6
<1>8. PICK q \in Nat : P = a * q
  BY <1>2, <1>6
<1> HIDE DEF a
<1>9. P \div a = q
  BY <1>2, <1>7, <1>8, Quotient
<1>10. q # 0
  BY <1>2, <1>7, <1>8
<1>11. Contribution(R, l, id) = q
  BY <1>9 DEF Contribution, P, a, i
<1> QED
  BY <1>7, <1>8, <1>10, <1>11 DEF P, a, i, R

\* The score of an id is the sum of what the lists that hold it contribute.
LEMMA ScoreIsSum ==
    ASSUME NEW R, NEW id \in IdsOf(R)
    PROVE  Scores(R)[id] = SumOf([l \in ListsWith(R, id) |-> Contribution(R, l, id)],
                                 ListsWith(R, id))
<1> DEFINE L == ListsWith(R, id)
           f == [l \in L |-> Contribution(R, l, id)]
           Is(g) == g = [t \in SUBSET L |-> IF t = {} THEN 0 ELSE
                      Contribution(R, CHOOSE x \in t : TRUE, id)
                        + g[t \ {CHOOSE x \in t : TRUE}]]
           IsF(g) == g = [t \in SUBSET L |-> IF t = {} THEN 0 ELSE
                      f[CHOOSE x \in t : TRUE] + g[t \ {CHOOSE x \in t : TRUE}]]
<1>1. Scores(R)[id] = MapThenSumSet(LAMBDA l : Contribution(R, l, id), L)
  BY DEF Scores
<1> HIDE DEF L
<1>2. MapThenSumSet(LAMBDA l : Contribution(R, l, id), L) = (CHOOSE g : Is(g))[L]
  BY DEF MapThenSumSet, MapThenFoldSet
<1>3. SumOf(f, L) = (CHOOSE g : IsF(g))[L]
  BY DEF SumOf, MapThenSumSet, MapThenFoldSet
<1>4. \A g : Is(g) <=> IsF(g)
  <2>1. \A t \in SUBSET L : t # {} =>
          f[CHOOSE x \in t : TRUE] = Contribution(R, CHOOSE x \in t : TRUE, id)
    OBVIOUS
  <2> HIDE DEF f
  <2> SUFFICES ASSUME NEW g PROVE Is(g) <=> IsF(g)
    OBVIOUS
  <2>2. [t \in SUBSET L |-> IF t = {} THEN 0 ELSE
           Contribution(R, CHOOSE x \in t : TRUE, id)
             + g[t \ {CHOOSE x \in t : TRUE}]]
        = [t \in SUBSET L |-> IF t = {} THEN 0 ELSE
             f[CHOOSE x \in t : TRUE] + g[t \ {CHOOSE x \in t : TRUE}]]
    BY <2>1
  <2> QED
    BY <2>2
<1>5. (CHOOSE g : Is(g)) = (CHOOSE g : IsF(g))
  <2> HIDE DEF Is, IsF
  <2> QED
    BY <1>4
<1> QED
  BY <1>1, <1>2, <1>3, <1>5 DEF L

\* What a list contributes to the score of an id: nothing if it lacks it.
Share(r, s, l, id) ==
    IF id \in Members(<<r, s>>[l]) THEN Contribution(<<r, s>>, l, id) ELSE 0

LEMMA ShareIsNumber ==
    ASSUME NEW r, Listing(r), NEW s, Listing(s), NEW l \in {1, 2}, NEW id
    PROVE  /\ Share(r, s, l, id) \in Nat
           /\ Share(r, s, l, id) # 0 <=> id \in Members(<<r, s>>[l])
<1>1. CASE id \in Members(<<r, s>>[l])
  <2>1. Contribution(<<r, s>>, l, id) \in Nat \ {0}
    BY <1>1, ContributionIs
  <2> QED
    BY <1>1, <2>1 DEF Share
<1>2. CASE id \notin Members(<<r, s>>[l])
  BY <1>2 DEF Share
<1> QED
  BY <1>1, <1>2

LEMMA ScoreOfTwo ==
    ASSUME NEW r, Listing(r), NEW s, Listing(s),
           NEW id \in Members(r) \cup Members(s)
    PROVE  Scores(<<r, s>>)[id] = Share(r, s, 1, id) + Share(r, s, 2, id)
<1> DEFINE R == <<r, s>>
           L == ListsWith(R, id)
           f == [l \in L |-> Contribution(R, l, id)]
<1>1. R[1] = r /\ R[2] = s /\ 1..Len(R) = {1, 2} /\ id \in IdsOf(R)
  BY TwoLists
<1>2. Scores(R)[id] = SumOf(f, L)
  <2> HIDE DEF R
  <2> QED
    BY <1>1, ScoreIsSum
<1>3. \A l \in {1, 2} : l \in L <=> id \in Members(R[l])
  <2> HIDE DEF R
  <2> QED
    BY <1>1 DEF ListsWith
<1>4. L \in SUBSET {1, 2}
  <2> HIDE DEF R
  <2> QED
    BY <1>1 DEF ListsWith
<1>5. IsFiniteSet({1, 2})
  <2>1. IsFiniteSet(1..2)
    <3>1. 1 \in Int /\ 2 \in Int
      OBVIOUS
    <3> QED
      BY <3>1, FS_Interval, Zenon
  <2>2. 1..2 = {1, 2}
    OBVIOUS
  <2> QED
    BY <2>1, <2>2, Zenon
<1>6. IsFiniteSet(L)
  BY <1>4, <1>5, FS_Subset
<1> DEFINE one == Share(r, s, 1, id)
           two == Share(r, s, 2, id)
<1>7. /\ one \in Nat /\ (1 \in L => f[1] = one) /\ (1 \notin L => one = 0)
      /\ two \in Nat /\ (2 \in L => f[2] = two) /\ (2 \notin L => two = 0)
  <2>1. one \in Nat /\ two \in Nat
    BY ShareIsNumber
  <2>2. /\ one = IF id \in Members(R[1]) THEN Contribution(R, 1, id) ELSE 0
        /\ two = IF id \in Members(R[2]) THEN Contribution(R, 2, id) ELSE 0
    BY DEF Share
  <2> HIDE DEF R, L, one, two
  <2> QED
    BY <1>3, <2>1, <2>2
<1> HIDE DEF R, L, one, two, f
<1>8. \A l \in L : f[l] \in Nat
  BY <1>4, <1>7
<1>9. SumOf(f, {}) = 0
  BY SumFirst, FS_EmptySet
<1>10. ASSUME NEW l \in L PROVE SumOf(f, L) = f[l] + SumOf(f, L \ {l})
  BY <1>6, <1>8, SumTake
<1>11. ASSUME 1 \notin L, 2 \notin L PROVE SumOf(f, L) = one + two
  <2>1. L = {}
    BY <1>4, <1>11
  <2>2. one = 0 /\ two = 0
    BY <1>7, <1>11
  <2>3. SumOf(f, L) = 0
    BY <1>9, <2>1
  <2> QED
    BY <2>2, <2>3
<1>12. ASSUME 1 \in L, 2 \notin L PROVE SumOf(f, L) = one + two
  <2>1. L \ {1} = {}
    BY <1>4, <1>12
  <2>2. SumOf(f, L) = f[1] + SumOf(f, L \ {1})
    BY <1>10, <1>12
  <2>3. SumOf(f, L) = f[1] + 0
    BY <1>9, <2>1, <2>2
  <2> QED
    BY <1>7, <1>12, <2>3
<1>13. ASSUME 2 \in L, 1 \notin L PROVE SumOf(f, L) = one + two
  <2>1. L \ {2} = {}
    BY <1>4, <1>13
  <2>2. SumOf(f, L) = f[2] + SumOf(f, L \ {2})
    BY <1>10, <1>13
  <2>3. SumOf(f, L) = f[2] + 0
    BY <1>9, <2>1, <2>2
  <2> QED
    BY <1>7, <1>13, <2>3
<1>14. ASSUME 1 \in L, 2 \in L PROVE SumOf(f, L) = one + two
  <2>1. L \ {1} = {2}
    <3>1. 1 # 2 /\ \A x \in L : x = 1 \/ x = 2
      BY <1>4
    <3> QED
      BY <1>14, <3>1, Zenon
  <2>2. SumOf(f, L) = f[1] + SumOf(f, L \ {1})
    BY <1>10, <1>14
  <2>3. SumOf(f, {2}) = f[2] + SumOf(f, {2} \ {2})
    BY <1>8, <1>14, SumTake, FS_Singleton
  <2>4. {2} \ {2} = {}
    OBVIOUS
  <2>5. SumOf(f, {2}) = f[2] + 0
    BY <1>9, <2>3, <2>4
  <2>6. SumOf(f, L) = f[1] + SumOf(f, {2})
    BY <2>1, <2>2
  <2> QED
    BY <1>7, <1>14, <2>5, <2>6
<1>15. SumOf(f, L) = one + two
  BY <1>11, <1>12, <1>13, <1>14
<1> QED
  BY <1>2, <1>15 DEF R, one, two

LEMMA ScoresAreNumbers ==
    ASSUME NEW r, Listing(r), NEW s, Listing(s)
    PROVE  /\ DOMAIN Scores(<<r, s>>) = Members(r) \cup Members(s)
           /\ \A id \in Members(r) \cup Members(s) : Scores(<<r, s>>)[id] \in Nat \ {0}
<1>1. ASSUME NEW id \in Members(r) \cup Members(s)
      PROVE  Scores(<<r, s>>)[id] \in Nat \ {0}
  <2> DEFINE one == Share(r, s, 1, id)
             two == Share(r, s, 2, id)
  <2>1. Scores(<<r, s>>)[id] = one + two
    BY ScoreOfTwo
  <2>2. /\ one \in Nat /\ (one # 0 <=> id \in Members(r))
        /\ two \in Nat /\ (two # 0 <=> id \in Members(s))
    <3>1. <<r, s>>[1] = r /\ <<r, s>>[2] = s
      OBVIOUS
    <3> QED
      BY <3>1, ShareIsNumber
  <2> HIDE DEF one, two
  <2>3. one # 0 \/ two # 0
    BY <2>2
  <2>4. one + two \in Nat \ {0}
    BY <2>2, <2>3
  <2> QED
    BY <2>1, <2>4
<1>2. DOMAIN Scores(<<r, s>>) = Members(r) \cup Members(s)
  BY TwoLists DEF Scores
<1> QED
  BY <1>1, <1>2

-----------------------------------------------------------------------------
(* The order of the sort.                                                  *)

\* Scores by which a finite set of known ids can be sorted.
Scored(scores) ==
    /\ IsFiniteSet(DOMAIN scores)
    /\ DOMAIN scores \subseteq DOMAIN IdOrder
    /\ \A id \in DOMAIN scores : scores[id] \in Nat

LEMMA AheadOrders ==
    ASSUME NEW scores, Scored(scores)
    PROVE  \A a, b, c \in DOMAIN scores :
             /\ ~Ahead(scores, a, a)
             /\ Ahead(scores, a, b) => ~Ahead(scores, b, a)
             /\ a # b => Ahead(scores, a, b) \/ Ahead(scores, b, a)
             /\ Ahead(scores, a, b) /\ Ahead(scores, b, c) => Ahead(scores, a, c)
<1> SUFFICES ASSUME NEW a \in DOMAIN scores, NEW b \in DOMAIN scores,
                    NEW c \in DOMAIN scores
             PROVE  /\ ~Ahead(scores, a, a)
                    /\ Ahead(scores, a, b) => ~Ahead(scores, b, a)
                    /\ a # b => Ahead(scores, a, b) \/ Ahead(scores, b, a)
                    /\ Ahead(scores, a, b) /\ Ahead(scores, b, c) => Ahead(scores, a, c)
  OBVIOUS
<1>1. scores[a] \in Nat /\ scores[b] \in Nat /\ scores[c] \in Nat
  BY DEF Scored
<1>2. IdOrder[a] \in Nat /\ IdOrder[b] \in Nat /\ IdOrder[c] \in Nat
      /\ (IdOrder[a] = IdOrder[b] => a = b)
  BY FusionAssumption DEF Scored
<1> QED
  BY <1>1, <1>2 DEF Ahead

\* The ids that come before one.
AheadOf(scores, id) == {z \in DOMAIN scores : Ahead(scores, z, id)}

LEMMA PlaceGrows ==
    ASSUME NEW scores, Scored(scores),
           NEW a \in DOMAIN scores, NEW b \in DOMAIN scores
    PROVE  /\ Cardinality(AheadOf(scores, a)) \in Nat
           /\ Ahead(scores, a, b) =>
                Cardinality(AheadOf(scores, a)) < Cardinality(AheadOf(scores, b))
<1>1. /\ IsFiniteSet(AheadOf(scores, a)) /\ Cardinality(AheadOf(scores, a)) \in Nat
      /\ IsFiniteSet(AheadOf(scores, b)) /\ Cardinality(AheadOf(scores, b)) \in Nat
  <2>1. AheadOf(scores, a) \in SUBSET DOMAIN scores /\ AheadOf(scores, b) \in SUBSET DOMAIN scores
    BY DEF AheadOf
  <2> QED
    BY <2>1, FS_Subset, FS_CardinalityType DEF Scored
<1>2. ASSUME Ahead(scores, a, b)
      PROVE  /\ AheadOf(scores, a) \in SUBSET AheadOf(scores, b)
             /\ AheadOf(scores, a) # AheadOf(scores, b)
  BY <1>2, AheadOrders DEF AheadOf
<1>3. ASSUME Ahead(scores, a, b)
      PROVE  /\ Cardinality(AheadOf(scores, a)) <= Cardinality(AheadOf(scores, b))
             /\ Cardinality(AheadOf(scores, a)) # Cardinality(AheadOf(scores, b))
  BY <1>1, <1>2, <1>3, FS_Subset
<1> QED
  BY <1>1, <1>3

\* A sorted list holds every id, at the place that the number of ids ahead
\* of it says.
LEMMA SortedPlaces ==
    ASSUME NEW scores, Scored(scores), NEW s \in Sorted(scores)
    PROVE  /\ Cardinality(DOMAIN scores) \in Nat
           /\ s \in Seq(DOMAIN scores) /\ Len(s) = Cardinality(DOMAIN scores)
           /\ \A id \in DOMAIN scores : \E i \in 1..Len(s) : s[i] = id
           /\ \A i, j \in 1..Len(s) : /\ i < j => Ahead(scores, s[i], s[j])
                                      /\ Ahead(scores, s[i], s[j]) => i < j
                                      /\ s[i] = s[j] => i = j
           /\ \A i \in 1..Len(s) : Cardinality(AheadOf(scores, s[i])) = i - 1
<1> DEFINE D == DOMAIN scores
           n == Cardinality(D)
<1>1. n \in Nat /\ IsFiniteSet(D)
  BY FS_CardinalityType DEF Scored
<1>2. /\ s \in [1..n -> D]
      /\ \A i, j \in 1..n : i < j => s[i] # s[j] /\ Ahead(scores, s[i], s[j])
  BY DEF Sorted
<1>3. \A a, b \in D : ~Ahead(scores, a, a) /\ (Ahead(scores, a, b) => ~Ahead(scores, b, a))
  BY AheadOrders
<1> HIDE DEF D, n
<1>4. s \in Seq(D) /\ Len(s) = n
  BY <1>1, <1>2
<1>5. \A i, j \in 1..n : s[i] = s[j] => i = j
  BY <1>1, <1>2
<1>6. \A i, j \in 1..n : /\ i < j => Ahead(scores, s[i], s[j])
                         /\ Ahead(scores, s[i], s[j]) => i < j
  <2> SUFFICES ASSUME NEW i \in 1..n, NEW j \in 1..n, Ahead(scores, s[i], s[j])
               PROVE  i < j
    BY <1>2
  <2>1. s[i] \in D /\ s[j] \in D
    BY <1>2
  <2>2. ~Ahead(scores, s[j], s[i]) /\ i # j
    BY <1>3, <2>1
  <2> QED
    BY <1>1, <1>2, <2>2
<1>7. \A id \in D : \E i \in 1..n : s[i] = id
  <2>1. s \in Injection(1..n, D)
    BY <1>2, <1>5 DEF Injection, IsInjective
  <2>2. Cardinality(1..n) = n
    BY <1>1, FS_Interval
  <2>3. s \in Surjection(1..n, D)
    BY <1>1, <2>1, <2>2, FS_Injection DEF n
  <2> QED
    BY <2>3 DEF Surjection
<1>8. ASSUME NEW i \in 1..n
      PROVE  Cardinality(AheadOf(scores, s[i])) = i - 1
  <2> DEFINE A == AheadOf(scores, s[i])
             f == [j \in 1..(i - 1) |-> s[j]]
  <2>1. i - 1 \in Nat /\ \A j \in 1..(i - 1) : j \in 1..n /\ j < i
    BY <1>1
  <2>2. \A j \in 1..(i - 1) : f[j] \in A
    BY <1>2, <2>1 DEF AheadOf, D
  <2>3. \A z \in A : \E j \in 1..(i - 1) : f[j] = z
    <3> SUFFICES ASSUME NEW z \in A PROVE \E j \in 1..(i - 1) : f[j] = z
      OBVIOUS
    <3>1. z \in D /\ Ahead(scores, z, s[i])
      BY DEF AheadOf, D
    <3>2. PICK j \in 1..n : s[j] = z
      BY <1>7, <3>1
    <3>3. j < i
      <4>1. Ahead(scores, s[j], s[i])
        BY <3>1, <3>2
      <4> QED
        BY <1>6, <4>1
    <3>4. j \in 1..(i - 1)
      BY <1>1, <3>3
    <3> QED
      BY <3>2, <3>4
  <2>4. \A j, k \in 1..(i - 1) : f[j] = f[k] => j = k
    BY <1>5, <2>1
  <2> HIDE DEF A
  <2>5. f \in [1..(i - 1) -> A]
    BY <2>2
  <2> HIDE DEF f
  <2>6. f \in Bijection(1..(i - 1), A)
    BY <2>3, <2>4, <2>5 DEF Bijection, Injection, Surjection, IsInjective
  <2>7. ExistsBijection(1..(i - 1), A)
    BY <2>6 DEF ExistsBijection
  <2>8. Cardinality(A) = i - 1
    BY <2>1, <2>7, FS_CountingElements
  <2> QED
    BY <2>8 DEF A
<1> QED
  BY <1>1, <1>4, <1>5, <1>6, <1>7, <1>8 DEF D, n

\* There is one sorted list.
LEMMA SortedIsOne ==
    ASSUME NEW scores, Scored(scores)
    PROVE  \E s : Sorted(scores) = {s}
<1> DEFINE D == DOMAIN scores
           n == Cardinality(D)
           place == [id \in D |-> Cardinality(AheadOf(scores, id)) + 1]
           t == [i \in 1..n |-> CHOOSE id \in D : place[id] = i]
<1>1. n \in Nat /\ IsFiniteSet(D)
  BY FS_CardinalityType DEF Scored
<1>2. \A a, b \in D : /\ place[a] \in Nat
                      /\ Ahead(scores, a, b) => place[a] < place[b]
                      /\ place[a] = place[b] => a = b
  <2> SUFFICES ASSUME NEW a \in D, NEW b \in D
               PROVE  /\ place[a] \in Nat
                      /\ Ahead(scores, a, b) => place[a] < place[b]
                      /\ place[a] = place[b] => a = b
    OBVIOUS
  <2> DEFINE x == Cardinality(AheadOf(scores, a))
             y == Cardinality(AheadOf(scores, b))
  <2>1. /\ x \in Nat /\ y \in Nat
        /\ Ahead(scores, a, b) => x < y
        /\ Ahead(scores, b, a) => y < x
    BY PlaceGrows
  <2>2. a # b => Ahead(scores, a, b) \/ Ahead(scores, b, a)
    BY AheadOrders
  <2>3. place[a] = x + 1 /\ place[b] = y + 1
    OBVIOUS
  <2> HIDE DEF place, x, y, D
  <2> QED
    BY <2>1, <2>2, <2>3
<1>3. \A a \in D : place[a] \in 1..n
  <2> SUFFICES ASSUME NEW a \in D PROVE place[a] \in 1..n
    OBVIOUS
  <2> DEFINE A == AheadOf(scores, a)
  <2>1. A \in SUBSET (D \ {a})
    BY AheadOrders DEF AheadOf
  <2>2. IsFiniteSet(D \ {a}) /\ Cardinality(D \ {a}) = n - 1
    BY <1>1, FS_RemoveElement
  <2>3. Cardinality(A) <= n - 1 /\ Cardinality(A) \in Nat
    BY <2>1, <2>2, FS_Subset, FS_CardinalityType
  <2>4. place[a] = Cardinality(A) + 1
    OBVIOUS
  <2> HIDE DEF place, A, n, D
  <2> QED
    BY <1>1, <2>3, <2>4
<1>4. place \in Injection(D, 1..n)
  <2>1. place \in [D -> Nat] /\ DOMAIN place = D
    BY <1>2
  <2> HIDE DEF place, D, n
  <2> QED
    BY <1>2, <1>3, <2>1 DEF Injection, IsInjective
<1>5. \A i \in 1..n : \E id \in D : place[id] = i
  <2>1. IsFiniteSet(1..n) /\ Cardinality(1..n) = Cardinality(D)
    BY <1>1, FS_Interval
  <2> HIDE DEF place, D, n
  <2>2. place \in Surjection(D, 1..n)
    BY <1>4, <2>1, FS_Injection
  <2> QED
    BY <2>2 DEF Surjection
<1> HIDE DEF place
<1>6. \A i \in 1..n : t[i] \in D /\ place[t[i]] = i
  BY <1>5
<1>7. t \in [1..n -> D]
  BY <1>6
<1>8. t \in Sorted(scores)
  <2>1. ASSUME NEW i \in 1..n, NEW j \in 1..n, i < j
        PROVE  t[i] # t[j] /\ Ahead(scores, t[i], t[j])
    <3>1. /\ t[i] \in D /\ place[t[i]] = i
          /\ t[j] \in D /\ place[t[j]] = j
      BY <1>6
    <3> HIDE DEF t
    <3>2. t[i] # t[j]
      BY <1>1, <2>1, <3>1
    <3>3. ~Ahead(scores, t[j], t[i])
      BY <1>1, <1>2, <2>1, <3>1
    <3> QED
      BY <3>1, <3>2, <3>3, AheadOrders
  <2> HIDE DEF t
  <2> QED
    BY <1>7, <2>1 DEF Sorted
<1> HIDE DEF t
<1>9. \A s \in Sorted(scores) : /\ s \in [1..n -> D]
                                /\ \A i \in 1..n : place[s[i]] = i
  <2> SUFFICES ASSUME NEW s \in Sorted(scores)
               PROVE  s \in [1..n -> D] /\ \A i \in 1..n : place[s[i]] = i
    OBVIOUS
  <2>1. s \in [1..n -> D]
    BY DEF Sorted
  <2>2. Len(s) = n /\ \A i \in 1..Len(s) : Cardinality(AheadOf(scores, s[i])) = i - 1
    BY SortedPlaces
  <2>3. ASSUME NEW i \in 1..n PROVE place[s[i]] = i
    <3>1. s[i] \in D
      BY <2>1
    <3>2. Cardinality(AheadOf(scores, s[i])) = i - 1
      BY <2>2
    <3>3. place[s[i]] = i - 1 + 1
      BY <3>1, <3>2 DEF place
    <3> QED
      BY <1>1, <3>3
  <2> QED
    BY <2>1, <2>3
<1>10. \A s \in Sorted(scores) : s = t
  <2> SUFFICES ASSUME NEW s \in Sorted(scores) PROVE s = t
    OBVIOUS
  <2>1. \A i \in 1..n : s[i] \in D /\ place[s[i]] = place[t[i]]
    BY <1>6, <1>9
  <2>2. \A i \in 1..n : s[i] = t[i]
    BY <1>2, <1>6, <2>1
  <2>3. s \in [1..n -> D]
    BY <1>9
  <2> DEFINE I == 1..n
  <2>4. s \in [I -> D] /\ t \in [I -> D] /\ \A i \in I : s[i] = t[i]
    BY <1>7, <2>2, <2>3
  <2> HIDE DEF D, I
  <2> QED
    BY <2>4
<1>11. Sorted(scores) = {t}
  BY <1>8, <1>10
<1> QED
  BY <1>11

-----------------------------------------------------------------------------
(* The results.                                                            *)

LEMMA ScoresAreScored ==
    ASSUME NEW r, Listing(r), NEW s, Listing(s)
    PROVE  Scored(Scores(<<r, s>>))
<1>1. /\ DOMAIN Scores(<<r, s>>) = Members(r) \cup Members(s)
      /\ \A id \in Members(r) \cup Members(s) : Scores(<<r, s>>)[id] \in Nat
  BY ScoresAreNumbers
<1>2. /\ IsFiniteSet(Members(r)) /\ Members(r) \subseteq DOMAIN IdOrder
      /\ IsFiniteSet(Members(s)) /\ Members(s) \subseteq DOMAIN IdOrder
  BY MembersFinite
<1>3. IsFiniteSet(Members(r) \cup Members(s))
  BY <1>2, FS_Union
<1> QED
  BY <1>1, <1>2, <1>3 DEF Scored

\* u is the first n of t, or all of a shorter t.
Cut(u, t, n) ==
    /\ Len(u) \in Nat /\ Len(u) = IF n < Len(t) THEN n ELSE Len(t)
    /\ \A i \in 1..Len(u) : i \in 1..Len(t) /\ u[i] = t[i]

\* There is one result: as much of the sorted list as is asked for.
LEMMA FusionIsTruncated ==
    ASSUME NEW r, Listing(r), NEW s, Listing(s), NEW n \in Nat \ {0}
    PROVE  \E t \in Sorted(Scores(<<r, s>>)), u \in Seq(DOMAIN Scores(<<r, s>>)) :
             Fusions(<<r, s>>, n) = {u} /\ Cut(u, t, n)
<1> DEFINE scores == Scores(<<r, s>>)
<1>1. Scored(scores)
  BY ScoresAreScored
<1> HIDE DEF scores
<1>2. PICK t : Sorted(scores) = {t}
  BY <1>1, SortedIsOne
<1>3. t \in Seq(DOMAIN scores) /\ Len(t) \in Nat
  BY <1>1, <1>2, SortedPlaces
<1> DEFINE m == IF n < Len(t) THEN n ELSE Len(t)
           u == SubSeq(t, 1, m)
<1>4. m \in Nat /\ m <= Len(t)
  BY <1>3
<1>5. u \in Seq(DOMAIN scores) /\ Len(u) = m /\ \A i \in 1..m : u[i] = t[i]
  <2> HIDE DEF m
  <2> QED
    BY <1>3, <1>4
<1>6. Fusions(<<r, s>>, n) = {u}
  <2>1. Fusions(<<r, s>>, n) = {Truncated(x, n) : x \in {t}}
    BY <1>2 DEF Fusions, scores
  <2>2. Truncated(t, n) = u
    BY DEF Truncated
  <2> HIDE DEF u
  <2> QED
    BY <2>1, <2>2
<1>7. \A i \in 1..m : i \in 1..Len(t)
  <2> HIDE DEF m
  <2> QED
    BY <1>3, <1>4
<1>8. t \in Sorted(scores)
  BY <1>2
<1> HIDE DEF u
<1>9. Cut(u, t, n)
  BY <1>4, <1>5, <1>7 DEF Cut
<1> QED
  BY <1>5, <1>6, <1>8, <1>9 DEF scores

\* The share of a list that holds an id is the denominator over k + rank.
LEMMA ShareIsQuotient ==
    ASSUME NEW r, Listing(r), NEW s, Listing(s)
    PROVE  /\ \A id \in Members(r) :
                /\ RrfK + RankIn(r, id) \in Nat \ {0}
                /\ Share(r, s, 1, id) \in Nat \ {0}
                /\ CommonDenominator(<<r, s>>)
                     = (RrfK + RankIn(r, id)) * Share(r, s, 1, id)
           /\ \A id \in Members(s) :
                /\ RrfK + RankIn(s, id) \in Nat \ {0}
                /\ Share(r, s, 2, id) \in Nat \ {0}
                /\ CommonDenominator(<<r, s>>)
                     = (RrfK + RankIn(s, id)) * Share(r, s, 2, id)
<1> DEFINE R == <<r, s>>
<1>1. R[1] = r /\ R[2] = s
  OBVIOUS
<1>2. ASSUME NEW l \in {1, 2}, NEW id \in Members(R[l])
      PROVE  /\ RrfK + RankIn(R[l], id) \in Nat \ {0}
             /\ Share(r, s, l, id) \in Nat \ {0}
             /\ CommonDenominator(R) = (RrfK + RankIn(R[l], id)) * Share(r, s, l, id)
  <2>1. Share(r, s, l, id) = Contribution(R, l, id)
    BY DEF Share
  <2>2. /\ Contribution(R, l, id) \in Nat \ {0}
        /\ RrfK + RankIn(R[l], id) \in Nat \ {0}
        /\ CommonDenominator(R) = (RrfK + RankIn(R[l], id)) * Contribution(R, l, id)
    BY ContributionIs
  <2> HIDE DEF R
  <2> QED
    BY <2>1, <2>2
<1> HIDE DEF R
<1>3. 1 \in {1, 2} /\ 2 \in {1, 2}
  OBVIOUS
<1>4. /\ \A id \in Members(R[1]) :
           /\ RrfK + RankIn(R[1], id) \in Nat \ {0}
           /\ Share(r, s, 1, id) \in Nat \ {0}
           /\ CommonDenominator(R) = (RrfK + RankIn(R[1], id)) * Share(r, s, 1, id)
      /\ \A id \in Members(R[2]) :
           /\ RrfK + RankIn(R[2], id) \in Nat \ {0}
           /\ Share(r, s, 2, id) \in Nat \ {0}
           /\ CommonDenominator(R) = (RrfK + RankIn(R[2], id)) * Share(r, s, 2, id)
  BY <1>2, <1>3, Zenon
<1> QED
  BY <1>1, <1>4 DEF R

-----------------------------------------------------------------------------
(* The steps.                                                              *)

\* What has been fused is the fusion of the two lists.
FusionInv ==
    /\ dense \in Listings
    /\ keyword \in Listings
    /\ fused = {} \/ fused = Fusions(<<dense, keyword>>, TopN)

LEMMA FusionInvHolds == Spec => []FusionInv
<1>1. Init => FusionInv
  BY DEF Init, FusionInv
<1>2. FusionInv /\ [Fuse]_vars => FusionInv'
  BY DEF FusionInv, Fuse, vars
<1> QED
  BY <1>1, <1>2, PTL DEF Spec

LEMMA RetrievedAreListings ==
    ASSUME FusionInv PROVE Listing(dense) /\ Listing(keyword)
BY ListingsAssumption DEF FusionInv, Listing

-----------------------------------------------------------------------------
(* Consensus.                                                              *)

\* Two terms from ranks up to k + 1 come to more than one from any rank.
LEMMA TwoBeatOne ==
    ASSUME NEW k \in Nat \ {0}, NEW p \in Nat,
           NEW a \in Nat, NEW b \in Nat, NEW c \in Nat,
           a <= 2 * k + 1, b <= 2 * k + 1, c >= k + 1,
           NEW x \in Nat \ {0}, NEW y \in Nat \ {0}, NEW z \in Nat \ {0},
           p = a * x, p = b * y, p = c * z
    PROVE  x + y > z
<1> DEFINE m == 2 * k + 1
<1>1. m \in Nat /\ a <= m /\ b <= m
  OBVIOUS
<1>2. (k + 1) * z <= c * z
  OBVIOUS
<1>3. (k + 1) * z + (k + 1) * z = m * z + z
  OBVIOUS
<1> HIDE DEF m
<1>4. a * x <= m * x /\ b * y <= m * y
  BY <1>1
<1>5. ASSUME x + y <= z PROVE m * x + m * y <= m * z
  <2>1. m * (x + y) <= m * z
    BY <1>1, <1>5
  <2>2. m * (x + y) = m * x + m * y
    BY <1>1
  <2> QED
    BY <2>1, <2>2
<1> DEFINE mx == m * x
           my == m * y
           mz == m * z
           kz == (k + 1) * z
<1>6. mx \in Nat /\ my \in Nat /\ mz \in Nat /\ kz \in Nat
  BY <1>1
<1>7. p <= mx /\ p <= my /\ kz <= p /\ kz + kz = mz + z
      /\ (x + y <= z => mx + my <= mz)
  BY <1>2, <1>3, <1>4, <1>5
<1> HIDE DEF mx, my, mz, kz
<1> QED
  BY <1>6, <1>7

\* ConsensusFirst: with lists no longer than k + 1, ids both lists hold come
\* before ids only one of them holds.
THEOREM ConsensusComesFirst ==
    ASSUME \A s \in Listings : Len(s) <= RrfK + 1
    PROVE  Spec => []ConsensusFirst
<1>1. ASSUME FusionInv PROVE ConsensusFirst
  <2> SUFFICES ASSUME NEW u \in fused, NEW i \in 1..Len(u), NEW j \in 1..Len(u),
                      u[i] \in Both, u[j] \notin Both
               PROVE  i < j
    BY DEF ConsensusFirst
  <2> DEFINE scores == Scores(<<dense, keyword>>)
             one(id) == Share(dense, keyword, 1, id)
             two(id) == Share(dense, keyword, 2, id)
             P == CommonDenominator(<<dense, keyword>>)
             over(s, id) == RrfK + RankIn(s, id)
  <2>1. /\ Listing(dense) /\ Len(dense) \in Nat /\ Len(dense) <= RrfK + 1
        /\ Listing(keyword) /\ Len(keyword) \in Nat /\ Len(keyword) <= RrfK + 1
    BY <1>1, RetrievedAreListings, ListingsAssumption DEF FusionInv
  <2>2. fused = Fusions(<<dense, keyword>>, TopN) /\ TopN \in Nat \ {0}
    BY <1>1, ListingsAssumption DEF FusionInv
  <2>3. PICK t \in Sorted(scores), v \in Seq(DOMAIN scores) :
               fused = {v} /\ Cut(v, t, TopN)
    BY <2>1, <2>2, FusionIsTruncated, Zenon
  <2>4. Scored(scores)
    BY <2>1, ScoresAreScored
  <2>5. DOMAIN scores = Either
    BY <2>1, ScoresAreNumbers DEF Either
  <2>6. ASSUME NEW a \in Both, NEW b \in Either \ Both
        PROVE  scores[a] > scores[b]
    <3>0. RrfK \in Nat \ {0}
      BY FusionAssumption
    <3>1. a \in Members(dense) /\ a \in Members(keyword)
      BY DEF Both
    <3>2. scores[a] = one(a) + two(a)
      BY <2>1, <3>1, ScoreOfTwo
    <3>3. scores[b] = one(b) + two(b)
      BY <2>1, ScoreOfTwo DEF Either
    <3>4. /\ RankIn(dense, a) \in 1..Len(dense) /\ RankIn(keyword, a) \in 1..Len(keyword)
      BY <2>1, <3>1, RankIs
    <3>5. /\ P = over(dense, a) * one(a) /\ one(a) \in Nat \ {0}
          /\ P = over(keyword, a) * two(a) /\ two(a) \in Nat \ {0}
      BY <2>1, <3>1, ShareIsQuotient
    <3>6. /\ over(dense, a) \in Nat /\ over(dense, a) <= 2 * RrfK + 1
          /\ over(keyword, a) \in Nat /\ over(keyword, a) <= 2 * RrfK + 1
      <4>1. ASSUME NEW n \in Nat, n <= RrfK + 1, NEW i1 \in 1..n
            PROVE  RrfK + i1 \in Nat /\ RrfK + i1 <= 2 * RrfK + 1
        BY <3>0, <4>1
      <4> QED
        BY <2>1, <3>4, <4>1
    <3>7. P \in Nat
      BY <2>1, DenominatorDivided
    <3>8. \E c \in Nat, z \in Nat \ {0} :
            c >= RrfK + 1 /\ P = c * z /\ scores[b] = z
      <4>1. CASE b \in Members(dense)
        <5>1. b \notin Members(keyword)
          BY <4>1 DEF Both
        <5>2. two(b) = 0
          BY <5>1 DEF Share
        <5>3. P = over(dense, b) * one(b) /\ one(b) \in Nat \ {0}
          BY <2>1, <4>1, ShareIsQuotient
        <5>4. RankIn(dense, b) \in 1..Len(dense)
          BY <2>1, <4>1, RankIs
        <5>5. over(dense, b) \in Nat /\ over(dense, b) >= RrfK + 1
          BY <2>1, <3>0, <5>4
        <5>6. scores[b] = one(b)
          <6> HIDE DEF scores, one, two
          <6> QED
            BY <3>3, <5>2, <5>3
        <5> HIDE DEF scores, one, over, P
        <5> QED
          BY <5>3, <5>5, <5>6
      <4>2. CASE b \notin Members(dense)
        <5>1. b \in Members(keyword)
          BY <4>2 DEF Either
        <5>2. one(b) = 0
          BY <4>2 DEF Share
        <5>3. P = over(keyword, b) * two(b) /\ two(b) \in Nat \ {0}
          BY <2>1, <5>1, ShareIsQuotient
        <5>4. RankIn(keyword, b) \in 1..Len(keyword)
          BY <2>1, <5>1, RankIs
        <5>5. over(keyword, b) \in Nat /\ over(keyword, b) >= RrfK + 1
          BY <2>1, <3>0, <5>4
        <5>6. scores[b] = two(b)
          <6> HIDE DEF scores, one, two
          <6> QED
            BY <3>3, <5>2, <5>3
        <5> HIDE DEF scores, two, over, P
        <5> QED
          BY <5>3, <5>5, <5>6
      <4> QED
        BY <4>1, <4>2
    <3> HIDE DEF scores, one, two, over, P
    <3>9. PICK c \in Nat, z \in Nat \ {0} :
               c >= RrfK + 1 /\ P = c * z /\ scores[b] = z
      BY <3>8
    <3>10. one(a) + two(a) > z
      BY <3>0, <3>5, <3>6, <3>7, <3>9, TwoBeatOne
    <3> QED
      BY <3>2, <3>9, <3>10
  <2> HIDE DEF scores
  <2>7. u = v /\ i \in 1..Len(t) /\ j \in 1..Len(t) /\ u[i] = t[i] /\ u[j] = t[j]
    BY <2>3 DEF Cut
  <2>8. /\ t \in Seq(DOMAIN scores)
        /\ \A g, h \in 1..Len(t) : Ahead(scores, t[g], t[h]) => g < h
    <3>1. t \in Sorted(scores)
      BY <2>3
    <3>2. /\ t \in Seq(DOMAIN scores)
          /\ \A g, h \in 1..Len(t) : /\ g < h => Ahead(scores, t[g], t[h])
                                     /\ Ahead(scores, t[g], t[h]) => g < h
                                     /\ t[g] = t[h] => g = h
      BY <2>4, <3>1, SortedPlaces, Zenon
    <3> QED
      BY <3>2, Zenon
  <2>9. t[i] \in Both /\ t[j] \in Either \ Both
    BY <2>5, <2>7, <2>8
  <2>10. scores[t[i]] > scores[t[j]]
    BY <2>6, <2>9
  <2>11. Ahead(scores, t[i], t[j])
    BY <2>10 DEF Ahead
  <2> QED
    BY <2>7, <2>8, <2>11, Zenon
<1>2. FusionInv => ConsensusFirst
  BY <1>1
<1> QED
  BY <1>2, FusionInvHolds, PTL

-----------------------------------------------------------------------------
(* Promotion.                                                              *)

\* The list with the id at i one place higher.
Promoted(s, i) == [s EXCEPT ![i] = s[i - 1], ![i - 1] = s[i]]

LEMMA PromotedIsListing ==
    ASSUME NEW s, Listing(s), NEW i \in 2..Len(s)
    PROVE  /\ Listing(Promoted(s, i))
           /\ Len(Promoted(s, i)) = Len(s)
           /\ Members(Promoted(s, i)) = Members(s)
           /\ RankIn(s, s[i]) = i /\ RankIn(Promoted(s, i), s[i]) = i - 1
           /\ RankIn(s, s[i - 1]) = i - 1 /\ RankIn(Promoted(s, i), s[i - 1]) = i
           /\ \A id \in Members(s) \ {s[i], s[i - 1]} :
                RankIn(Promoted(s, i), id) = RankIn(s, id)
<1> DEFINE t == Promoted(s, i)
           n == Len(s)
           D == DOMAIN IdOrder
<1>1. /\ n \in Nat /\ i \in 1..n /\ i - 1 \in 1..n /\ i # i - 1
      /\ s \in [1..n -> D] /\ s \in Seq(D)
      /\ \A j, k \in 1..n : s[j] = s[k] => j = k
  BY DEF Listing
<1>2. /\ t \in [1..n -> D] /\ t[i] = s[i - 1] /\ t[i - 1] = s[i]
      /\ \A j \in 1..n : j # i /\ j # i - 1 => t[j] = s[j]
  <2> HIDE DEF n, D
  <2> QED
    BY <1>1 DEF Promoted
<1> HIDE DEF t
<1>3. t \in Seq(D) /\ Len(t) = n
  BY <1>1, <1>2
<1> HIDE DEF n, D
<1>4. ASSUME NEW j \in 1..n, NEW k \in 1..n, t[j] = t[k] PROVE j = k
  <2> DEFINE swap(h) == IF h = i THEN i - 1 ELSE IF h = i - 1 THEN i ELSE h
  <2>1. \A h \in 1..n : swap(h) \in 1..n /\ t[h] = s[swap(h)]
    BY <1>1, <1>2
  <2>2. swap(j) = swap(k)
    <3>1. swap(j) \in 1..n /\ swap(k) \in 1..n /\ s[swap(j)] = s[swap(k)]
      BY <1>4, <2>1
    <3> HIDE DEF swap
    <3> QED
      BY <1>1, <3>1
  <2> QED
    BY <1>1, <2>2
<1>5. Listing(t)
  BY <1>3, <1>4 DEF Listing, n, D
<1>6. ASSUME NEW id PROVE id \in Members(t) <=> id \in Members(s)
  <2>1. \A j \in 1..n : \E k \in 1..n : t[k] = s[j]
    BY <1>1, <1>2
  <2>2. \A j \in 1..n : \E k \in 1..n : s[k] = t[j]
    BY <1>1, <1>2
  <2>3. /\ id \in Members(t) <=> \E j \in 1..n : id = t[j]
        /\ id \in Members(s) <=> \E j \in 1..n : id = s[j]
    BY <1>3 DEF Members, n
  <2> QED
    BY <2>1, <2>2, <2>3
<1>7. ASSUME NEW id \in Members(s)
      PROVE  /\ \A j \in 1..n : s[j] = id => j = RankIn(s, id)
             /\ \A j \in 1..n : t[j] = id => j = RankIn(t, id)
             /\ RankIn(s, id) \in 1..n /\ s[RankIn(s, id)] = id
  <2>1. id \in Members(t)
    BY <1>6
  <2> QED
    BY <1>3, <1>5, <2>1, RankIs DEF n
<1>8. s[i] \in Members(s) /\ s[i - 1] \in Members(s)
  BY <1>1 DEF Members, n
<1>9. ASSUME NEW id \in Members(s) \ {s[i], s[i - 1]}
      PROVE  RankIn(t, id) = RankIn(s, id)
  <2> DEFINE j == RankIn(s, id)
  <2>1. j \in 1..n /\ s[j] = id
    BY <1>7
  <2> HIDE DEF j
  <2>2. j # i /\ j # i - 1
    BY <2>1
  <2>3. t[j] = id
    BY <1>2, <2>1, <2>2
  <2> QED
    BY <1>7, <2>1, <2>3 DEF j
<1>10. Members(t) = Members(s)
  BY <1>6
<1>11. /\ RankIn(s, s[i]) = i /\ RankIn(t, s[i]) = i - 1
       /\ RankIn(s, s[i - 1]) = i - 1 /\ RankIn(t, s[i - 1]) = i
  BY <1>1, <1>2, <1>7, <1>8
<1> QED
  BY <1>3, <1>5, <1>9, <1>10, <1>11 DEF t, n

\* A smaller divisor leaves the greater quotient.
LEMMA QuotientGrows ==
    ASSUME NEW a \in Nat \ {0}, NEW b \in Nat, a <= b, NEW x \in Nat, NEW y \in Nat,
           a * x = b * y
    PROVE  y <= x
<1>1. ASSUME x < y PROVE FALSE
  <2>1. a * (x + 1) <= a * y
    BY <1>1
  <2>2. a * y <= b * y
    OBVIOUS
  <2>3. a * (x + 1) = a * x + a
    OBVIOUS
  <2> DEFINE ax == a * x
             ay == a * y
             b0 == b * y
             a1 == a * (x + 1)
  <2>4. a1 <= ay /\ ay <= b0 /\ a1 = ax + a /\ ax = b0
        /\ ax \in Nat /\ ay \in Nat /\ b0 \in Nat /\ a1 \in Nat
    BY <2>1, <2>2, <2>3
  <2> HIDE DEF ax, ay, b0, a1
  <2> QED
    BY <2>4
<1> QED
  BY <1>1

\* Promotion raises the score of the id promoted, and no other.
LEMMA PromotedScores ==
    ASSUME NEW r, Listing(r), NEW s, Listing(s), NEW i \in 2..Len(r)
    PROVE  /\ DOMAIN Scores(<<Promoted(r, i), s>>) = DOMAIN Scores(<<r, s>>)
           /\ \A id \in DOMAIN Scores(<<r, s>>) :
                id # r[i] => Scores(<<Promoted(r, i), s>>)[id] <= Scores(<<r, s>>)[id]
           /\ Scores(<<Promoted(r, i), s>>)[r[i]] >= Scores(<<r, s>>)[r[i]]
<1> DEFINE t == Promoted(r, i)
           other == r[i - 1]
           P == CommonDenominator(<<r, s>>)
<1>1. /\ Listing(t) /\ Len(t) = Len(r) /\ Members(t) = Members(r)
      /\ RankIn(r, r[i]) = i /\ RankIn(t, r[i]) = i - 1
      /\ RankIn(r, other) = i - 1 /\ RankIn(t, other) = i
      /\ \A id \in Members(r) \ {r[i], other} : RankIn(t, id) = RankIn(r, id)
  BY PromotedIsListing
<1>2. Len(r) \in Nat /\ i \in 1..Len(r) /\ i - 1 \in 1..Len(r) /\ i \in Nat
      /\ i - 1 \in Nat /\ RrfK \in Nat \ {0}
  BY FusionAssumption DEF Listing
<1>3. r[i] \in Members(r) /\ other \in Members(r)
  BY <1>2 DEF Members
<1> HIDE DEF t, other
<1>4. CommonDenominator(<<t, s>>) = P
  <2> DEFINE I(x) == UNION {1..Len(<<x, s>>[l]) : l \in 1..Len(<<x, s>>)}
  <2>1. ASSUME NEW x PROVE I(x) = (1..Len(x)) \cup (1..Len(s))
    <3> DEFINE R == <<x, s>>
    <3>1. R[1] = x /\ R[2] = s /\ 1..Len(R) = {1, 2}
      BY TwoLists
    <3> HIDE DEF R
    <3>2. UNION {1..Len(R[l]) : l \in 1..Len(R)} = (1..Len(x)) \cup (1..Len(s))
      BY <3>1
    <3> QED
      BY <3>2 DEF R
  <2>2. I(t) = I(r)
    BY <1>1, <2>1
  <2>3. \A x : CommonDenominator(<<x, s>>) = ProductSet({RrfK + k : k \in I(x)})
    BY DEF CommonDenominator
  <2> HIDE DEF I
  <2> QED
    BY <2>2, <2>3
<1> HIDE DEF P
<1>5. ASSUME NEW id PROVE Share(t, s, 2, id) = Share(r, s, 2, id)
  <2>1. <<t, s>>[2] = s /\ <<r, s>>[2] = s
    OBVIOUS
  <2> QED
    BY <1>4, <2>1 DEF Share, Contribution, P
<1>6. \A id \in Members(r) :
        /\ Share(t, s, 1, id) \in Nat /\ Share(r, s, 1, id) \in Nat
        /\ RrfK + RankIn(t, id) \in Nat \ {0} /\ RrfK + RankIn(r, id) \in Nat \ {0}
        /\ P = (RrfK + RankIn(t, id)) * Share(t, s, 1, id)
        /\ P = (RrfK + RankIn(r, id)) * Share(r, s, 1, id)
  <2>1. \A id \in Members(r) :
          /\ RrfK + RankIn(r, id) \in Nat \ {0}
          /\ Share(r, s, 1, id) \in Nat \ {0}
          /\ P = (RrfK + RankIn(r, id)) * Share(r, s, 1, id)
    BY ShareIsQuotient DEF P
  <2>2. \A id \in Members(t) :
          /\ RrfK + RankIn(t, id) \in Nat \ {0}
          /\ Share(t, s, 1, id) \in Nat \ {0}
          /\ CommonDenominator(<<t, s>>) = (RrfK + RankIn(t, id)) * Share(t, s, 1, id)
    BY <1>1, ShareIsQuotient
  <2> QED
    BY <1>1, <1>4, <2>1, <2>2
<1>7. Share(r, s, 1, r[i]) <= Share(t, s, 1, r[i])
  <2> DEFINE a == RrfK + RankIn(t, r[i])
             b == RrfK + RankIn(r, r[i])
  <2>1. a \in Nat \ {0} /\ b \in Nat /\ a <= b
    BY <1>1, <1>2
  <2>2. /\ Share(t, s, 1, r[i]) \in Nat /\ Share(r, s, 1, r[i]) \in Nat
        /\ a * Share(t, s, 1, r[i]) = b * Share(r, s, 1, r[i])
    BY <1>3, <1>6
  <2> HIDE DEF a, b
  <2> QED
    BY <2>1, <2>2, QuotientGrows
<1>8. ASSUME NEW id \in Members(r), id # r[i]
      PROVE  Share(t, s, 1, id) <= Share(r, s, 1, id)
  <2> DEFINE a == RrfK + RankIn(r, id)
             b == RrfK + RankIn(t, id)
  <2>1. a \in Nat \ {0} /\ b \in Nat
    BY <1>6
  <2>2. a <= b
    <3>1. CASE id = other
      <4>1. RankIn(r, id) = i - 1 /\ RankIn(t, id) = i
        BY <1>1, <3>1
      <4> QED
        BY <1>2, <4>1
    <3>2. CASE id # other
      <4>1. a = b
        BY <1>1, <1>8, <3>2
      <4> HIDE DEF a, b
      <4> QED
        BY <2>1, <4>1
    <3> QED
      BY <3>1, <3>2
  <2>3. /\ Share(r, s, 1, id) \in Nat /\ Share(t, s, 1, id) \in Nat
        /\ a * Share(r, s, 1, id) = b * Share(t, s, 1, id)
    BY <1>6
  <2> HIDE DEF a, b
  <2> QED
    BY <2>1, <2>2, <2>3, QuotientGrows
<1>9. ASSUME NEW id, id \notin Members(r)
      PROVE  Share(t, s, 1, id) = 0 /\ Share(r, s, 1, id) = 0
  <2>1. <<t, s>>[1] = t /\ <<r, s>>[1] = r
    OBVIOUS
  <2> QED
    BY <1>1, <1>9, <2>1 DEF Share
<1>10. \A id \in Members(r) \cup Members(s) :
         /\ Scores(<<t, s>>)[id] = Share(t, s, 1, id) + Share(t, s, 2, id)
         /\ Scores(<<r, s>>)[id] = Share(r, s, 1, id) + Share(r, s, 2, id)
  BY <1>1, ScoreOfTwo
<1>11. \A id : Share(r, s, 2, id) \in Nat
  BY ShareIsNumber
<1>12. ASSUME NEW id \in Members(r) \cup Members(s), id # r[i]
       PROVE  Scores(<<t, s>>)[id] <= Scores(<<r, s>>)[id]
  <2> DEFINE x == Share(t, s, 1, id)
             y == Share(r, s, 1, id)
             z == Share(r, s, 2, id)
  <2>1. x \in Nat /\ y \in Nat /\ x <= y
    BY <1>6, <1>8, <1>9, <1>12
  <2>2. Scores(<<t, s>>)[id] = x + z /\ Scores(<<r, s>>)[id] = y + z /\ z \in Nat
    BY <1>5, <1>10, <1>11
  <2> HIDE DEF x, y, z
  <2> QED
    BY <2>1, <2>2
<1>13. Scores(<<t, s>>)[r[i]] >= Scores(<<r, s>>)[r[i]]
  <2> DEFINE x == Share(t, s, 1, r[i])
             y == Share(r, s, 1, r[i])
             z == Share(r, s, 2, r[i])
  <2>1. x \in Nat /\ y \in Nat /\ y <= x
    BY <1>3, <1>6, <1>7
  <2>2. Scores(<<t, s>>)[r[i]] = x + z /\ Scores(<<r, s>>)[r[i]] = y + z /\ z \in Nat
    BY <1>3, <1>5, <1>10, <1>11
  <2> HIDE DEF x, y, z
  <2> QED
    BY <2>1, <2>2
<1>14. /\ DOMAIN Scores(<<t, s>>) = Members(r) \cup Members(s)
       /\ DOMAIN Scores(<<r, s>>) = Members(r) \cup Members(s)
  BY <1>1, ScoresAreNumbers
<1> QED
  BY <1>12, <1>13, <1>14 DEF t

LEMMA AheadKept ==
    ASSUME NEW old, NEW new, NEW a, NEW b, Ahead(new, a, b),
           new[a] \in Nat, new[b] \in Nat, old[a] \in Nat, old[b] \in Nat,
           new[a] <= old[a], old[b] <= new[b]
    PROVE  Ahead(old, a, b)
BY DEF Ahead

\* Who is ahead of the promoted id after the promotion was before, so it is
\* no later in the sorted list.
LEMMA PromotedIsNoLater ==
    ASSUME NEW r, Listing(r), NEW s, Listing(s), NEW i \in 2..Len(r),
           NEW u \in Fusions(<<r, s>>, TopN),
           NEW v \in Fusions(<<Promoted(r, i), s>>, TopN),
           NEW p \in 1..Len(u), u[p] = r[i]
    PROVE  \E q \in 1..p : v[q] = r[i]
<1> DEFINE old == Scores(<<r, s>>)
           new == Scores(<<Promoted(r, i), s>>)
           id == r[i]
<1>1. /\ DOMAIN new = DOMAIN old
      /\ \A z \in DOMAIN old : z # id => new[z] <= old[z]
      /\ new[id] >= old[id]
  BY PromotedScores
<1>2. Listing(Promoted(r, i)) /\ Members(Promoted(r, i)) = Members(r)
  BY PromotedIsListing
<1>3. Scored(old) /\ Scored(new)
  BY <1>2, ScoresAreScored
<1>4. id \in DOMAIN old
  <2>1. id \in Members(r)
    BY DEF Members, Listing
  <2>2. DOMAIN old = Members(r) \cup Members(s)
    BY ScoresAreNumbers
  <2> HIDE DEF id, old
  <2> QED
    BY <2>1, <2>2
<1>5. TopN \in Nat \ {0}
  BY ListingsAssumption
<1>6. PICK t \in Sorted(old), u1 \in Seq(DOMAIN old) :
             Fusions(<<r, s>>, TopN) = {u1} /\ Cut(u1, t, TopN)
  BY <1>5, FusionIsTruncated, Zenon
<1>7. PICK t1 \in Sorted(new), v1 \in Seq(DOMAIN new) :
             Fusions(<<Promoted(r, i), s>>, TopN) = {v1} /\ Cut(v1, t1, TopN)
  BY <1>2, <1>5, FusionIsTruncated, Zenon
<1>8. u = u1 /\ v = v1
  BY <1>6, <1>7
<1> HIDE DEF old, new, id
<1>9. t \in Sorted(old) /\ t1 \in Sorted(new)
  BY <1>6, <1>7
<1>10. /\ Len(t) = Cardinality(DOMAIN old) /\ Cardinality(DOMAIN old) \in Nat
       /\ \A k \in 1..Len(t) : Cardinality(AheadOf(old, t[k])) = k - 1
  BY <1>3, <1>9, SortedPlaces
<1>11. /\ Len(t1) = Cardinality(DOMAIN new)
       /\ \A k \in 1..Len(t1) : Cardinality(AheadOf(new, t1[k])) = k - 1
       /\ \A z \in DOMAIN new : \E k \in 1..Len(t1) : t1[k] = z
  BY <1>3, <1>9, SortedPlaces
<1>12. Cardinality(AheadOf(new, id)) <= Cardinality(AheadOf(old, id))
  <2>1. AheadOf(new, id) \in SUBSET AheadOf(old, id)
    <3> SUFFICES ASSUME NEW z \in DOMAIN old, Ahead(new, z, id)
                 PROVE  Ahead(old, z, id)
      BY <1>1 DEF AheadOf
    <3>1. z # id
      BY <1>1, <1>3, <1>4, AheadOrders
    <3>2. /\ new[z] \in Nat /\ old[z] \in Nat /\ new[id] \in Nat /\ old[id] \in Nat
      BY <1>1, <1>3, <1>4 DEF Scored
    <3>3. new[z] <= old[z] /\ old[id] <= new[id]
      BY <1>1, <3>1
    <3> QED
      BY <3>2, <3>3, AheadKept
  <2>2. IsFiniteSet(AheadOf(old, id))
    <3>1. AheadOf(old, id) \in SUBSET DOMAIN old
      BY DEF AheadOf
    <3> QED
      BY <1>3, <3>1, FS_Subset DEF Scored
  <2> QED
    BY <2>1, <2>2, FS_Subset
<1>13. PICK q \in 1..Len(t1) : t1[q] = id
  BY <1>1, <1>4, <1>11
<1>14. p \in 1..Len(t) /\ t[p] = id
  BY <1>6, <1>8 DEF Cut, id
<1>15. Cardinality(AheadOf(new, id)) = q - 1 /\ Cardinality(AheadOf(old, id)) = p - 1
  BY <1>10, <1>11, <1>13, <1>14
<1>16. q <= p /\ q \in 1..p
  BY <1>1, <1>10, <1>11, <1>12, <1>13, <1>14, <1>15
<1>17. Len(v1) = Len(u1)
  BY <1>1, <1>6, <1>7, <1>10, <1>11 DEF Cut
<1>18. q \in 1..Len(v1)
  <2>1. Len(u1) \in Nat /\ p \in 1..Len(u1)
    BY <1>6, <1>8 DEF Cut
  <2> QED
    BY <1>16, <1>17, <2>1
<1>19. v[q] = id
  BY <1>7, <1>8, <1>13, <1>18 DEF Cut
<1> QED
  BY <1>16, <1>19 DEF id

\* PromotionHelps: an id that the dense ranking puts one place higher never
\* loses a place in the fused ranking, whatever k, top_n and the lists.
THEOREM PromotionNeverHurts == Spec => []PromotionHelps
<1>1. ASSUME FusionInv PROVE PromotionHelps
  <2> SUFFICES ASSUME NEW u \in fused, NEW i \in 2..Len(dense),
                      NEW v \in Fusions(<<Promoted(dense, i), keyword>>, TopN),
                      NEW p \in 1..Len(u), u[p] = dense[i]
               PROVE  \E q \in 1..p : v[q] = dense[i]
    BY DEF PromotionHelps, Promoted
  <2>1. Listing(dense) /\ Listing(keyword)
    BY <1>1, RetrievedAreListings
  <2>2. u \in Fusions(<<dense, keyword>>, TopN)
    BY <1>1 DEF FusionInv
  <2> QED
    BY <2>1, <2>2, PromotedIsNoLater
<1>2. FusionInv => PromotionHelps
  BY <1>1
<1> QED
  BY <1>2, FusionInvHolds, PTL

-----------------------------------------------------------------------------
(* The order by fractions.                                                 *)

\* A common factor does not change a comparison.
LEMMA Cancel ==
    ASSUME NEW x \in Nat, NEW y \in Nat, NEW z \in Nat \ {0}
    PROVE  x * z > y * z <=> x > y
<1>1. ASSUME x > y PROVE x * z > y * z
  <2>1. (y + 1) * z <= x * z
    BY <1>1
  <2>2. (y + 1) * z = y * z + z
    OBVIOUS
  <2> DEFINE xz == x * z
             yz == y * z
             y1 == (y + 1) * z
  <2>3. y1 <= xz /\ y1 = yz + z /\ xz \in Nat /\ yz \in Nat /\ y1 \in Nat
    BY <2>1, <2>2
  <2>4. xz > yz
    <3> HIDE DEF xz, yz, y1
    <3> QED
      BY <2>3
  <2> QED
    BY <2>4
<1>2. ASSUME ~(x > y) PROVE ~(x * z > y * z)
  <2>1. x * z <= y * z
    BY <1>2
  <2> DEFINE xz == x * z
             yz == y * z
  <2>2. xz <= yz /\ xz \in Nat /\ yz \in Nat
    BY <2>1
  <2>3. ~(xz > yz)
    <3> HIDE DEF xz, yz
    <3> QED
      BY <2>2
  <2> QED
    BY <2>3
<1> QED
  BY <1>1, <1>2

\* The score of an id is its fraction of the common denominator.
LEMMA ScoreIsFraction ==
    ASSUME Listing(dense), Listing(keyword), NEW id \in Either
    PROVE  /\ Fraction(id)[1] \in Nat \ {0} /\ Fraction(id)[2] \in Nat \ {0}
           /\ Scores(<<dense, keyword>>)[id] \in Nat
           /\ Scores(<<dense, keyword>>)[id] * Fraction(id)[2]
                = CommonDenominator(<<dense, keyword>>) * Fraction(id)[1]
<1> DEFINE P == CommonDenominator(<<dense, keyword>>)
           x == Share(dense, keyword, 1, id)
           y == Share(dense, keyword, 2, id)
           a == Over(dense, id)
           b == Over(keyword, id)
           score == Scores(<<dense, keyword>>)[id]
<1>1. score = x + y
  BY ScoreOfTwo DEF Either
<1>2. P \in Nat
  BY DenominatorDivided
<1>3. id \in Members(dense) =>
        a \in Nat \ {0} /\ x \in Nat \ {0} /\ P = a * x
  BY ShareIsQuotient DEF Over
<1>4. id \in Members(keyword) =>
        b \in Nat \ {0} /\ y \in Nat \ {0} /\ P = b * y
  BY ShareIsQuotient DEF Over
<1>5. id \notin Members(dense) => x = 0
  <2>1. <<dense, keyword>>[1] = dense
    OBVIOUS
  <2> QED
    BY <2>1 DEF Share
<1>6. id \notin Members(keyword) => y = 0
  <2>1. <<dense, keyword>>[2] = keyword
    OBVIOUS
  <2> QED
    BY <2>1 DEF Share
<1>7. Fraction(id) = IF id \in Members(dense) /\ id \in Members(keyword)
                       THEN <<a + b, a * b>>
                       ELSE IF id \in Members(dense) THEN <<1, a>> ELSE <<1, b>>
  BY DEF Fraction, Both
<1>8. id \in Members(dense) \/ id \in Members(keyword)
  BY DEF Either
<1> HIDE DEF P, x, y, a, b, score
<1>9. CASE id \in Members(dense) /\ id \in Members(keyword)
  <2>1. Fraction(id) = <<a + b, a * b>>
    BY <1>7, <1>9
  <2>2. Fraction(id)[1] = a + b /\ Fraction(id)[2] = a * b
    BY <2>1
  <2>3. a \in Nat \ {0} /\ b \in Nat \ {0} /\ x \in Nat /\ y \in Nat
        /\ P = a * x /\ P = b * y
    BY <1>3, <1>4, <1>9
  <2>4. a + b \in Nat \ {0} /\ a * b \in Nat \ {0}
    <3>1. a + b \in Nat \ {0}
      BY <2>3
    <3>2. \A m, n \in Nat \ {0} : m * n \in Nat \ {0}
      OBVIOUS
    <3> QED
      BY <2>3, <3>1, <3>2
  <2>5. (x + y) * (a * b) = P * (a + b)
    <3>1. (x + y) * (a * b) = x * (a * b) + y * (a * b)
      BY <2>3
    <3>3. x * (a * b) = (a * x) * b /\ y * (a * b) = (b * y) * a
      BY <2>3
    <3>2. P * (a + b) = P * b + P * a
      BY <1>2, <2>3
    <3> QED
      BY <2>3, <3>1, <3>2, <3>3
  <2>6. x + y \in Nat
    BY <2>3
  <2> QED
    BY <1>1, <2>2, <2>4, <2>5, <2>6 DEF P, score
<1>10. CASE id \in Members(dense) /\ id \notin Members(keyword)
  <2>1. Fraction(id) = <<1, a>>
    BY <1>7, <1>10
  <2>2. Fraction(id)[1] = 1 /\ Fraction(id)[2] = a
    BY <2>1
  <2>3. a \in Nat \ {0} /\ x \in Nat /\ y = 0 /\ P = a * x
    BY <1>3, <1>6, <1>10
  <2>4. (x + y) * a = P * 1 /\ x + y \in Nat
    BY <2>3
  <2> QED
    BY <1>1, <2>2, <2>3, <2>4 DEF P, score
<1>11. CASE id \notin Members(dense) /\ id \in Members(keyword)
  <2>1. Fraction(id) = <<1, b>>
    BY <1>7, <1>11
  <2>2. Fraction(id)[1] = 1 /\ Fraction(id)[2] = b
    BY <2>1
  <2>3. b \in Nat \ {0} /\ y \in Nat /\ x = 0 /\ P = b * y
    BY <1>4, <1>5, <1>11
  <2>4. (x + y) * b = P * 1 /\ x + y \in Nat
    BY <2>3
  <2> QED
    BY <1>1, <2>2, <2>3, <2>4 DEF P, score
<1> QED
  BY <1>8, <1>9, <1>10, <1>11

\* So scores compare as fractions do.
LEMMA ScoresCompare ==
    ASSUME Listing(dense), Listing(keyword), NEW i \in Either, NEW j \in Either
    PROVE  /\ Scores(<<dense, keyword>>)[i] > Scores(<<dense, keyword>>)[j]
                <=> Higher(i, j)
           /\ Scores(<<dense, keyword>>)[i] \in Nat
<1> DEFINE P == CommonDenominator(<<dense, keyword>>)
           x == Scores(<<dense, keyword>>)[i]
           y == Scores(<<dense, keyword>>)[j]
           m == Fraction(i)[1]
           n == Fraction(j)[1]
           a == Fraction(i)[2]
           b == Fraction(j)[2]
<1>1. P \in Nat \ {0}
  BY DenominatorDivided
<1>2. /\ m \in Nat \ {0} /\ a \in Nat \ {0} /\ x \in Nat /\ x * a = P * m
      /\ n \in Nat \ {0} /\ b \in Nat \ {0} /\ y \in Nat /\ y * b = P * n
  BY ScoreIsFraction
<1>3. Higher(i, j) <=> m * b > n * a
  BY DEF Higher
<1> HIDE DEF P, x, y, m, n, a, b
<1>4. a * b \in Nat \ {0}
  <2>1. \A c, d \in Nat \ {0} : c * d \in Nat \ {0}
    OBVIOUS
  <2> QED
    BY <1>2, <2>1
<1>5. x * (a * b) = (m * b) * P /\ y * (a * b) = (n * a) * P
  <2>1. x * (a * b) = (x * a) * b /\ (P * m) * b = (m * b) * P
    BY <1>1, <1>2
  <2>2. y * (a * b) = (y * b) * a /\ (P * n) * a = (n * a) * P
    BY <1>1, <1>2
  <2> QED
    BY <1>2, <2>1, <2>2
<1>6. x * (a * b) > y * (a * b) <=> x > y
  BY <1>2, <1>4, Cancel
<1>7. (m * b) * P > (n * a) * P <=> m * b > n * a
  <2>1. m * b \in Nat /\ n * a \in Nat
    BY <1>2
  <2> QED
    BY <1>1, <2>1, Cancel
<1>8. x > y <=> m * b > n * a
  BY <1>5, <1>6, <1>7
<1> QED
  BY <1>2, <1>3, <1>8 DEF x, y

\* RankedByFraction: one result, each id once, by the sum of 1 / (k + rank),
\* cut at top_n.
THEOREM FusionRanksByFraction == Spec => []RankedByFraction
<1>1. ASSUME FusionInv PROVE RankedByFraction
  <2> SUFFICES ASSUME fused # {}
               PROVE  /\ Cardinality(fused) = 1
                      /\ \A s \in fused :
                           /\ Len(s) = IF TopN < Cardinality(Either)
                                         THEN TopN ELSE Cardinality(Either)
                           /\ \A i \in 1..Len(s) : \A id \in Either \ Members(SubSeq(s, 1, i)) :
                                \/ Higher(s[i], id)
                                \/ ~Higher(id, s[i]) /\ IdOrder[s[i]] < IdOrder[id]
    BY DEF RankedByFraction
  <2> DEFINE scores == Scores(<<dense, keyword>>)
  <2>1. Listing(dense) /\ Listing(keyword)
    BY <1>1, RetrievedAreListings
  <2>2. fused = Fusions(<<dense, keyword>>, TopN) /\ TopN \in Nat \ {0}
    BY <1>1, ListingsAssumption DEF FusionInv
  <2>3. PICK t \in Sorted(scores), u \in Seq(DOMAIN scores) :
               Fusions(<<dense, keyword>>, TopN) = {u} /\ Cut(u, t, TopN)
    BY <2>1, <2>2, FusionIsTruncated, Zenon
  <2>4. Scored(scores)
    BY <2>1, ScoresAreScored
  <2>5. DOMAIN scores = Either
    BY <2>1, ScoresAreNumbers DEF Either
  <2>6. \A i, j \in Either : /\ scores[i] > scores[j] <=> Higher(i, j)
                             /\ scores[i] \in Nat
    BY <2>1, ScoresCompare
  <2> HIDE DEF scores
  <2>7. t \in Sorted(scores) /\ fused = {u}
    BY <2>2, <2>3
  <2>8. /\ t \in Seq(Either) /\ Len(t) = Cardinality(Either) /\ Len(t) \in Nat
        /\ \A id \in Either : \E i \in 1..Len(t) : t[i] = id
        /\ \A i, j \in 1..Len(t) : i < j => Ahead(scores, t[i], t[j])
    BY <2>4, <2>5, <2>7, SortedPlaces
  <2>9. Cardinality(fused) = 1
    BY <2>7, FS_Singleton
  <2>10. Len(u) = IF TopN < Cardinality(Either) THEN TopN ELSE Cardinality(Either)
    BY <2>3, <2>8 DEF Cut
  <2>11. ASSUME NEW i \in 1..Len(u), NEW id \in Either \ Members(SubSeq(u, 1, i))
         PROVE  \/ Higher(u[i], id)
                \/ ~Higher(id, u[i]) /\ IdOrder[u[i]] < IdOrder[id]
    <3>1. PICK j \in 1..Len(t) : t[j] = id
      BY <2>8
    <3>2. i \in 1..Len(t) /\ u[i] = t[i] /\ Len(u) \in Nat
          /\ \A k \in 1..i : u[k] = t[k]
      BY <2>3 DEF Cut
    <3>3. i < j
      <4> SUFFICES ASSUME j <= i PROVE FALSE
        BY <2>8, <3>1, <3>2
      <4>1. j \in 1..i /\ u[j] = id
        BY <2>8, <3>1, <3>2
      <4>2. Len(SubSeq(u, 1, i)) = i /\ SubSeq(u, 1, i)[j] = u[j]
        BY <2>3, <3>2, <4>1
      <4>3. id \in Members(SubSeq(u, 1, i))
        BY <4>1, <4>2 DEF Members
      <4> QED
        BY <4>3
    <3>4. Ahead(scores, t[i], id)
      BY <2>8, <3>1, <3>2, <3>3
    <3>5. t[i] \in Either
      BY <2>8, <3>2
    <3>6. /\ scores[t[i]] > scores[id] <=> Higher(t[i], id)
          /\ scores[id] > scores[t[i]] <=> Higher(id, t[i])
          /\ scores[t[i]] \in Nat /\ scores[id] \in Nat
      BY <2>6, <3>5
    <3>7. CASE scores[t[i]] > scores[id]
      BY <3>2, <3>6, <3>7
    <3>8. CASE scores[t[i]] = scores[id] /\ IdOrder[t[i]] < IdOrder[id]
      <4>1. ~(scores[id] > scores[t[i]])
        BY <3>6, <3>8
      <4> QED
        BY <3>2, <3>6, <3>8, <4>1
    <3> QED
      BY <3>4, <3>7, <3>8 DEF Ahead
  <2> QED
    BY <2>7, <2>9, <2>10, <2>11
<1>2. FusionInv => RankedByFraction
  BY <1>1
<1> QED
  BY <1>2, FusionInvHolds, PTL
=============================================================================
