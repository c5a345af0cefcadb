------------------------------- MODULE Fusion -------------------------------
(***************************************************************************)
(* Reciprocal rank fusion (src/retrieval/fusion.py): an id scores          *)
(* 1 / (k + rank) in each list it appears in, and the fused ranking is by  *)
(* the sum of its scores, ties broken by id.                               *)
(*                                                                         *)
(* A sum of fractions is kept as an integer over a common denominator, so  *)
(* scores compare exactly.  The floating-point sums of the program order   *)
(* two lists of up to 20 ids with k = 60 in the same way.                  *)
(***************************************************************************)
EXTENDS Integers, Sequences, FiniteSets, FiniteSetsExt

CONSTANTS
    RrfK,   \* rrf_k
    IdOrder \* the order of the id strings: id -> its place

ASSUME FusionAssumption ==
    /\ RrfK \in Nat \ {0}
    /\ \A a, b \in DOMAIN IdOrder :
         IdOrder[a] \in Nat /\ (IdOrder[a] = IdOrder[b] => a = b)

Members(ranking) == {ranking[i] : i \in 1..Len(ranking)}
IdsOf(rankings) == UNION {Members(rankings[l]) : l \in 1..Len(rankings)}

\* Rankings hold no id twice.
RankIn(ranking, id) == CHOOSE i \in 1..Len(ranking) : ranking[i] = id

CommonDenominator(rankings) ==
    ProductSet({RrfK + i : i \in UNION {1..Len(rankings[l]) :
                                          l \in 1..Len(rankings)}})

\* Slip: ranks start at 0.
ContributionFromZero(rankings, l, id) ==
    CommonDenominator(rankings) \div (RrfK + RankIn(rankings[l], id) - 1)

\* What a list contributes to an id, over the common denominator.
Contribution(rankings, l, id) ==
    CommonDenominator(rankings) \div (RrfK + RankIn(rankings[l], id))

ListsWith(rankings, id) ==
    {l \in 1..Len(rankings) : id \in Members(rankings[l])}

\* Slip: scores[chunk_id] = ..., so the last list wins.
LastScore(rankings) ==
    [id \in IdsOf(rankings) |->
       Contribution(rankings, Max(ListsWith(rankings, id)), id)]

Scores(rankings) ==
    [id \in IdsOf(rankings) |->
       MapThenSumSet(LAMBDA l : Contribution(rankings, l, id),
                     ListsWith(rankings, id))]

\* Slip: ascending scores.
AheadAscending(scores, a, b) ==
    \/ scores[a] < scores[b]
    \/ scores[a] = scores[b] /\ IdOrder[a] < IdOrder[b]

\* The sort key (-score, id).
Ahead(scores, a, b) ==
    \/ scores[a] > scores[b]
    \/ scores[a] = scores[b] /\ IdOrder[a] < IdOrder[b]

\* The scored ids, each once, in the order of the key: one way to list them.
Sorted(scores) ==
    {s \in [1..Cardinality(DOMAIN scores) -> DOMAIN scores] :
       \A i, j \in DOMAIN s : i < j => s[i] # s[j] /\ Ahead(scores, s[i], s[j])}

Truncated(s, n) == SubSeq(s, 1, IF n < Len(s) THEN n ELSE Len(s))

\* reciprocal_rank_fusion, as the set of its results.
Fusions(rankings, n) ==
    {Truncated(s, n) : s \in Sorted(Scores(rankings))}
=============================================================================
