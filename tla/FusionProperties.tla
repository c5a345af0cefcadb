-------------------------- MODULE FusionProperties --------------------------
(***************************************************************************)
(* What reciprocal_rank_fusion promises of the ranking it makes of a dense *)
(* and a keyword ranking, whichever they are (src/retrieval/fusion.py).    *)
(***************************************************************************)
EXTENDS Fusion

CONSTANTS
    Listings, \* the rankings the retrievers may return
    TopN      \* top_n

\* No retriever returns an id twice.
ASSUME ListingsAssumption ==
    /\ Listings \subseteq Seq(DOMAIN IdOrder)
    /\ \A s \in Listings : \A i, j \in 1..Len(s) : s[i] = s[j] => i = j
    /\ TopN \in Nat \ {0}

VARIABLES
    dense,   \* the dense ranking
    keyword, \* the BM25 ranking
    fused    \* the results of fusing them, {} before

vars == <<dense, keyword, fused>>

Init == dense \in Listings /\ keyword \in Listings /\ fused = {}

Fuse ==
    /\ fused = {}
    /\ fused' = Fusions(<<dense, keyword>>, TopN)
    /\ UNCHANGED <<dense, keyword>>

Spec == Init /\ [][Fuse]_vars

-----------------------------------------------------------------------------
Both == Members(dense) \cap Members(keyword)
Either == Members(dense) \cup Members(keyword)

\* The score of an id as a fraction, from the definition of RRF.
Over(s, id) == RrfK + RankIn(s, id)
Fraction(id) ==
    IF id \in Both
      THEN <<Over(dense, id) + Over(keyword, id), Over(dense, id) * Over(keyword, id)>>
      ELSE <<1, Over(IF id \in Members(dense) THEN dense ELSE keyword, id)>>
Higher(i, j) == Fraction(i)[1] * Fraction(j)[2] > Fraction(j)[1] * Fraction(i)[2]

\* fusion.py: "deduplicated by chunk_id and ordered by fused score
\* descending, with ties broken by chunk_id so the output is deterministic",
\* and truncated to top_n: there is one result, it holds each id once, and
\* nothing it leaves out or puts later has a higher fraction.
RankedByFraction ==
    fused # {} =>
      /\ Cardinality(fused) = 1
      /\ \A s \in fused :
           /\ Len(s) = IF TopN < Cardinality(Either) THEN TopN ELSE Cardinality(Either)
           /\ \A i \in 1..Len(s) : \A id \in Either \ Members(SubSeq(s, 1, i)) :
                \/ Higher(s[i], id)
                \/ ~Higher(id, s[i]) /\ IdOrder[s[i]] < IdOrder[id]

\* What both retrievers found comes before anything only one of them found,
\* however high: true while the lists are no longer than k + 1 (the default
\* settings have 20 and 60).
ConsensusFirst ==
    \A s \in fused : \A i, j \in 1..Len(s) :
        s[i] \in Both /\ s[j] \notin Both => i < j

\* An id a retriever ranks one place higher never loses a place in the
\* fused ranking for it.
PromotionHelps ==
    \A s \in fused, i \in 2..Len(dense) :
        LET promoted == [dense EXCEPT ![i] = dense[i - 1], ![i - 1] = dense[i]]
        IN  \A t \in Fusions(<<promoted, keyword>>, TopN) :
              \A p \in 1..Len(s) : s[p] = dense[i] =>
                \E q \in 1..p : t[q] = dense[i]
=============================================================================
