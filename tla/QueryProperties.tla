-------------------------- MODULE QueryProperties ---------------------------
(***************************************************************************)
(* What a query may rely on while documents are ingested, fail half-way    *)
(* and processes restart.                                                  *)
(***************************************************************************)
EXTENDS QueryPipeline

QueryTypeOK == query \in [Queries -> Query]

\* ChunkStore.get_chunks: "a missing id is not expected".  Whatever is
\* ingested, fails or is retired between the two retrievers and the SELECT,
\* each id a query has been given resolves to a row.
NoSkippedId ==
    \A q \in Queries : query[q].step \in {"keyword", "resolve"} =>
        Members(query[q].hits) \subseteq Present(chunks)

\* HybridRetriever.update_bm25: a concurrent query reads the old or the new
\* index, never a half-built one.  A query that began when the keyword index
\* had entries finds something, and what it found resolves.
NeverEmptyHanded ==
    \A q \in Queries : query[q].step = "resolve" /\ query[q].knew =>
        Members(query[q].hits) \cap Present(chunks) # {}

\* QueryService: when reranking fails, the model is shown the fusion-ranked
\* top N: the very ids that were fused, in their order, none skipped.
DegradedInFusionOrder ==
    \A q \in Queries : query[q].rerank_failed =>
        query[q].context = Truncated(query[q].hits, RerankTopN)

\* QueryService: text below the relevance bar reaches neither the model nor
\* the caller, unless the reply says that reranking failed.
RelevantOrFlagged ==
    \A q \in Queries :
        query[q].step = "generate" \/ query[q].reply = "answer" =>
            \/ query[q].rerank_failed
            \/ Members(query[q].context) \subseteq query[q].relevant

\* PIPELINE.md: every citation maps to an existing chunk that is in the
\* final context, under the number it was shown with; and no number within
\* the context is reported invalid.
AnswersAreGrounded ==
    \A q \in Queries : query[q].reply = "answer" =>
        LET context == query[q].context
        IN  /\ context # <<>>
            /\ \A cite \in query[q].citations :
                 /\ cite[1] \in 1..Len(context)
                 /\ cite[2] = context[cite[1]]
                 /\ chunks[cite[2]] # None
            /\ query[q].invalid \cap 1..Len(context) = {}

\* Every query gets a reply, or its process dies first.
EveryQueryEnds ==
    \A q \in Queries :
        query[q].step \in InService ~> query[q].step \in {"replied", "lost"}
=============================================================================
