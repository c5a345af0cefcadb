--------------------------- MODULE QueryPipeline ----------------------------
(***************************************************************************)
(* Answering a question (POST /query, src/services/query_service.py) while *)
(* documents are ingested.  A query runs on one thread of the pool; a step *)
(* of this module is one provider call, one SELECT, or one use of the live *)
(* BM25 reference, and the steps of ingestion come in between.             *)
(*                                                                         *)
(* A question is not described: what the retrievers, the reranker and the  *)
(* language model make of it is chosen among what they may answer.         *)
(***************************************************************************)
EXTENDS IngestPipeline, Fusion, SequencesExt

CONSTANTS
    Queries,    \* requests
    DenseTopN,  \* dense_top_n
    Bm25TopN,   \* bm25_top_n
    FusionTopN, \* fusion_top_n
    RerankTopN  \* rerank_top_n

Replies == {"answer", "fallback", "llm_unavailable", "server_error"}

ASSUME QueryAssumption ==
    /\ {DenseTopN, Bm25TopN, FusionTopN, RerankTopN} \subseteq Nat \ {0}
    /\ DOMAIN IdOrder = ChunkIds
    /\ IsFiniteSet(Docs)
    /\ None \notin Workers \cup Replies

VARIABLE query \* request -> the local state of its handler, then its reply

svars == <<vars, query>>

InService == {"embed", "dense", "keyword", "resolve", "rerank", "generate"}
Rankings == {s \in UNION {[1..n -> ChunkIds] : n \in 0..Cardinality(ChunkIds)} :
               IsInjective(s)}
Numbers == 0..(RerankTopN + 1) \* what the model may cite: 1..N is in range

Query ==
    [step : {"new", "lost", "replied"} \cup InService,
     worker : Workers \cup {None},
     knew : BOOLEAN,               \* history: bm25 was not empty at the start
     hits : Rankings,              \* the dense ids, then the fused ids
     context : Rankings,           \* chunks resolved, then chunks to show
     relevant : SUBSET ChunkIds,   \* chunks that reach the score threshold
     rerank_failed : BOOLEAN,
     reply : Replies \cup {None},
     citations : SUBSET (Numbers \X ChunkIds),
     invalid : SUBSET Numbers]

NewQuery ==
    [step |-> "new", worker |-> None, knew |-> FALSE, hits |-> <<>>,
     context |-> <<>>, relevant |-> {}, rerank_failed |-> FALSE,
     reply |-> None, citations |-> {}, invalid |-> {}]

QueryInit == query = [q \in Queries |-> NewQuery]

\* The rankings of up to n of the ids.
UpTo(n, ids) == {s \in Rankings : Len(s) <= n /\ Members(s) \subseteq ids}
\* The rankings of n of the ids, or of all of them.
Exactly(n, ids) ==
    LET size == IF n < Cardinality(ids) THEN n ELSE Cardinality(ids)
    IN  {s \in UpTo(n, ids) : Len(s) = size}

-----------------------------------------------------------------------------
At(q, step) == query[q].step = step

\* The handler of q moves on: its record becomes r, nothing else changes.
Becomes(q, r) ==
    /\ query' = [query EXCEPT ![q] = r]
    /\ UNCHANGED vars

\* POST /query past its rate limit, key and validation.
Ask(q, w) ==
    /\ At(q, "new")
    /\ process[w] = "up"
    /\ Becomes(q, [query[q] EXCEPT !.step = "embed", !.worker = w,
                                   !.knew = Present(bm25[w]) # {}])

EmbedQuery(q) ==
    At(q, "embed") /\ Becomes(q, [query[q] EXCEPT !.step = "dense"])

\* The provider's index is eventually consistent: it may not show the newest
\* vectors yet.
QueryIndex(q) ==
    /\ At(q, "dense")
    /\ indexExists
    /\ \E hits \in UpTo(DenseTopN, Present(vectors)) :
         Becomes(q, [query[q] EXCEPT !.step = "keyword", !.hits = hits])

\* Slip: the keyword hits are appended to the dense ones.
KeywordAndAppend(q) ==
    /\ At(q, "keyword")
    /\ \E hits \in Exactly(Bm25TopN, Present(bm25[query[q].worker])) :
         Becomes(q, [query[q] EXCEPT !.step = "resolve",
                       !.hits = Truncated(query[q].hits \o hits, FusionTopN)])

\* BM25Index.query returns its top n whatever their scores, zero included;
\* then the two lists are fused.
KeywordAndFuse(q) ==
    /\ At(q, "keyword")
    /\ \E hits \in Exactly(Bm25TopN, Present(bm25[query[q].worker])) :
       \E fused \in Fusions(<<query[q].hits, hits>>, FusionTopN) :
         Becomes(q, [query[q] EXCEPT !.step = "resolve", !.hits = fused])

\* No evidence: the safe fallback, without a call to the model.
Fallback(r) == [r EXCEPT !.step = "replied", !.reply = "fallback",
                         !.context = <<>>]

\* Those of the ids that are listed, in the order of the ranking.
Only(ranking, ids) ==
    FoldLeft(LAMBDA kept, id : IF id \in ids THEN Append(kept, id) ELSE kept,
             <<>>, ranking)

\* get_chunks: the rows there are, in the order of the ids.
Resolved(q) == Only(query[q].hits, Present(chunks))

ResolveChunks(q) ==
    /\ At(q, "resolve")
    /\ Becomes(q,
         IF Resolved(q) = <<>> THEN Fallback(query[q])
           ELSE [query[q] EXCEPT !.step = "rerank", !.context = Resolved(q)])

\* Slip: shows the candidates below the threshold when all of them are.
RerankKeepingAll(q) ==
    /\ At(q, "rerank")
    /\ \E ranked \in Exactly(RerankTopN, Members(query[q].context)) :
       \E relevant \in SUBSET Members(ranked) :
         LET kept == Only(ranked, relevant)
         IN  Becomes(q, [query[q] EXCEPT
               !.step = "generate", !.relevant = relevant,
               !.context = IF kept = <<>> THEN ranked ELSE kept])

\* The provider reorders the candidates and scores them; those below the
\* threshold are dropped.
Rerank(q) ==
    /\ At(q, "rerank")
    /\ \E ranked \in Exactly(RerankTopN, Members(query[q].context)) :
       \E relevant \in SUBSET Members(ranked) :
         LET kept == Only(ranked, relevant)
             scored == [query[q] EXCEPT !.relevant = relevant]
         IN  Becomes(q,
               IF kept = <<>> THEN Fallback(scored)
                 ELSE [scored EXCEPT !.step = "generate", !.context = kept])

\* Slip: degrades to all the candidates.
RerankFailsUncapped(q) ==
    /\ At(q, "rerank")
    /\ Becomes(q, [query[q] EXCEPT !.step = "generate", !.rerank_failed = TRUE])

\* RerankError: the fused order, capped, and the flag.
RerankFails(q) ==
    /\ At(q, "rerank")
    /\ Becomes(q, [query[q] EXCEPT
         !.step = "generate", !.rerank_failed = TRUE,
         !.context = Truncated(query[q].context, RerankTopN)])

\* Slip: the context is numbered from 0.
GenerateFromZero(q) ==
    /\ At(q, "generate")
    /\ \E cited \in SUBSET Numbers :
         LET shown == {n \in cited : n + 1 \in 1..Len(query[q].context)}
         IN  Becomes(q, [query[q] EXCEPT !.step = "replied", !.reply = "answer",
               !.citations = {<<n, query[q].context[n + 1]>> : n \in shown},
               !.invalid = cited \ shown])

\* validate_and_resolve: the cited numbers under which a chunk was shown.
InRange(q, cited) == {n \in cited : n \in 1..Len(query[q].context)}

\* The numbers cited in the answer are resolved against the context that
\* was shown; the others are reported.
Generate(q) ==
    /\ At(q, "generate")
    /\ \E cited \in SUBSET Numbers :
         Becomes(q, [query[q] EXCEPT !.step = "replied", !.reply = "answer",
           !.citations = {<<n, query[q].context[n]>> : n \in InRange(q, cited)},
           !.invalid = cited \ InRange(q, cited)])

\* An empty text from the model.  used_chunk_ids and rerank_failed stay.
GenerateBlank(q) ==
    /\ At(q, "generate")
    /\ Becomes(q, [query[q] EXCEPT !.step = "replied", !.reply = "fallback"])

\* An exception leaves nothing of the answer.
Failed(q, reply) == [NewQuery EXCEPT !.step = "replied", !.reply = reply,
                                     !.worker = query[q].worker]

\* LLMError is the one exception the route catches: 502.
GenerateFails(q) == At(q, "generate") /\ Becomes(q, Failed(q, "llm_unavailable"))

\* What the retrieval raises is not caught: 500.
EmbedFails(q) == At(q, "embed") /\ Becomes(q, Failed(q, "server_error"))

IndexMissing(q) ==
    At(q, "dense") /\ ~indexExists /\ Becomes(q, Failed(q, "server_error"))

\* The reranker's answer is read outside of its try: an index that is not one
\* of the candidates, or a score that is no number, is not a RerankError.
RerankMalformed(q) == At(q, "rerank") /\ Becomes(q, Failed(q, "server_error"))

\* Slip: starts over, without a budget.
ReadRetries(q) ==
    /\ At(q, "dense") \/ At(q, "resolve")
    /\ Becomes(q, [query[q] EXCEPT !.step = "embed"])

ReadFails(q) ==
    /\ At(q, "dense") \/ At(q, "resolve")
    /\ Becomes(q, Failed(q, "server_error"))

QueryStep(q) ==
    \/ EmbedQuery(q) \/ QueryIndex(q) \/ KeywordAndFuse(q) \/ ResolveChunks(q)
    \/ Rerank(q) \/ RerankFails(q) \/ RerankMalformed(q)
    \/ Generate(q) \/ GenerateBlank(q) \/ GenerateFails(q)
    \/ EmbedFails(q) \/ IndexMissing(q) \/ ReadFails(q)

-----------------------------------------------------------------------------
(* The service: queries and ingestion, in the same processes.              *)

\* A handler at work goes with its process.
HandlersFollow ==
    query' = [q \in Queries |->
                IF /\ query[q].step \in InService
                   /\ process'[query[q].worker] = "down"
                  THEN [NewQuery EXCEPT !.step = "lost"]
                  ELSE query[q]]

ServiceInit == Init /\ QueryInit

ServiceNext ==
    \/ Next /\ HandlersFollow
    \/ \E q \in Queries : (\E w \in Workers : Ask(q, w)) \/ QueryStep(q)

ServiceSpec == ServiceInit /\ [][ServiceNext]_svars

\* The provider clients have timeouts and retry budgets, so each call of a
\* handler returns or raises.
FairServiceSpec == ServiceSpec /\ \A q \in Queries : WF_svars(QueryStep(q))
=============================================================================
