---------------------------- MODULE QueryProofs -----------------------------
(***************************************************************************)
(* Theorems about queries in the company of ingestion, for any number of   *)
(* requests, processes, jobs and documents and any of the top-n settings.  *)
(***************************************************************************)
EXTENDS QueryProperties, IngestProofs, FoldLemmas

-----------------------------------------------------------------------------
(* Lemmas about rankings.                                                  *)

LEMMA ChunkIdsFinite == IsFiniteSet(ChunkIds) /\ Cardinality(ChunkIds) \in Nat
<1>1. IsFiniteSet(0..MaxPieces - 1)
  BY FS_Interval, DocumentsAssumption
<1> QED
  BY <1>1, FS_Product, FS_CardinalityType, QueryAssumption DEF ChunkIds

\* A ranking lists chunk ids, at positions 1 to its length.
LEMMA RankingIsSequence ==
    ASSUME NEW s \in Rankings
    PROVE  /\ Len(s) \in Nat
           /\ s \in [1..Len(s) -> ChunkIds]
           /\ \A i, k \in 1..Len(s) : s[i] = s[k] => i = k
           /\ Members(s) \subseteq ChunkIds
<1>1. PICK n \in 0..Cardinality(ChunkIds) :
        s \in [1..n -> ChunkIds] /\ IsInjective(s)
  BY DEF Rankings
<1>2. n \in Nat
  BY ChunkIdsFinite
<1>3. Len(s) = n
  BY <1>1, <1>2
<1> QED
  BY <1>1, <1>2, <1>3 DEF Members, IsInjective

\* A list of chunk ids, each at most once, is a ranking.
LEMMA InjectiveIsRanking ==
    ASSUME NEW n \in Nat, NEW s \in [1..n -> ChunkIds],
           \A i, k \in 1..n : s[i] = s[k] => i = k
    PROVE  s \in Rankings
<1>1. IsFiniteSet(1..n) /\ Cardinality(1..n) = n
  BY FS_Interval
<1>2. ~(Cardinality(ChunkIds) < n)
  <2> SUFFICES ASSUME Cardinality(ChunkIds) < n PROVE FALSE
    OBVIOUS
  <2>1. \E i, k \in 1..n : i # k /\ s[i] = s[k]
    BY <1>1, ChunkIdsFinite, FS_PigeonHole
  <2> QED
    BY <2>1
<1>3. n \in 0..Cardinality(ChunkIds)
  BY <1>2, ChunkIdsFinite
<1>4. IsInjective(s)
  BY DEF IsInjective
<1> QED
  BY <1>3, <1>4 DEF Rankings

\* The beginning of a ranking is one.
LEMMA TruncatedRanking ==
    ASSUME NEW s \in Rankings, NEW n \in Nat
    PROVE  /\ Truncated(s, n) \in Rankings
           /\ Members(Truncated(s, n)) \subseteq Members(s)
           /\ n > 0 /\ s # <<>> => Truncated(s, n) # <<>>
<1> DEFINE m == IF n < Len(s) THEN n ELSE Len(s)
           t == SubSeq(s, 1, m)
<1>1. Len(s) \in Nat /\ s \in [1..Len(s) -> ChunkIds] /\ s \in Seq(ChunkIds)
      /\ \A i, k \in 1..Len(s) : s[i] = s[k] => i = k
  BY RankingIsSequence
<1>2. m \in Nat /\ m <= Len(s)
  BY <1>1
<1> HIDE DEF m
<1>3. Len(t) = m /\ \A i \in 1..m : t[i] = s[i]
  BY <1>1, <1>2
<1>4. t \in [1..m -> ChunkIds]
  <2>1. t \in Seq(ChunkIds)
    BY <1>1, <1>2
  <2> HIDE DEF t
  <2>2. t \in [1..Len(t) -> ChunkIds]
    BY <2>1
  <2> QED
    BY <1>3, <2>2
<1>5. t = Truncated(s, n)
  BY DEF Truncated, m
<1> HIDE DEF t
<1>6. \A i \in 1..m : i \in 1..Len(s)
  BY <1>1, <1>2
<1>7. t \in Rankings
  BY <1>1, <1>2, <1>3, <1>4, <1>6, InjectiveIsRanking
<1>8. Members(t) \subseteq Members(s)
  BY <1>3, <1>6 DEF Members
<1>9. n > 0 /\ s # <<>> => m > 0
  BY <1>1 DEF m
<1>10. m > 0 => t # <<>>
  BY <1>3
<1> QED
  BY <1>5, <1>7, <1>8, <1>9, <1>10

\* Only goes through the ranking from its first id to its last.
LEMMA OnlyUnfolds ==
    ASSUME NEW s \in Rankings, NEW ids
    PROVE  \E h : /\ h[{}] = <<>>
                  /\ \A n \in Nat : n + 1 <= Len(s) =>
                       h[1..(n + 1)] = IF s[n + 1] \in ids
                                         THEN Append(h[1..n], s[n + 1])
                                         ELSE h[1..n]
                  /\ Only(s, ids) = h[1..Len(s)]
<1> DEFINE D == 1..Len(s)
           V == Seq(ChunkIds)
           c == [d \in SUBSET D |-> Max(d)]
           op == [p \in D \X V |->
                    IF s[p[1]] \in ids THEN Append(p[2], s[p[1]]) ELSE p[2]]
           Is(g) == g = [d \in SUBSET D |-> IF d = {} THEN <<>> ELSE
                           IF s[Max(d)] \in ids
                             THEN Append(g[d \ {Max(d)}], s[Max(d)])
                             ELSE g[d \ {Max(d)}]]
           h == CHOOSE g : Is(g)
<1>1. Len(s) \in Nat /\ s \in [D -> ChunkIds]
  BY RankingIsSequence
<1>2. \A d \in SUBSET D : d # {} => Max(d) \in d
  BY <1>1, Greatest
<1>3. \A d \in SUBSET D : d # {} => c[d] \in d
  BY <1>2
<1>4. op \in [D \X V -> V]
  BY <1>1
<1>5. IsFiniteSet(D)
  BY <1>1, FS_Interval
<1>6. <<>> \in V
  OBVIOUS
<1> HIDE DEF c, op, D, V
<1>7. PICK g \in [SUBSET D -> V] : IsFold(g, D, <<>>, op, c)
  BY <1>3, <1>4, <1>5, <1>6, FoldExists
<1>8. ASSUME NEW d \in SUBSET D, d # {}
      PROVE  g[d] = IF s[Max(d)] \in ids
                      THEN Append(g[d \ {Max(d)}], s[Max(d)])
                      ELSE g[d \ {Max(d)}]
  <2>1. g[d] = op[<<c[d], g[d \ {c[d]}]>>]
    BY <1>7, <1>8 DEF IsFold
  <2>2. c[d] = Max(d)
    BY DEF c
  <2>3. Max(d) \in D /\ g[d \ {Max(d)}] \in V
    BY <1>2, <1>8
  <2> QED
    BY <2>1, <2>2, <2>3 DEF op
<1>9. g[{}] = <<>>
  BY <1>7 DEF IsFold
<1>10. Is(g)
  BY <1>8, <1>9
<1>11. Is(h)
  BY <1>10
<1> HIDE DEF h
<1>12. Only(s, ids) = h[D]
  BY <1>1 DEF Only, FoldLeft, MapThenFoldSet, h, D
<1>13. ASSUME NEW n \in Nat, n + 1 <= Len(s)
       PROVE  h[1..(n + 1)] = IF s[n + 1] \in ids
                                THEN Append(h[1..n], s[n + 1])
                                ELSE h[1..n]
  <2>1. 1..(n + 1) \in SUBSET D /\ 1..(n + 1) # {}
    BY <1>1, <1>13 DEF D
  <2>2. Max(1..(n + 1)) = n + 1 /\ (1..(n + 1)) \ {n + 1} = 1..n
    BY LastOfPrefix
  <2> DEFINE d == 1..(n + 1)
  <2>3. h[d] = IF s[Max(d)] \in ids
                 THEN Append(h[d \ {Max(d)}], s[Max(d)])
                 ELSE h[d \ {Max(d)}]
    <3>1. d \in SUBSET D /\ d # {}
      BY <2>1
    <3> HIDE DEF d
    <3> QED
      BY <1>11, <3>1
  <2> QED
    BY <2>2, <2>3
<1>14. h[{}] = <<>>
  BY <1>11
<1> QED
  BY <1>12, <1>13, <1>14 DEF D

\* What a selection from the first n ids of s is to be.
Selects(t, s, ids, n) ==
    /\ t \in Seq(ChunkIds)
    /\ \A i \in 1..Len(t) : t[i] \in ids /\ \E k \in 1..n : s[k] = t[i]
    /\ \A i, k \in 1..Len(t) : t[i] = t[k] => i = k
    /\ (\A i \in 1..n : s[i] \in ids) => Len(t) = n /\ \A i \in 1..n : t[i] = s[i]

\* Only keeps the listed ids and no other, in the order of the ranking;
\* where all are listed it keeps the ranking.
LEMMA OnlySelects ==
    ASSUME NEW s \in Rankings, NEW ids
    PROVE  /\ Only(s, ids) \in Rankings
           /\ Members(Only(s, ids)) \subseteq Members(s) \cap ids
           /\ Members(s) \subseteq ids => Only(s, ids) = s
<1>1. PICK h : /\ h[{}] = <<>>
               /\ \A n \in Nat : n + 1 <= Len(s) =>
                    h[1..(n + 1)] = IF s[n + 1] \in ids
                                      THEN Append(h[1..n], s[n + 1])
                                      ELSE h[1..n]
               /\ Only(s, ids) = h[1..Len(s)]
  BY OnlyUnfolds
<1>2. Len(s) \in Nat /\ s \in [1..Len(s) -> ChunkIds]
      /\ \A i, k \in 1..Len(s) : s[i] = s[k] => i = k
  BY RankingIsSequence
<1> DEFINE T == {n \in Nat : n <= Len(s) => Selects(h[1..n], s, ids, n)}
<1>3. 0 \in T
  <2>1. 1..0 = {}
    OBVIOUS
  <2>2. Selects(<<>>, s, ids, 0)
    BY DEF Selects
  <2> QED
    BY <1>1, <2>1, <2>2
<1>4. ASSUME NEW n \in Nat, n \in T PROVE n + 1 \in T
  <2> SUFFICES ASSUME n + 1 <= Len(s) PROVE Selects(h[1..(n + 1)], s, ids, n + 1)
    OBVIOUS
  <2> DEFINE t == h[1..n]
             u == h[1..(n + 1)]
  <2>1. Selects(t, s, ids, n)
    BY <1>2, <1>4
  <2>2. u = IF s[n + 1] \in ids THEN Append(t, s[n + 1]) ELSE t
    BY <1>1
  <2>3. n + 1 \in 1..Len(s) /\ s[n + 1] \in ChunkIds
        /\ \A k \in 1..n : s[k] # s[n + 1]
    BY <1>2
  <2> HIDE DEF t, u
  <2>4. CASE s[n + 1] \in ids
    <3>1. u = Append(t, s[n + 1])
      BY <2>2, <2>4
    <3>2. t \in Seq(ChunkIds) /\ Len(t) \in Nat
      BY <2>1 DEF Selects
    <3>3. u \in Seq(ChunkIds) /\ Len(u) = Len(t) + 1 /\ u[Len(t) + 1] = s[n + 1]
          /\ \A i \in 1..Len(t) : u[i] = t[i]
      BY <2>3, <3>1, <3>2
    <3> HIDE <2>2, <3>1
    <3>4. \A i \in 1..Len(u) : i \in 1..Len(t) \/ i = Len(t) + 1
      BY <3>2, <3>3
    <3>5. \A i \in 1..Len(u) : u[i] \in ids /\ \E k \in 1..(n + 1) : s[k] = u[i]
      <4> SUFFICES ASSUME NEW i \in 1..Len(u)
                   PROVE  u[i] \in ids /\ \E k \in 1..(n + 1) : s[k] = u[i]
        OBVIOUS
      <4>1. CASE i \in 1..Len(t)
        <5>1. u[i] = t[i] /\ t[i] \in ids /\ \E k \in 1..n : s[k] = t[i]
          BY <2>1, <3>3, <4>1 DEF Selects
        <5> QED
          BY <5>1
      <4>2. CASE i = Len(t) + 1
        BY <2>4, <3>3, <4>2
      <4> QED
        BY <3>4, <4>1, <4>2
    <3>6. \A i, k \in 1..Len(u) : u[i] = u[k] => i = k
      <4>1. \A i \in 1..Len(t) : u[i] # s[n + 1]
        BY <2>1, <2>3, <3>3 DEF Selects
      <4>2. \A i, k \in 1..Len(t) : u[i] = u[k] => i = k
        BY <2>1, <3>3 DEF Selects
      <4> QED
        BY <3>3, <3>4, <4>1, <4>2
    <3>7. (\A i \in 1..(n + 1) : s[i] \in ids) =>
            Len(u) = n + 1 /\ \A i \in 1..(n + 1) : u[i] = s[i]
      <4> SUFFICES ASSUME \A i \in 1..(n + 1) : s[i] \in ids
                   PROVE  Len(u) = n + 1 /\ \A i \in 1..(n + 1) : u[i] = s[i]
        OBVIOUS
      <4>1. Len(t) = n /\ \A i \in 1..n : t[i] = s[i]
        <5>1. \A i \in 1..n : s[i] \in ids
          OBVIOUS
        <5> QED
          BY <2>1, <5>1 DEF Selects
      <4> QED
        BY <3>3, <4>1
    <3> QED
      BY <3>3, <3>5, <3>6, <3>7 DEF Selects, u
  <2>5. CASE s[n + 1] \notin ids
    <3>1. u = t
      BY <2>2, <2>5
    <3>2. \A k \in 1..n : k \in 1..(n + 1)
      OBVIOUS
    <3>3. n + 1 \in 1..(n + 1)
      OBVIOUS
    <3> HIDE <2>2
    <3>4. Selects(u, s, ids, n + 1)
      BY <2>1, <2>5, <3>1, <3>2, <3>3 DEF Selects
    <3> QED
      BY <3>4 DEF u
  <2> QED
    BY <2>4, <2>5 DEF u
<1>5. Selects(h[1..Len(s)], s, ids, Len(s))
  <2>1. Len(s) \in T
    <3> HIDE DEF T
    <3> QED
      BY <1>2, <1>3, <1>4, Induction
  <2> QED
    BY <1>2, <2>1
<1> DEFINE t == Only(s, ids)
<1>6. Selects(t, s, ids, Len(s))
  BY <1>1, <1>5
<1> HIDE DEF t
<1>7. Len(t) \in Nat /\ t \in [1..Len(t) -> ChunkIds]
  BY <1>6 DEF Selects
<1>8. t \in Rankings
  BY <1>6, <1>7, InjectiveIsRanking DEF Selects
<1>9. Members(t) \subseteq Members(s) \cap ids
  BY <1>6 DEF Selects, Members
<1>10. ASSUME Members(s) \subseteq ids PROVE t = s
  <2>1. \A i \in 1..Len(s) : s[i] \in ids
    BY <1>10 DEF Members
  <2>2. Len(t) = Len(s) /\ \A i \in 1..Len(s) : t[i] = s[i]
    BY <1>6, <2>1 DEF Selects
  <2> QED
    BY <1>2, <1>7, <2>2
<1> QED
  BY <1>8, <1>9, <1>10 DEF t

\* Fusing two rankings gives a ranking, invents no id, and keeps one if there
\* is one.
LEMMA FusionsRank ==
    ASSUME NEW r1 \in Rankings, NEW r2 \in Rankings, NEW n \in Nat \ {0},
           NEW s \in Fusions(<<r1, r2>>, n)
    PROVE  /\ s \in Rankings
           /\ Members(s) \subseteq Members(r1) \cup Members(r2)
           /\ Members(r1) \cup Members(r2) # {} => s # <<>>
<1> DEFINE rankings == <<r1, r2>>
           ids == IdsOf(rankings)
<1>1. ids = Members(r1) \cup Members(r2)
  <2>1. Len(rankings) = 2 /\ rankings[1] = r1 /\ rankings[2] = r2
    OBVIOUS
  <2>2. 1..2 = {1, 2}
    OBVIOUS
  <2> HIDE DEF rankings
  <2> QED
    BY <2>1, <2>2 DEF IdsOf
<1>2. ids \subseteq ChunkIds
  BY <1>1, RankingIsSequence
<1>3. Cardinality(ids) \in Nat /\ (Cardinality(ids) = 0 => ids = {})
  <2>1. IsFiniteSet(ids)
    BY <1>2, ChunkIdsFinite, FS_Subset
  <2> HIDE DEF ids
  <2> QED
    BY <2>1, FS_CardinalityType, FS_EmptySet
<1>4. PICK t \in Sorted(Scores(rankings)) : s = Truncated(t, n)
  BY DEF Fusions
<1>5. DOMAIN Scores(rankings) = ids
  BY DEF Scores
<1> HIDE DEF rankings, ids
<1>6. /\ t \in [1..Cardinality(ids) -> ids]
      /\ \A i, k \in 1..Cardinality(ids) : i < k => t[i] # t[k]
  BY <1>4, <1>5 DEF Sorted
<1>7. \A i, k \in 1..Cardinality(ids) : t[i] = t[k] => i = k
  BY <1>3, <1>6
<1>8. t \in [1..Cardinality(ids) -> ChunkIds]
  BY <1>2, <1>6
<1>9. t \in Rankings
  BY <1>3, <1>7, <1>8, InjectiveIsRanking
<1>10. Len(t) = Cardinality(ids)
  BY <1>3, <1>6
<1>11. Members(t) \subseteq ids
  BY <1>6, <1>10 DEF Members
<1>12. ids # {} => t # <<>>
  BY <1>3, <1>10
<1> QED
  BY <1>1, <1>4, <1>9, <1>11, <1>12, TruncatedRanking

-----------------------------------------------------------------------------
(* What is proved of ingestion, in the company of queries.                 *)

\* A step of a query leaves everything ingestion knows as it was.
LEMMA QueryStepsRead ==
    ASSUME NEW q \in Queries, (\E w \in Workers : Ask(q, w)) \/ QueryStep(q)
    PROVE  UNCHANGED vars
  BY DEF Ask, QueryStep, EmbedQuery, QueryIndex, KeywordAndFuse, ResolveChunks,
     Rerank, RerankFails, RerankMalformed, Generate, GenerateBlank, GenerateFails,
     EmbedFails, IndexMissing, ReadFails, Becomes

LEMMA ServiceStepIngests == [ServiceNext]_svars => [Next]_vars
  BY QueryStepsRead DEF ServiceNext, svars

\* So all that is proved of ingestion holds of the service (every action of a
\* query is a Becomes, which leaves the variables of ingestion alone).
LEMMA ServiceIngests == ServiceSpec => Spec
  BY ServiceStepIngests, PTL DEF ServiceSpec, ServiceInit, Spec

-----------------------------------------------------------------------------
(* The index a query goes by.                                              *)

\* A process that stays up keeps its keyword index, and once that index has
\* entries it is never left without: what a task swaps in holds the rows of
\* its own document at least.
LEMMA ServedIndexStays ==
    ASSUME PipelineInv, Next, NEW w \in Workers,
           process[w] = "up", process'[w] # "down"
    PROVE  /\ process'[w] = "up"
           /\ Present(bm25[w]) # {} => Present(bm25'[w]) # {}
<1> USE DEF PipelineInv, TypeInv, TypeOK, CorpusTypeOK
<1>1. ASSUME NEW j \in Jobs, NEW u \in Uploads, SubmitIngest(j, u)
      PROVE  UNCHANGED <<process, bm25>>
  BY <1>1 DEF SubmitIngest, corpusVars
<1>2. ASSUME NEW j \in Jobs, TaskStep(j)
      PROVE  /\ UNCHANGED process
             /\ Present(bm25[w]) # {} => Present(bm25'[w]) # {}
  <2>1. UNCHANGED process
    BY <1>2, TaskFrame
  <2>2. CASE SwapBm25(j)
    <3>1. /\ bm25' = [bm25 EXCEPT ![upload[j].worker] = snapshot[j]]
          /\ task[j] = "swap"
      BY <2>2 DEF SwapBm25, UpdateBm25, Goto
    <3>2. Count(j) > 0 /\ Own(j) \subseteq Present(snapshot[j])
      BY <3>1 DEF StoredInv, JobStored, Stored
    <3>3. upload[j] # None
      BY <3>1 DEF LiveHasUpload, Live
    <3>4. upload[j].doc \in Docs /\ Count(j) \in 0..MaxPieces
      BY <3>3, UploadFields
    <3>5. <<upload[j].doc, 0>> \in Own(j)
      <4>1. 0 \in 0..MaxPieces - 1
        BY DocumentsAssumption
      <4>2. <<upload[j].doc, 0>> \in ChunkIds
        BY <3>4, <4>1 DEF ChunkIds
      <4> QED
        BY <3>2, <4>2 DEF Own, Pieces, FirstPieces, Count
    <3> QED
      BY <2>1, <3>1, <3>2, <3>5
  <2>3. CASE ~SwapBm25(j)
    <3>1. UNCHANGED bm25
      BY <1>2, <2>3 DEF TaskStep, BeginRun, LoadUnreadable, StoreChunks,
         EmbedDocuments, HasIndex, CreateIndex, UpsertBatch, IndexingFails,
         CreateReplyLost, UpsertReplyLost, RebuildBm25, RebuildFails,
         RecordOutcome, JobWriteFails, corpusVars
    <3> QED
      BY <2>1, <3>1
  <2> QED
    BY <2>2, <2>3
<1>3. ASSUME NEW v \in Workers, ProcessStep(v)
      PROVE  process'[w] = "up" /\ bm25'[w] = bm25[w]
  <2>1. CASE Crash(v)
    BY <2>1 DEF Crash, UpdateBm25
  <2>2. CASE BuildServices(v)
    BY <2>2 DEF BuildServices, UpdateBm25
  <2>3. CASE RetireUnfinished(v)
    BY <2>3 DEF RetireUnfinished, corpusVars
  <2> QED
    BY <1>3, <2>1, <2>2, <2>3 DEF ProcessStep
<1> QED
  BY <1>1, <1>2, <1>3 DEF Next

-----------------------------------------------------------------------------
(* What holds of the record of a handler, whatever step it has reached.    *)

\* A handler at work has a process and no reply.
Served(r) ==
    r.step \in InService =>
        r.worker \in Workers /\ process[r.worker] = "up" /\ r.reply = None

\* From the retrievers to the reranker it holds stored ids, and some if the
\* keyword index of its process had any.
Retrieved(r) ==
    /\ r.step \in {"embed", "dense", "keyword"} /\ r.knew =>
         Present(bm25[r.worker]) # {}
    /\ r.step \in {"keyword", "resolve", "rerank"} =>
         Members(r.hits) \subseteq Present(chunks)
    /\ r.step = "resolve" /\ r.knew => r.hits # <<>>
    /\ r.step = "rerank" => r.context = r.hits /\ r.hits # <<>>

\* It goes on without a reranker only from the fused order, and shows the
\* model nothing but stored chunks.
Shown(r) ==
    /\ r.step \in InService \ {"generate"} => ~r.rerank_failed
    /\ r.rerank_failed => r.context = Truncated(r.hits, RerankTopN)
    /\ r.step = "generate" \/ r.reply = "answer" =>
         /\ r.context # <<>>
         /\ Members(r.context) \subseteq Present(chunks)
         /\ r.rerank_failed \/ Members(r.context) \subseteq r.relevant

\* What it cites, it was shown.
Cited(r) ==
    r.reply = "answer" =>
        /\ \A cite \in r.citations :
             cite[1] \in 1..Len(r.context) /\ cite[2] = r.context[cite[1]]
        /\ r.invalid \cap 1..Len(r.context) = {}

\* Before it is taken it holds nothing.
Fresh(r) == r.step = "new" => r.reply = None /\ ~r.rerank_failed

Sound(r) == r \in Query /\ Fresh(r) /\ Served(r) /\ Retrieved(r) /\ Shown(r) /\ Cited(r)

QueryInv ==
    /\ query = [q \in Queries |-> query[q]]
    /\ \A q \in Queries : Sound(query[q])

\* A step that writes one sound record keeps the invariant.
LEMMA BecomesSound ==
    ASSUME QueryInv, NEW q \in Queries, NEW r, Becomes(q, r), Sound(r)
    PROVE  QueryInv'
<1>1. chunks' = chunks /\ bm25' = bm25 /\ process' = process
  BY DEF Becomes, vars, corpusVars
<1>2. \A p \in Queries : query'[p] = IF p = q THEN r ELSE query[p]
  BY DEF Becomes, QueryInv
<1>3. ASSUME NEW p \in Queries PROVE Sound(query[p])'
  <2>1. Sound(query'[p])
    BY <1>2 DEF QueryInv
  <2> QED
    BY <1>1, <2>1 DEF Sound, Fresh, Served, Retrieved, Shown, Cited, Present
<1>4. query' = [p \in Queries |-> query'[p]]
  BY DEF Becomes, QueryInv
<1> QED
  BY <1>3, <1>4 DEF QueryInv

LEMMA EmptyRanking == <<>> \in Rankings /\ Members(<<>>) = {}
<1>1. <<>> \in [1..0 -> ChunkIds] /\ 0 \in Nat /\ 1..0 = {}
  OBVIOUS
<1>2. <<>> \in Rankings
  BY <1>1, InjectiveIsRanking
<1>3. Members(<<>>) = {}
  BY DEF Members
<1> QED
  BY <1>2, <1>3

LEMMA NewIsQuery == NewQuery \in Query
  BY EmptyRanking DEF NewQuery, Query

LEMMA NoReply == None # "answer"
  BY QueryAssumption DEF Replies

\* A record that holds nothing but an outcome is sound.
LEMMA OutcomeSound ==
    ASSUME NEW r \in Query, r.step \in {"new", "lost", "replied"},
           ~r.rerank_failed, r.reply # "answer",
           r.step = "new" => r.reply = None
    PROVE  Sound(r)
  BY DEF Sound, Fresh, Served, Retrieved, Shown, Cited, InService

LEMMA FailedSound ==
    ASSUME QueryInv, NEW q \in Queries, NEW reply \in Replies \ {"answer"}
    PROVE  Sound(Failed(q, reply))
<1>1. query[q].worker \in Workers \cup {None}
  BY DEF QueryInv, Sound, Query
<1>2. Failed(q, reply) \in Query
  BY <1>1, EmptyRanking DEF Failed, NewQuery, Query
<1>3. /\ Failed(q, reply).step = "replied"
      /\ Failed(q, reply).reply = reply
      /\ ~Failed(q, reply).rerank_failed
  BY DEF Failed, NewQuery
<1> QED
  BY <1>2, <1>3, OutcomeSound

LEMMA FallbackSound ==
    ASSUME NEW r \in Query, ~r.rerank_failed
    PROVE  Sound(Fallback(r))
<1>1. Fallback(r) \in Query
  BY EmptyRanking DEF Fallback, Query, Replies
<1>2. /\ Fallback(r).step = "replied" /\ Fallback(r).reply = "fallback"
      /\ ~Fallback(r).rerank_failed
  BY DEF Fallback, Query
<1> QED
  BY <1>1, <1>2, OutcomeSound

LEMMA QueryInvInit == QueryInit => QueryInv
<1>1. NewQuery.step = "new" /\ NewQuery.reply = None /\ ~NewQuery.rerank_failed
  BY DEF NewQuery
<1>2. Sound(NewQuery)
  BY <1>1, NoReply, NewIsQuery, OutcomeSound
<1> QED
  BY <1>2 DEF QueryInit, QueryInv
LEMMA QueryInvAsk ==
    ASSUME QueryInv, NEW q \in Queries, NEW w \in Workers, Ask(q, w)
    PROVE  QueryInv'
<1> DEFINE r == [query[q] EXCEPT !.step = "embed", !.worker = w,
                                 !.knew = Present(bm25[w]) # {}]
<1>1. query[q] \in Query /\ query[q].step = "new" /\ Sound(query[q])
  BY DEF QueryInv, Sound, Ask, At
<1> HIDE DEF r
<1>2. r \in Query
  BY <1>1 DEF r, Query, InService
<1>3. /\ r.step = "embed" /\ r.worker = w /\ (r.knew <=> Present(bm25[w]) # {})
      /\ r.reply = query[q].reply /\ r.rerank_failed = query[q].rerank_failed
  BY <1>1 DEF r, Query
<1>4. process[w] = "up"
  BY DEF Ask
<1>5. query[q].reply = None /\ ~query[q].rerank_failed
  BY <1>1 DEF Sound, Fresh
<1>6. Sound(r)
  BY <1>2, <1>3, <1>4, <1>5, NoReply
  DEF Sound, Fresh, Served, Retrieved, Shown, Cited, InService
<1> QED
  BY <1>6, BecomesSound DEF Ask, r

\* Reading leaves what is known of the index alone.
LEMMA QueryInvRetrieval ==
    ASSUME TypeInv, RowsInv, QueryInv, NEW q \in Queries,
           EmbedQuery(q) \/ QueryIndex(q) \/ KeywordAndFuse(q)
    PROVE  QueryInv'
<1>1. query[q] \in Query /\ Sound(query[q])
  BY DEF QueryInv, Sound
<1>2. CASE EmbedQuery(q)
  <2> DEFINE r == [query[q] EXCEPT !.step = "dense"]
  <2>1. query[q].step = "embed"
    BY <1>2 DEF EmbedQuery, At
  <2>2. r \in Query
    BY <1>1 DEF Query, InService
  <2>3. /\ r.step = "dense" /\ r.worker = query[q].worker
        /\ r.knew = query[q].knew /\ r.reply = query[q].reply
        /\ r.rerank_failed = query[q].rerank_failed
    BY <1>1 DEF Query
  <2> HIDE DEF r
  <2>4. Sound(r)
    BY <1>1, <2>1, <2>2, <2>3, NoReply
    DEF Sound, Fresh, Served, Retrieved, Shown, Cited, InService
  <2> QED
    BY <1>2, <2>4, BecomesSound DEF EmbedQuery, r
<1>3. CASE QueryIndex(q)
  <2>1. PICK hits \in UpTo(DenseTopN, Present(vectors)) :
          Becomes(q, [query[q] EXCEPT !.step = "keyword", !.hits = hits])
    BY <1>3 DEF QueryIndex
  <2> DEFINE r == [query[q] EXCEPT !.step = "keyword", !.hits = hits]
  <2>2. query[q].step = "dense"
    BY <1>3 DEF QueryIndex, At
  <2>3. hits \in Rankings /\ Members(hits) \subseteq Present(chunks)
    BY DEF UpTo, RowsInv, VectorsHaveRows
  <2>4. r \in Query
    BY <1>1, <2>3 DEF Query, InService
  <2>5. /\ r.step = "keyword" /\ r.hits = hits /\ r.worker = query[q].worker
        /\ r.knew = query[q].knew /\ r.reply = query[q].reply
        /\ r.rerank_failed = query[q].rerank_failed
    BY <1>1 DEF Query
  <2> HIDE DEF r
  <2>6. Sound(r)
    BY <1>1, <2>2, <2>3, <2>4, <2>5, NoReply
    DEF Sound, Fresh, Served, Retrieved, Shown, Cited, InService
  <2> QED
    BY <2>1, <2>6, BecomesSound DEF r
<1>4. CASE KeywordAndFuse(q)
  <2>1. /\ query[q].step = "keyword" /\ query[q].worker \in Workers
        /\ query[q].hits \in Rankings
        /\ Members(query[q].hits) \subseteq Present(chunks)
    BY <1>1, <1>4 DEF KeywordAndFuse, At, Sound, Served, Retrieved, InService, Query
  <2>2. PICK hits \in Exactly(Bm25TopN, Present(bm25[query[q].worker])) :
          \E fused \in Fusions(<<query[q].hits, hits>>, FusionTopN) :
            Becomes(q, [query[q] EXCEPT !.step = "resolve", !.hits = fused])
    BY <1>4 DEF KeywordAndFuse
  <2>3. PICK fused \in Fusions(<<query[q].hits, hits>>, FusionTopN) :
          Becomes(q, [query[q] EXCEPT !.step = "resolve", !.hits = fused])
    BY <2>2
  <2> DEFINE r == [query[q] EXCEPT !.step = "resolve", !.hits = fused]
             index == Present(bm25[query[q].worker])
  <2>4. /\ hits \in Rankings /\ Members(hits) \subseteq index
        /\ Len(hits) = IF Bm25TopN < Cardinality(index) THEN Bm25TopN
                                                        ELSE Cardinality(index)
    BY DEF Exactly, UpTo
  <2>5. index \subseteq Present(chunks)
    BY <2>1 DEF RowsInv, IndexFromRows
  <2>6. /\ fused \in Rankings
        /\ Members(fused) \subseteq Members(query[q].hits) \cup Members(hits)
        /\ Members(query[q].hits) \cup Members(hits) # {} => fused # <<>>
    BY <2>1, <2>4, FusionsRank, QueryAssumption
  <2>7. index # {} => fused # <<>>
    <3> SUFFICES ASSUME index # {} PROVE Members(hits) # {}
      BY <2>6
    <3>1. Cardinality(index) \in Nat \ {0}
      <4>1. IsFiniteSet(index)
        BY ChunkIdsFinite, FS_Subset DEF Present
      <4> HIDE DEF index
      <4> QED
        BY <4>1, FS_CardinalityType, FS_EmptySet
    <3>2. Bm25TopN \in Nat \ {0}
      BY QueryAssumption
    <3> HIDE DEF index
    <3>3. Len(hits) \in Nat \ {0}
      BY <2>4, <3>1, <3>2
    <3>4. hits[1] \in Members(hits)
      BY <3>3 DEF Members
    <3> QED
      BY <3>4
  <2>8. r \in Query
    BY <1>1, <2>6 DEF Query, InService
  <2>9. /\ r.step = "resolve" /\ r.hits = fused /\ r.worker = query[q].worker
        /\ r.knew = query[q].knew /\ r.reply = query[q].reply
        /\ r.rerank_failed = query[q].rerank_failed
    BY <1>1 DEF Query
  <2> HIDE DEF r
  <2>10. Sound(r)
    BY <1>1, <2>1, <2>4, <2>5, <2>6, <2>7, <2>8, <2>9, NoReply
    DEF Sound, Fresh, Served, Retrieved, Shown, Cited, InService
  <2> QED
    BY <2>3, <2>10, BecomesSound DEF r
<1> QED
  BY <1>2, <1>3, <1>4
LEMMA QueryInvResolve ==
    ASSUME QueryInv, NEW q \in Queries, ResolveChunks(q)
    PROVE  QueryInv'
<1>1. query[q] \in Query /\ Sound(query[q]) /\ query[q].step = "resolve"
  BY DEF QueryInv, Sound, ResolveChunks, At
<1>2. query[q].hits \in Rankings /\ Members(query[q].hits) \subseteq Present(chunks)
      /\ ~query[q].rerank_failed
  BY <1>1 DEF Query, Sound, Retrieved, Shown, InService
<1>3. Resolved(q) = query[q].hits
  BY <1>2, OnlySelects DEF Resolved
<1> DEFINE r == [query[q] EXCEPT !.step = "rerank", !.context = query[q].hits]
<1>4. ASSUME query[q].hits # <<>> PROVE Sound(r)
  <2>1. r \in Query
    BY <1>1, <1>2 DEF Query, InService
  <2>2. /\ r.step = "rerank" /\ r.hits = query[q].hits /\ r.context = r.hits
        /\ r.worker = query[q].worker /\ r.reply = query[q].reply
        /\ r.rerank_failed = query[q].rerank_failed
    BY <1>1 DEF Query
  <2> HIDE DEF r
  <2> QED
    BY <1>1, <1>2, <1>4, <2>1, <2>2, NoReply
    DEF Sound, Fresh, Served, Retrieved, Shown, Cited, InService
<1>5. Sound(Fallback(query[q]))
  BY <1>1, <1>2, FallbackSound
<1>6. Becomes(q, IF query[q].hits = <<>> THEN Fallback(query[q]) ELSE r)
  BY <1>3 DEF ResolveChunks
<1> HIDE DEF r
<1> QED
  BY <1>4, <1>5, <1>6, BecomesSound

LEMMA QueryInvRerank ==
    ASSUME QueryInv, NEW q \in Queries, Rerank(q)
    PROVE  QueryInv'
<1>1. query[q] \in Query /\ Sound(query[q]) /\ query[q].step = "rerank"
  BY DEF QueryInv, Sound, Rerank, At
<1>2. /\ query[q].context = query[q].hits
      /\ Members(query[q].hits) \subseteq Present(chunks)
      /\ ~query[q].rerank_failed
  BY <1>1 DEF Query, Sound, Retrieved, Shown, InService
<1>3. PICK ranked \in Exactly(RerankTopN, Members(query[q].context)) :
        \E relevant \in SUBSET Members(ranked) :
          LET kept == Only(ranked, relevant)
              scored == [query[q] EXCEPT !.relevant = relevant]
          IN  Becomes(q,
                IF kept = <<>> THEN Fallback(scored)
                  ELSE [scored EXCEPT !.step = "generate", !.context = kept])
  BY DEF Rerank
<1>4. PICK relevant \in SUBSET Members(ranked) :
        LET kept == Only(ranked, relevant)
            scored == [query[q] EXCEPT !.relevant = relevant]
        IN  Becomes(q,
              IF kept = <<>> THEN Fallback(scored)
                ELSE [scored EXCEPT !.step = "generate", !.context = kept])
  BY <1>3
<1> DEFINE kept == Only(ranked, relevant)
           scored == [query[q] EXCEPT !.relevant = relevant]
           r == [scored EXCEPT !.step = "generate", !.context = kept]
<1>5. Becomes(q, IF kept = <<>> THEN Fallback(scored) ELSE r)
  BY <1>4
<1>6. ranked \in Rankings /\ Members(ranked) \subseteq Members(query[q].context)
  BY DEF Exactly, UpTo
<1>7. relevant \in SUBSET ChunkIds
  BY <1>6, RankingIsSequence
<1>8. kept \in Rankings /\ Members(kept) \subseteq Members(ranked) \cap relevant
  BY <1>6, OnlySelects
<1> HIDE DEF kept
<1>9. scored \in Query
  BY <1>1, <1>7 DEF Query
<1>10. /\ scored.rerank_failed = query[q].rerank_failed
       /\ scored.worker = query[q].worker /\ scored.reply = query[q].reply
       /\ scored.relevant = relevant /\ scored.hits = query[q].hits
  BY <1>1 DEF Query
<1> HIDE DEF scored
<1>11. ASSUME kept # <<>> PROVE Sound(r)
  <2>1. r \in Query
    BY <1>8, <1>9 DEF Query, InService
  <2>2. /\ r.step = "generate" /\ r.context = kept
        /\ r.worker = query[q].worker /\ r.reply = query[q].reply
        /\ r.rerank_failed = query[q].rerank_failed /\ r.relevant = relevant
    BY <1>9, <1>10 DEF Query
  <2>3. Members(kept) \subseteq Present(chunks) /\ Members(kept) \subseteq relevant
    BY <1>2, <1>6, <1>8
  <2> HIDE DEF r
  <2> QED
    BY <1>1, <1>2, <1>11, <2>1, <2>2, <2>3, NoReply
    DEF Sound, Fresh, Served, Retrieved, Shown, Cited, InService
<1>12. Sound(Fallback(scored))
  BY <1>2, <1>9, <1>10, FallbackSound
<1> HIDE DEF r
<1> QED
  BY <1>5, <1>11, <1>12, BecomesSound

LEMMA QueryInvRerankFails ==
    ASSUME QueryInv, NEW q \in Queries, RerankFails(q)
    PROVE  QueryInv'
<1> DEFINE top == Truncated(query[q].context, RerankTopN)
           r == [query[q] EXCEPT !.step = "generate", !.rerank_failed = TRUE,
                                 !.context = top]
<1>1. query[q] \in Query /\ Sound(query[q]) /\ query[q].step = "rerank"
  BY DEF QueryInv, Sound, RerankFails, At
<1>2. /\ query[q].context = query[q].hits /\ query[q].hits # <<>>
      /\ query[q].hits \in Rankings
      /\ Members(query[q].hits) \subseteq Present(chunks)
  BY <1>1 DEF Query, Sound, Retrieved
<1>3. RerankTopN \in Nat /\ RerankTopN > 0
  BY QueryAssumption
<1>4. /\ top \in Rankings /\ top # <<>>
      /\ Members(top) \subseteq Members(query[q].hits)
      /\ top = Truncated(query[q].hits, RerankTopN)
  BY <1>2, <1>3, TruncatedRanking
<1> HIDE DEF top
<1>5. r \in Query
  BY <1>1, <1>4 DEF Query, InService
<1>6. /\ r.step = "generate" /\ r.context = top /\ r.hits = query[q].hits
      /\ r.worker = query[q].worker /\ r.reply = query[q].reply
      /\ r.rerank_failed
  BY <1>1 DEF Query
<1> HIDE DEF r
<1>7. Sound(r)
  BY <1>1, <1>2, <1>4, <1>5, <1>6, NoReply
  DEF Sound, Fresh, Served, Retrieved, Shown, Cited, InService
<1> QED
  BY <1>7, BecomesSound DEF RerankFails, r, top

LEMMA QueryInvGenerate ==
    ASSUME QueryInv, NEW q \in Queries, Generate(q) \/ GenerateBlank(q)
    PROVE  QueryInv'
<1>1. query[q] \in Query /\ Sound(query[q]) /\ query[q].step = "generate"
  BY DEF QueryInv, Sound, Generate, GenerateBlank, At
<1>2. CASE Generate(q)
  <2>1. PICK cited \in SUBSET Numbers :
          Becomes(q, [query[q] EXCEPT !.step = "replied", !.reply = "answer",
            !.citations = {<<n, query[q].context[n]>> : n \in InRange(q, cited)},
            !.invalid = cited \ InRange(q, cited)])
    BY <1>2 DEF Generate
  <2> DEFINE shown == InRange(q, cited)
             citations == {<<n, query[q].context[n]>> : n \in shown}
             r == [query[q] EXCEPT !.step = "replied", !.reply = "answer",
                     !.citations = citations, !.invalid = cited \ shown]
  <2>2. \A n \in cited : n \in shown <=> n \in 1..Len(query[q].context)
    BY DEF InRange
  <2>3. shown \subseteq Numbers
    BY DEF InRange
  <2>4. query[q].context \in Rankings
    BY <1>1 DEF Query
  <2>5. query[q].context \in [1..Len(query[q].context) -> ChunkIds]
    BY <2>4, RankingIsSequence
  <2>6. \A n \in shown : n \in 1..Len(query[q].context)
    BY DEF InRange
  <2> HIDE DEF shown
  <2>7. citations \in SUBSET (Numbers \X ChunkIds)
    BY <2>3, <2>5, <2>6
  <2>8. \A cite \in citations :
          /\ cite[1] \in 1..Len(query[q].context)
          /\ cite[2] = query[q].context[cite[1]]
    BY <2>6
  <2> HIDE DEF citations
  <2>9. r \in Query
    BY <1>1, <2>7 DEF Query, Replies
  <2>10. /\ r.step = "replied" /\ r.reply = "answer" /\ r.citations = citations
         /\ r.context = query[q].context /\ r.invalid = cited \ shown
         /\ r.hits = query[q].hits /\ r.relevant = query[q].relevant
         /\ r.rerank_failed = query[q].rerank_failed
    BY <1>1 DEF Query
  <2>11. (cited \ shown) \cap 1..Len(query[q].context) = {}
    BY <2>2
  <2> HIDE DEF r
  <2>12. Served(r) /\ Fresh(r) /\ Retrieved(r) /\ Cited(r)
    BY <2>8, <2>10, <2>11 DEF Served, Fresh, Retrieved, Cited, InService
  <2>13. Shown(r)
    BY <1>1, <2>10 DEF Sound, Shown, InService
  <2> QED
    BY <2>1, <2>9, <2>12, <2>13, BecomesSound DEF Sound, r, citations, shown
<1>3. CASE GenerateBlank(q)
  <2> DEFINE r == [query[q] EXCEPT !.step = "replied", !.reply = "fallback"]
  <2>1. r \in Query
    BY <1>1 DEF Query, Replies
  <2>2. /\ r.step = "replied" /\ r.reply = "fallback"
        /\ r.hits = query[q].hits /\ r.context = query[q].context
        /\ r.rerank_failed = query[q].rerank_failed
    BY <1>1 DEF Query
  <2> HIDE DEF r
  <2>3. Sound(r)
    BY <1>1, <2>1, <2>2
    DEF Sound, Fresh, Served, Retrieved, Shown, Cited, InService
  <2> QED
    BY <1>3, <2>3, BecomesSound DEF GenerateBlank, r
<1> QED
  BY <1>2, <1>3

LEMMA QueryInvFailure ==
    ASSUME QueryInv, NEW q \in Queries,
           \/ RerankMalformed(q) \/ GenerateFails(q)
           \/ EmbedFails(q) \/ IndexMissing(q) \/ ReadFails(q)
    PROVE  QueryInv'
<1>1. {"llm_unavailable", "server_error"} \subseteq Replies \ {"answer"}
  BY DEF Replies
<1> QED
  BY <1>1, FailedSound, BecomesSound
  DEF RerankMalformed, GenerateFails, EmbedFails, IndexMissing, ReadFails

\* Rows are only added and a served index keeps entries, so what a handler
\* holds stays sound while ingestion goes on; a handler that is lost holds
\* nothing.
LEMMA QueryInvIngest ==
    ASSUME PipelineInv, QueryInv, Next, HandlersFollow
    PROVE  QueryInv'
<1>1. Present(chunks) \subseteq Present(chunks')
  BY Monotone DEF PipelineInv
<1>2. ASSUME NEW q \in Queries, query'[q] = query[q],
             query[q].step \in InService => process'[query[q].worker] # "down"
      PROVE  Sound(query[q])'
  <2> DEFINE r == query[q]
  <2>1. Sound(r) /\ query'[q] = r
    BY <1>2 DEF QueryInv
  <2>2. r.step \in InService =>
          /\ r.worker \in Workers /\ process'[r.worker] = "up"
          /\ Present(bm25[r.worker]) # {} => Present(bm25'[r.worker]) # {}
    BY <1>2, <2>1, ServedIndexStays DEF Sound, Served
  <2>3. Served(query[q])' /\ Fresh(query[q])' /\ Cited(query[q])'
    BY <2>1, <2>2 DEF Sound, Served, Fresh, Cited
  <2>4. Retrieved(query[q])' /\ Shown(query[q])'
    <3>1. Present(chunks)' = Present(chunks')
      BY DEF Present
    <3>2. \A w \in Workers : Present(bm25[w])' = Present(bm25'[w])
      BY DEF Present
    <3> QED
      BY <1>1, <2>1, <2>2, <3>1, <3>2 DEF Sound, Retrieved, Shown, InService
  <2>5. (query[q] \in Query)'
    BY <2>1 DEF Sound
  <2> QED
    BY <2>3, <2>4, <2>5 DEF Sound
<1>3. ASSUME NEW q \in Queries, query'[q] = [NewQuery EXCEPT !.step = "lost"]
      PROVE  Sound(query[q])'
  <2> DEFINE r == [NewQuery EXCEPT !.step = "lost"]
  <2>1. r \in Query
    BY EmptyRanking DEF NewQuery, Query
  <2>2. r.step = "lost" /\ ~r.rerank_failed /\ r.reply = None
    BY DEF NewQuery
  <2> HIDE DEF r
  <2> QED
    BY <1>3, <2>1, <2>2, NoReply
    DEF Sound, Served, Fresh, Retrieved, Shown, Cited, InService, r
<1>4. \A q \in Queries : Sound(query[q])'
  BY <1>2, <1>3 DEF HandlersFollow
<1> QED
  BY <1>4 DEF QueryInv, HandlersFollow

LEMMA QueryInvStep ==
    ASSUME PipelineInv, RowsInv, QueryInv, [ServiceNext]_svars
    PROVE  QueryInv'
<1>1. ASSUME NEW q \in Queries, QueryStep(q)
      PROVE  QueryInv'
  BY <1>1, QueryInvRetrieval, QueryInvResolve, QueryInvRerank,
     QueryInvRerankFails, QueryInvGenerate, QueryInvFailure
  DEF QueryStep, PipelineInv
<1>2. CASE UNCHANGED svars
  BY <1>2 DEF svars, vars, corpusVars, QueryInv, Sound, Fresh, Served,
     Retrieved, Shown, Cited, Present
<1> QED
  BY <1>1, <1>2, QueryInvAsk, QueryInvIngest DEF ServiceNext

THEOREM QueriesSound == ServiceSpec => []QueryInv
<1>1. Init => PipelineInv /\ RowsInv
  BY PipelineInvInit, RowsInvInit
<1>2. PipelineInv /\ RowsInv /\ [Next]_vars => PipelineInv' /\ RowsInv'
  BY PipelineInvStep, RowsInvStep
<1> QED
  BY <1>1, <1>2, QueryInvInit, QueryInvStep, ServiceStepIngests, PTL
  DEF ServiceSpec, ServiceInit

-----------------------------------------------------------------------------
(* What follows for every query.                                           *)

\* The record of a handler has its type whatever was answered, lost or
\* refused on the way; the lists it holds name each id once.
THEOREM QueryTypeCorrect == ServiceSpec => []QueryTypeOK
<1>1. QueryInv => QueryTypeOK
  BY DEF QueryInv, Sound, QueryTypeOK
<1> QED
  BY <1>1, QueriesSound, PTL

\* Whatever is ingested, fails or crashes while a query is answered, and
\* however stale the keyword index or the vector index it asked: each id it
\* was given resolves to a row, and get_chunks skips none.
THEOREM NothingSkipped == ServiceSpec => []NoSkippedId
<1>1. QueryInv => NoSkippedId
  BY DEF QueryInv, Sound, Retrieved, NoSkippedId
<1> QED
  BY <1>1, QueriesSound, PTL

\* A query that began when its process had keyword entries finds some chunk
\* that resolves, whatever was swapped in since and however little of the
\* vector index it saw.
THEOREM SomethingFound == ServiceSpec => []NeverEmptyHanded
<1>1. QueryInv => NeverEmptyHanded
  <2> SUFFICES ASSUME QueryInv, NEW q \in Queries, query[q].step = "resolve",
                      query[q].knew
               PROVE  Members(query[q].hits) \cap Present(chunks) # {}
    BY DEF NeverEmptyHanded
  <2>1. /\ query[q].hits # <<>> /\ query[q].hits \in Rankings
        /\ Members(query[q].hits) \subseteq Present(chunks)
    BY DEF QueryInv, Sound, Retrieved, Query
  <2>2. Len(query[q].hits) \in Nat \ {0}
    BY <2>1, RankingIsSequence
  <2>3. query[q].hits[1] \in Members(query[q].hits)
    BY <2>2 DEF Members
  <2> QED
    BY <2>1, <2>3
<1> QED
  BY <1>1, QueriesSound, PTL

\* Without its reranker a query shows the first of the fused ids in their
\* order: that get_chunks may skip ids changes nothing, as it skips none.
THEOREM DegradesInOrder == ServiceSpec => []DegradedInFusionOrder
<1>1. QueryInv => DegradedInFusionOrder
  BY DEF QueryInv, Sound, Shown, DegradedInFusionOrder
<1> QED
  BY <1>1, QueriesSound, PTL

\* Nothing below the relevance bar is shown or answered from, unless the
\* reply carries the flag.
THEOREM RelevantShown == ServiceSpec => []RelevantOrFlagged
<1>1. QueryInv => RelevantOrFlagged
  BY DEF QueryInv, Sound, Shown, RelevantOrFlagged
<1> QED
  BY <1>1, QueriesSound, PTL

\* Every answer cites stored chunks, under the numbers it was shown them by,
\* for as long as the answer is kept.
THEOREM AnswersGrounded == ServiceSpec => []AnswersAreGrounded
<1>1. QueryInv => AnswersAreGrounded
  <2> SUFFICES ASSUME QueryInv, NEW q \in Queries, query[q].reply = "answer"
               PROVE  /\ query[q].context # <<>>
                      /\ \A cite \in query[q].citations :
                           /\ cite[1] \in 1..Len(query[q].context)
                           /\ cite[2] = query[q].context[cite[1]]
                           /\ chunks[cite[2]] # None
                      /\ query[q].invalid \cap 1..Len(query[q].context) = {}
    BY DEF AnswersAreGrounded
  <2>1. Shown(query[q]) /\ Cited(query[q])
    BY DEF QueryInv, Sound
  <2>2. query[q].context # <<>> /\ Members(query[q].context) \subseteq Present(chunks)
    BY <2>1 DEF Shown
  <2>3. \A cite \in query[q].citations :
          cite[1] \in 1..Len(query[q].context) /\ cite[2] = query[q].context[cite[1]]
    BY <2>1 DEF Cited
  <2>4. \A n \in 1..Len(query[q].context) : chunks[query[q].context[n]] # None
    BY <2>2 DEF Members, Present
  <2>5. query[q].invalid \cap 1..Len(query[q].context) = {}
    BY <2>1 DEF Cited
  <2> QED
    BY <2>2, <2>3, <2>4, <2>5
<1> QED
  BY <1>1, QueriesSound, PTL
=============================================================================
