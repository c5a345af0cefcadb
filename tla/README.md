# TLA+ models of hybrid-search-rag

The repository is a retrieval-augmented question answering service: documents
are uploaded, cut into chunks, stored in SQLite, embedded into Pinecone and
indexed for BM25; questions are answered from a fused, reranked selection of
those chunks. This directory models the parts of it that keep state shared by
concurrent requests, checks them with TLC and proves the main results with
TLAPS, together with the path of a request to them and the one offline tool.
Paths below are relative to the repository root.

## 1. The system

| Component | State it keeps | Operations | Talks to |
|---|---|---|---|
| `POST /ingest`, `_run_ingest`, `GET /ingest/{id}` (`src/api/routes.py`) | none of its own; a queued background task per job | accept, run, record the outcome, report | job table, indexing service, hybrid retriever |
| Job table (`src/services/ingest_jobs.py`) | SQLite table `ingest_jobs` | create, mark_running / succeeded / failed, fail_unfinished, get | SQLite |
| Indexing service (`src/services/indexing_service.py`) | none | load, chunk, store, embed, upsert; rebuild BM25 | chunk store, embedder, vector store |
| Chunk store (`src/storage/chunk_store.py`) | SQLite table `chunks` | upsert_chunks, get_chunks, all_chunks | SQLite |
| Vector store (`src/storage/vector_store.py`) | the Pinecone index | ensure_index, upsert, query | Pinecone |
| BM25 index and hybrid retriever (`src/retrieval/`) | the live `BM25Index` reference, per process | query, update_bm25, fuse | vector store, embedder |
| Query service, reranker, generator, citations, LLM client (`src/services/query_service.py`, `src/reranking`, `src/generation`, `src/llm`) | none | answer one question | all of the above, Cohere, Anthropic |
| Rate limiter (`src/api/rate_limit.py`) | timestamps per caller | check, prune, answer 429 | monotonic clock |
| Request path: middleware, key check, body schemas, `/health`, `/ready` (`src/api/observability.py`, `security.py`, `schemas.py`, `routes.py`) | a context variable with the request id | let the request in or turn it away, answer | thread pool, rate limiter, handlers |
| Start-up (`src/api/app.py`) | wiring; `app.state` | build_services, create_app | everything |
| Loader, chunker, ids (`src/ingestion`, `src/models/chunk.py`) | none | bytes to chunks with ids | - |
| Embedder (`src/embeddings/embedder.py`) | none | embed texts in batches | Cohere |
| Score measuring tool (`scripts/measure_rerank_scores.py`) | its place in the probes; the account's allowance | retrieve, rerank, pause, back off, report | stores, Cohere |
| Settings, prompt templates, `main.py` | none that changes | - | - |

Endpoints and their dependencies are synchronous functions, so FastAPI runs
them, and the background tasks they queue, in one pool of threads: any two of
them interleave, and all of them wait for the same threads. What is shared is the two SQLite tables, the Pinecone index, the BM25 reference and the
rate limiter's table. `README.md` asks for a single worker process.

### What is hard in it, and what must be right

- **Ingestion** is a sequence of committed writes to four places (job table,
  chunk table, vector index, live BM25 reference) with no transaction around
  them. Each provider call may fail, be carried out with its reply lost, or be
  cut short by a crash, and other tasks run in between. It must never leave a
  vector or a keyword entry without its row, must say `succeeded` only of
  documents that are in both stores for good, must end every accepted job, and
  must never change the outcome of a job that ended.
- **Ids** depend on the bytes of a file and a position only, so a second
  ingestion of the same bytes rewrites the same rows. Two of them at once, or
  one under another reading of the bytes, is where copies can disagree.
- **The BM25 reference** is rebuilt from a read of the table and then assigned.
  A rebuild must hold everything its task stored, and no query may see an index
  half built.
- **Start-up** retires whatever the job table says is unfinished. That is right
  only if no live task owns such a job. Where a second process does it all the
  same, nothing that was reported as `succeeded` may be taken back.
- **A query** asks two indexes and resolves what they say against a table that
  has moved on meanwhile. Every id must resolve; what reaches the model must be
  relevant, or flagged as not reranked, and in fused order; citations must map
  to what was shown.
- **Fusion** must order by sums of reciprocals with ties, at boundaries such as
  the length at which one list can outweigh two.
- **The rate limiter** reads its clock outside its lock. Its limit, its pruning
  and its retry time are stated as if requests arrived in order. The seconds it
  sends with a 429 are rounded, and must be enough all the same.
- **A client** learns of its job from a reply that may be lost, and may submit the
  same file again while the first task is at work. What it is shown must stay
  true across failures and restarts, and a poller must be shown the end.
- **The request path** runs dependencies, handlers and background tasks on one
  pool of threads. No mix of them may keep a request from its reply, or an accepted
  upload from its task.
- **Chunks and vectors** of a document pass through loops over pages and pieces and
  two kinds of batches of different sizes. Positions must be gapless, and each
  vector must meet the chunk whose text it embeds, at the first attempt or a later
  one over what an earlier one left.
- **The measuring tool** shares ten calls a minute between paced probes, the
  client's own repetitions and its backoff, and prints a rounded threshold that
  must still lie between the two scores it separates. A passing failure of Cohere
  must not cost a run of some minutes.

## 2. The modules

| Module | Models | Extends |
|---|---|---|
| `Documents` | ids, readings of a document, the chunks a reading yields | |
| `Corpus` | chunk table, vector index, live BM25 snapshot per process | `Documents` |
| `IngestJobs` | the job table, one operator per statement | `Documents` |
| `IngestPipeline` | request, background task, process life: the whole of ingestion | `Corpus`, `IngestJobs` |
| `IngestContract` | abstract: what a client of the two ingest endpoints is promised | |
| `IngestProperties` | properties of ingestion; the contract under a refinement mapping | `IngestPipeline` |
| `IngestClients` | clients that submit, lose replies, resubmit and poll | `IngestProperties` |
| `Indexing` | one document: pages, pieces, chunks, texts, vectors, batches | |
| `IndexingProofs` | theorems about one document | `Indexing` |
| `IngestProofs` | theorems about ingestion | `IngestProperties` |
| `ClientProofs` | theorems about clients and the ingestion contract | `IngestClients`, `IngestProofs` |
| `Fusion`, `FusionProperties` | reciprocal rank fusion; what it promises of two rankings | |
| `FoldLemmas` | induction on finite sets, sums and products over them | |
| `FusionProofs` | theorems about fusion | `FusionProperties`, `FoldLemmas` |
| `QueryPipeline` | `POST /query`, composed with ingestion in the same processes | `IngestPipeline`, `Fusion` |
| `QueryProperties`, `QueryProofs` | properties of and theorems about queries | |
| `LimiterContract` | abstract: whom a limiter lets in and whom it may turn away | |
| `RateLimiter` | the sliding-window limiter; the contract under a refinement mapping | |
| `Gateway` | the path of a request: limiter, key, schema, handler, reply, background task | `RateLimiter` |
| `LimiterProofs` | theorems about the limiter, its contract and the path of a request | `Gateway`, `FoldLemmas` |
| `Measurement` | the measuring tool and the account it spends from | |
| `MeasurementProofs` | theorems about the measuring tool | `Measurement`, `FoldLemmas` |
| `MCIngest`, `MCIngestClients`, `MCIndexing`, `MCQuery`, `MCFusion`, `MCRateLimiter`, `MCGateway`, `MCMeasurement` | instances for TLC | |

**State.** `chunks`, `vectors` and `bm25[w]` map a chunk id to the reading its
content was cut from, or to `None`; content is told apart only by reading.
`jobs[j]` is a row of `ingest_jobs`, `upload[j]` what the task was given,
`task[j]` the next step of the task, `sent[j]` how far its vectors have gone,
`snapshot[j]` the rows `rebuild_bm25` has read and `update_bm25` not yet
installed. `process[w]` is `down`, `starting` (inside `create_app`) or `up`.
`query[q]` is the local state of a query handler and, once replied, its reply.

**Steps.** One action is one committed SQLite statement, one provider call, or
one assignment to the live BM25 reference: the points between which the threads
of the pool really interleave. `_run_ingest` is `BeginRun`, then
`StoreChunks` (or `LoadUnreadable`), `EmbedDocuments`,
`HasIndex`, `CreateIndex`, `UpsertBatch` once per batch, `RebuildBm25`,
`SwapBm25`, `RecordOutcome`. `IndexingFails` and `RebuildFails` are its
exceptions, `CreateReplyLost` and `UpsertReplyLost` calls that took effect but
raised. Each exception of indexing is recorded as a failure or, where it is a
`ValueError`, as an unreadable document, whichever call raised it (`Caught`).
`JobWriteFails` an exception of the job table itself. A crash forgets
everything in memory and nothing else.

`QueryService.answer` is `EmbedQuery`, `QueryIndex`, `KeywordAndFuse`,
`ResolveChunks`, `Rerank` (or `RerankFails`), `Generate` (or `GenerateBlank`,
`GenerateFails`); `EmbedFails`, `IndexMissing`, `ReadFails` and `RerankMalformed`
(an answer of the reranker that cannot be read) are its uncaught exceptions. Questions, scores and texts are not described: what the retrievers
rank, which candidates reach the threshold and which numbers the model cites are
chosen freely among what the code lets through.

`RateLimiter.check` is two steps, `ReadClock` before the lock and `Allow` or
`Reject` under it. `Gateway` makes a thread of the limiter a slot that serves one
request after another: `Arrive` is the first half of `dispatch`, `BeginCheck`,
`Admitted` and `TooMany` are `enforce_rate_limit`, `Unauthorized` is
`require_api_key`, `Unprocessable` the schema, `BeginHandler` and `EndHandler` the
five handlers, `Respond` the second half of `dispatch`, `BeginJob` and `EndJob` the
background task. A slot holds a thread of the pool between the two halves of the
check, while its handler runs and while its task runs, as in the server. The
limiter comes before the key and the key before the body, as declared in
`src/api/routes.py`. What `ingest` does in its handler is `Submit` in
`IngestClients`, where the 202 may or may not reach the client, and
`IngestStatus` is one poll.

`Indexing` takes one step per page turn, per piece, for the rows, and per batch of
either kind. A page is the sequence of pieces the splitter returns, some of them
blank; a vector is named by the text it embeds, so a vector under the wrong id
shows. `EmbedBatchShort` is a provider that leaves a text out, `ProviderFails` an
exception of either provider, `IndexAgain` the same document once more.

`Measurement` keeps the calls of the last minute by age in seconds. A probe is
`Retrieve` (Cohere embeds the query), `SearchVectors` (Pinecone), `FetchCandidates`
(SQLite) and `Rerank`. What the stores raise, and an answer of Cohere that does
not have the form expected, is not caught and ends the run at once (`StoreRaises`,
`CohereMalformed`: the step `fault`); what the client of Cohere raises ends it from
`RetrieveRaises` and, after three attempts, from `RerankRaises` (the step
`raised`). A call of that client is up to two failed requests and an answer, or an exception; `Pause` and
`BackOff` are the two sleeps. `Report` computes the suggestion in thousandths and
prints it in hundredths, rounded as `:.2f` does, with either neighbour when it is
half-way.

Operators marked *Slip* are not part of the model. Each is a plausible mistake
in the definition that follows it; putting it in its place makes TLC report the
property named with it in `PROJECT.json`, which shows the property can fail.

## 3. The runs

Runs that pass:

| Run | Instance | Shows |
|---|---|---|
| `ingest` | 1 process, 3 jobs, 2 documents, 2 readings, batches of 2, job-table writes may raise | stores and job table stay consistent through any interleaving, failure, crash and restart |
| `clients` | 1 process, 2 jobs, 1 document of 3 pieces that is unreadable under the other reading, job-table writes do not raise, fairness | what a client is shown stays true, submitting twice does no harm, each job ends and its poller is shown so, and the pipeline implements `IngestContract` |
| `indexing` | every text and every PDF of up to 2 pages of up to 3 pieces, embedding batches of 3, upsert batches of 2 | positions have no gaps, every vector is of the text in its row, and a document that is done is there as a whole, however often it failed before |
| `queries` | 1 query, 2 jobs, 2 documents, top-n of 2 or 3 | a query's ids resolve, its context is relevant or flagged, its citations were shown |
| `two_processes` | 2 processes on one database, 1 query, 1 job, batches of 1, fairness | a process that starts retires the job of a live task of the other: `succeeded` still means complete in both stores and is never taken back; every query is answered or dies with its process, and its ids resolve even where its keyword index is older than what the other process ingested |
| `fusion` | all pairs of rankings of up to 3 of 4 ids, k = 2, top 3 | the fused ranking is the one the definition of RRF gives; agreement of both lists wins; a promotion never costs a place |
| `limiter` | 2 threads, 2 callers, cap 1, 2 requests per 3 units, waits of 1 unit for the lock | the limiter implements `LimiterContract`: nobody is let in beyond the limit and nobody turned away below it, up to the longest wait; the retry time is right up to that wait; the cap is exceeded only by live callers |
| `gateway` | 2 requests at a time, 1 thread, 1 caller, 1 request per 2 seconds, a clock of half seconds, waits of half a second | the first Retry-After since a caller was let in is enough, and every request is served although handlers and tasks share one thread |
| `measurement` | the 17 probes, 10 calls a minute, 2 repetitions, up to 3 passing failures, scores on and about the roundings | without failures no call is refused; one failed request to Cohere never costs the run; the printed threshold separates |

Runs that end in a violation, each a place where a comment or document claims
what the code does not do; `PROJECT.json` quotes the claim:

| Run | What happens |
|---|---|
| `lost_refresh` | task A reads the table, task B stores, reads, swaps and succeeds, A swaps: B's document has left the keyword index |
| `stranded` | `mark_running`, `mark_succeeded` or `mark_failed` raises: the job stays unfinished until a restart |
| `drift` | the same bytes ingested twice at once as two file types: rows of one reading under vectors of the other, both jobs succeeded |

Other departures the models reproduce, for which no run is kept:

- The vectors of a job are in the index while it runs and stay when it fails
  (`UpsertBatch`), so dense retrieval finds them; `README.md:152` says a document
  is not searchable until its job succeeds.
- Two first ingestions both find no index (`HasIndex`) and the second
  `create_index` is refused, so its job fails; `src/storage/vector_store.py:59`
  calls `ensure_index` idempotent.
- The id of a request whose handler raised is not sent back (`dispatch` logs it and
  lets the exception through; in `Respond` the server answers), although `src/api/observability.py:3` speaks of
  every request.
- `src/api/app.py:113` says a job submitted to one worker is invisible to the
  others. The job table is shared: `IngestStatus` of any process shows it. What
  is not shared is its task.
- `scripts/measure_rerank_scores.py:34` means to pace well under the ceiling of ten
  calls. A run in which nothing fails makes exactly ten within a minute; with two
  passing failures in one minute a retrieval call may be refused, which nothing
  catches, and the run is lost (`RetrieveRaises`).
- The retries of the measuring run are for Cohere's reranker only. One failure of
  Pinecone or SQLite, between an answer of Cohere and the next, loses the run and
  what it has measured (`StoreRaises`). `_rerank_with_retry` does not claim more;
  `OneCohereBlipIsAbsorbed` leaves these failures out by name.
- With two hundredths or less between the scores, the printed threshold may equal
  the upper score of the unanswerable probes, and with less than about two thirds
  of a hundredth it may lie above the lowest answerable one, which the comment
  beside it means to avoid. Hence the gap in `SuggestionSeparates`.
- A shorter re-ingestion of the same bytes leaves the tail of the earlier reading
  in the chunk table (`UpsertChunks` never deletes), so its text is held twice in
  different cuts; `PIPELINE.md:18` says re-ingesting never duplicates.
- A second process starting up fails the live jobs of the first
  (`RetireUnfinished`): with two workers `InterruptedIsDead` does not hold.
  `VectorsHaveRows`, `SucceededIsDurable`, `SucceededIsForGood` and `NoStrandedJob`
  do, for any number of processes: they are theorems.
- A provider answering with the wrong number of embeddings is reported to the
  client as an unreadable document (`IndexingFails`), against the comment at
  `src/api/routes.py:185`.
- A query before the first ingestion fails with a 500 (`IndexMissing`), and so does
  one whose embedding call is refused (`EmbedFails`): only the rerank call
  degrades, and not where its answer cannot be read (`RerankMalformed`), although `README.md:216` says the service degrades.
- The limiter's table of callers grows past its ceiling when all of them are
  live (`Lookup`), and times appended out of order make `_prune` drop a caller with
  a live request, or a retry time too long: hence the `MaxStall` in
  `RetryIsOldest` and the `Slack` of `LimiterContract`, without which TLC refutes
  both.

**Bounds.** Two jobs are what every two-task race needs; the third in `ingest`
lets a race meet a finished job. `d1` is one chunk under one reading and three
under the other, so with batches of two there are a short batch, a batch
boundary and a re-ingestion that shrinks; `d2` is unreadable under one reading.
Queries only read, so they do not affect each other: one is enough. With top-n
of 2 and 3 over 3 ids every truncation happens. In `fusion`, lists of three and
k = 2 is the longest length at which `ConsensusFirst` can hold. The sums of the
program are floating-point numbers; over ranks 1 to 20 and k = 60, the default
settings, they order every pair of ranks exactly as the fractions do, ties
included (enumerated outside TLC). In `indexing` six pieces make two full
embedding batches and three upsert batches, and every shorter count makes a short
last batch of one kind or the other; a blank piece, an empty page and a document
without text are among the sources. In `gateway` one thread is the hardest case
for the pool, and a window of two seconds in half seconds lets a wait for the lock
fall on either side of a second. `MaxBlips` of three in `measurement` is one more
than the client repeats by itself, so each call can fail for good. The limiter's
clock runs for two windows, so
entries expire and are replaced. `MaxStall` bounds the time a thread waits for
the lock; the limiter itself has no such bound. Runs that use `SYMMETRY` have no
liveness property.

**Fairness.** `FairSpec` assumes that each step of a queued task is eventually
taken: its calls have timeouts and retry budgets (`src/config.py`) and either
return or raise, and the thread pool runs what is queued. It assumes the same of
`create_app` once it has begun. It does *not* assume that a dead process is ever
started again, since nothing in the repository supervises it: a job of a dead
process may stay unfinished for ever, and `EventuallySettled` says so.
`FairServiceSpec` assumes it of the steps of a query, for the same reason.
`ClientSpec` adds that a client that holds an id goes on polling while some process
serves. `GatewaySpec` assumes that what holds a thread returns or raises, and
strong fairness of the steps that need a thread: the pool hands its threads to
those that wait in order, so none waits while others are served for ever.

## 4. The proofs

Every invariant and action property that a passing run checks is a theorem, and
so are the two refinements; what remains for TLC alone is listed at the end. The
theorems are about every value of the constants: any number of processes, jobs,
requests, documents, readings and chunks, threads and callers, every batch size,
limit, window, k and top-n. They use the named assumptions on constants, in
particular that `None` is none of the values it stands in for, that documents
are finitely many and that the blank piece is none of the texts. Some have a
hypothesis of their own, named with them below.

Ingestion (`IngestProofs`):

- `TypeCorrect`. `TypeOK` alone is not inductive: a task that runs writes what
  its upload says, so `TypeInv` adds that a live task has an upload.
- `SucceededStaysDurable`. `PipelineInv` follows a task: past `StoreChunks` its
  ids are in the table (`JobStored`), the vectors up to `sent` are in the index,
  and a job reads `succeeded` only with both complete (`JobDurable`). It carries
  over from step to step because statements only add rows and vectors and an
  upload never changes (`Monotone`), and because job ids are not reused, so a
  job that has not begun has not succeeded (`NotYetSucceeded`). It holds with
  several processes too, where a retired job's task goes on.
- `SucceededStays`, with any number of processes: a job that has succeeded has no
  live task that could write another outcome, start-up retires only unfinished
  jobs, and job ids are not reused. `FinishedIsFinal` is more, and needs one
  process: a job that was retired under a live task does change again.
- `NoIdWithoutRow`, and from it `KeywordEntriesHaveRows`, rest on the same
  invariant: a batch of vectors belongs to a task that has stored its rows, and a
  snapshot is a copy of the table at a time when it held no more than now.
- `RefreshCovers`: a snapshot was read after its task's rows were committed.
- `NothingStranded`, assuming job-table writes do not raise. `HomeInv`: a live
  task's process is up, and an unfinished job has a live task or a process that
  is not up. The run `stranded` shows the assumption is needed.
- `SoleProcessRows`, from it `SoleProcessInterrupts`, and `SoleProcessFinal`,
  assuming one process. `SoleInv`: a live task's job is unfinished, so every
  status update finds a job it may move. With two processes TLC refutes all three.

Clients and the contract (`ClientProofs`):

- `ResubmittingAddsNothing`, with any number of processes. `OriginInv`: each row
  and each vector is a chunk of some upload, under the reading of that upload. If
  a document has only ever been uploaded under one reading, nothing else of it
  can be stored.
- `ShownStaysTrue`, assuming one process. What was shown was a row of the table
  (`ToldInv`), a job's status only moves forward, and a finished row is final:
  both follow from `SoleInv`.
- `ContractIsKept`, assuming one process: the initial states of the pipeline map
  to the initial state of `IngestContract`, and each step to one of its steps or to a
  stutter. Besides `SoleInv` and `PipelineInv` it needs `RunningInv`, that a
  task which has begun finds its job running: otherwise the step that records an
  outcome would be none of the contract's.

Queries (`QueryProofs`):

- The lemma `ServiceIngests`, that a behaviour of the service is one of
  ingestion, carries all of the above over to the service.
- `NothingSkipped`: between the retrievers and the SELECT a handler holds a
  ranking of stored ids. The dense ids are stored by
  `NoIdWithoutRow`, the keyword ids because the live index came from the table,
  the fused ids because fusion invents none (`FusionsDrawFrom`), and they stay
  stored because rows are never deleted (`Monotone`).
- `QueryTypeCorrect`, `SomethingFound`, `DegradesInOrder`, `RelevantShown` and
  `AnswersGrounded`, all from `QueryInv`, which says what the record of a handler holds
  at each step: what it has retrieved (`Retrieved`), what it may show (`Shown`) and
  what it has cited (`Cited`). The candidates equal the fused ids, not merely a
  selection of them, because every id resolves; that is why cutting them off
  keeps the fused order. That a query finds something rests on its process
  keeping a keyword index that is not empty: what a task swaps in holds the
  chunks of its own document at least, and it has some. That a ranking stays one when part of it is selected is a lemma
  about the fold `Only`.

One document (`IndexingProofs`):

- `PositionsSequential`, `VectorsMatchRows`, `DoneIsWhole`, all from
  `IndexingInv`. Chunks, rows and vectors cannot be compared with each other step
  by step, because an attempt that failed leaves rows and vectors that the next
  one overwrites in a different order. The invariant relates each of them to the
  document instead: the chunk, row or vector at a position is that of the one
  piece with so many pieces before it that say something. That number (`Before`)
  tells pieces apart and leaves none out below the number of them, so two
  values for the same position are of the same piece, and covering all positions
  is covering all pieces. A short answer of the provider enters as `VectorsInv`: the
  vectors are those of all texts asked for, or they are fewer, and then
  `Aligned` rejects them.

Fusion (`FusionProofs`). The transition system is one step; the work is in the
operators. `FoldLemmas` shows that a sum or product over a finite set is
what it should be: every factor divides the common denominator, so the integer
division in `Contribution` is exact (`ContributionIs`), and the score of an id is the
common denominator times its fraction (`ScoreIsFraction`). `SortedIsOne` shows that
there is exactly one ordered listing of the ids, `FusionIsTruncated` that the result
is its beginning.

- `FusionRanksByFraction`: comparing scores is comparing fractions
  (`ScoresCompare`).
- `ConsensusComesFirst`, assuming that no list is longer than k + 1. The least an id
  of both lists can score is 2 / (2k + 1), the most another can is 1 / (k + 1); with
  one place more the two can be equal, and the id decides.
- `PromotionNeverHurts`: raising an id exchanges two scores' terms for one list and
  leaves all others as they were, so whoever is ahead of it afterwards was
  ahead of it before, and its place, the number of ids ahead of it, does not grow.

The limiter and the path of a request (`LimiterProofs`):

- `LimiterTypeCorrect`, `RetryIsForTheOldest`, `CapYieldsToTheLive`, from
  `LimiterInv`: a thread that waits for the lock has read a clock at most `MaxStall`
  behind, and the times of a caller are at most `MaxStall` out of order. The last
  theorem corrected the model: `CapGrowsOnlyWhenLive` used to say that with the table
  past its cap *every* caller that had been in it was live, which three callers refute
  (an expired one is dropped and the table is still past its cap). It now speaks of the
  callers still in it after the step.
- `LimiterKeepsItsContract`, the refinement of `LimiterContract`, with any number of
  threads. The contract remembers every request let in, the limiter only what it
  has not dropped, so `HistoryInv` relates the two both ways. `Backed`: a time the limiter
  holds that can still count has at least as many grants behind it as there are
  entries from it on, so that nobody is turned away below the limit. `Remembered`:
  the grants since some moment are the last entries, so that none is
  forgotten and nobody is let in beyond the limit. Neither can be stated entry
  by entry, because threads append out of order; both count.
- `GatewayTypeCorrect`, `RetryAfterSuffices`, from `GatewayInv`:
  the invariant of the limiter, `RequestInv` (a request that waits for the lock is at
  the limiter), `PoolInv` (no more requests hold a thread than the pool has) and
  `PromiseInv`. The last says that at the time promised to a caller its oldest
  request has expired; it survives other callers, because they can only drop
  entries, and rounding, because the seconds are rounded up.

The measuring tool (`MeasurementProofs`):

- `SuggestionsSeparate` is arithmetic about the two roundings, with either
  neighbour of a half.
- `ProbesArePaced` and `CohereBlipIsAbsorbed`, assuming an allowance of at least ten calls a
  minute and a client that repeats at least once; the code has ten and two.
  `Steady`: the calls of the last minute are at most those of probes
  14 seconds apart, plus one of any age if a request has failed (`Loaded`); their sum
  is bounded through `FoldLemmas`. After a backoff the account is empty.

The proofs about sums go by induction on finite sets, which no library theorem
gives here: those take an operator as parameter, which the provers do not
instantiate. `FoldLemmas` goes by the size of the set instead, from the
least element of a set of naturals (`Least`, `Induction`).

Only model-checked: the properties that need fairness (`EventuallySettled`,
`PollerLearnsTheEnd`, `EveryQueryEnds`, `EveryRequestIsServed`), since liveness and
`ENABLED` are beyond the prover. That fractions and the program's floating-point
sums order alike is outside both (section 3, bounds).

## 5. What is left out

- The text: PDF extraction, the splitter, tokens, embeddings, BM25 and relevance
  scores, prompts. The splitter and the PDF reader are libraries: `Indexing`
  takes any pieces they may return. In the composed models a document is the
  number of chunks each reading yields.
- A provider that answers with too many embeddings for one batch and too few for
  another, so that the total is right: only the total is compared, and no
  document or comment says what the provider guarantees.
- What decides whether a key, a body, a file or a setting is accepted. Each is a
  function of one request; `Gateway` leaves the answer open and keeps its place
  in the order. Malformed JSON is refused by the framework before any of it.
- What `/ready` looks at: its answer is open too. `/health` and `/ready`
  change nothing but, as requests, the limiter and the pool.
- The provider SDKs in the composed models. They answer, raise, or take effect
  and raise; retries inside them are one call. `Measurement`, where the
  repetitions matter, counts them. Reads of the vector index may lag (`UpTo` of
  what it holds), writes are not reordered.
- The time a call takes: in `Measurement` only pauses let time pass, which
  makes the pacing harder to keep, not easier.
- Request ids and the lines logged under them. `dispatch` sets and resets one
  context variable; which handler, thread or background task sees its value is
  decided by how the web framework copies contexts, which is not in the
  repository. A model of it would assume what it then shows.
- The success with no chunks (`src/services/indexing_service.py:71-76`). It takes a
  text that is not blank and a splitter that returns only blank pieces of it; the
  splitter drops white space and nothing else, so `Readable` in `Indexing` and
  `Count(j) > 0` in `IngestPipeline` speak of the pieces where the loader speaks
  of the text.
- Timestamps and titles of jobs and chunks; log formats; parsing of the rate-limit
  setting, the other headers of a 429, and the switch that turns the limiter off.

## Not modelled

`src/config.py` is read once and its values are the constants of the models.
`src/prompts` is text. `main.py` starts the server. Of `src/api/app.py` the wiring
of settings, the refusal to start without a key and the warning about several
workers happen before anything else runs and touch no shared state.

## 6. Plan

Done, in this order: the ingestion core and its stores; its abstract contract;
its inductive invariants and theorems; queries composed with ingestion, on one
process and on two; fusion; the rate limiter and its abstract contract; the clients
of the ingest endpoints; the path of a request through middleware, limiter and
pool; the chunks and vectors of one document, with theorems; the measuring tool;
theorems about clients, queries, fusion, the limiter, the path of a request and
the tool.

Next:

1. The limiter with one thread, or with a lock nobody waits for: `MaxStall` of
   zero gives the contract without slack as a corollary, to be stated.
2. Lemmas towards liveness that need no fairness: which step each live task, query
   and request can take next, as invariants rather than through `ENABLED`.
3. Ingestion from the clients' side: the theorems of `IngestProofs` restated for
   `ClientSpec`, whose steps `ClientProofs` shows to be steps of ingestion.

And modelling more, if the program grows that way: a budget of provider calls
that ingestion and queries share (each call has its own retry budget today), a
start-up that supervises dead processes.
