--------------------------- MODULE IngestPipeline ---------------------------
(***************************************************************************)
(* Asynchronous ingestion: the POST /ingest handler, the background task   *)
(* _run_ingest it queues (src/api/routes.py), the indexing service it      *)
(* calls (src/services/indexing_service.py), and the start-up of the       *)
(* process (src/api/app.py).  Handlers and background tasks run in a       *)
(* threadpool, so the steps of different tasks interleave; a step of this  *)
(* module is one committed SQLite statement, one provider call, or one     *)
(* assignment to the live BM25 reference.                                  *)
(***************************************************************************)
EXTENDS Corpus, IngestJobs

CONSTANTS
    BatchSize,       \* vector_upsert_batch_size
    JobWritesMayFail \* whether a write to ingest_jobs may raise

\* What a background task is given.
Uploads == [worker : Workers, doc : Docs, reading : Readings]

ASSUME PipelineAssumption ==
    /\ BatchSize \in Nat \ {0}
    /\ JobWritesMayFail \in BOOLEAN
    /\ None \notin Uploads \cup Errors

VARIABLES
    process, \* per worker: "down", "starting" (inside create_app) or "up"
    upload,  \* job id -> what its background task was given, or None
    task,    \* job id -> the next step of its background task
    sent,    \* job id -> how many of its vectors have been upserted
    snapshot \* job id -> rows read by rebuild_bm25 and not yet swapped in

taskVars == <<upload, task, sent, snapshot>>
vars == <<corpusVars, jobs, process, taskVars>>

Indexing == {"load", "embed", "ensure", "create", "upsert"}
JobWrite == {"queued", "succeed", "reject", "fail"}
Steps == {"idle"} \cup JobWrite \cup Indexing \cup {"refresh", "swap"}

Count(j) == PieceCount[upload[j].doc, upload[j].reading]
Own(j) == Pieces(upload[j].doc, upload[j].reading)
Live(j) == task[j] # "idle"
TasksOf(w) == {j \in Jobs : upload[j] # None /\ upload[j].worker = w}

TypeOK ==
    /\ CorpusTypeOK
    /\ JobsTypeOK
    /\ process \in [Workers -> {"down", "starting", "up"}]
    /\ upload \in [Jobs -> Uploads \cup {None}]
    /\ task \in [Jobs -> Steps]
    /\ sent \in [Jobs -> 0..MaxPieces]
    /\ snapshot \in [Jobs -> Tables]

Init ==
    /\ CorpusInit
    /\ JobsInit
    /\ process = [w \in Workers |-> "down"]
    /\ upload = [j \in Jobs |-> None]
    /\ task = [j \in Jobs |-> "idle"]
    /\ sent = [j \in Jobs |-> 0]
    /\ snapshot = [j \in Jobs |-> EmptyTable]

-----------------------------------------------------------------------------
(* The request, and the task's own steps.                                  *)

Goto(j, from, to) == task[j] = from /\ task' = [task EXCEPT ![j] = to]

\* POST /ingest past its validation: the row is committed, then the task is
\* queued with the services of the process that took the request.
SubmitIngest(j, u) ==
    /\ process[u.worker] = "up"
    /\ Create(j)
    /\ upload' = [upload EXCEPT ![j] = u]
    /\ Goto(j, "idle", "queued")
    /\ UNCHANGED <<corpusVars, process, sent, snapshot>>

BeginRun(j) ==
    /\ Goto(j, "queued", "load")
    /\ MarkRunning(j)
    /\ UNCHANGED <<corpusVars, process, upload, sent, snapshot>>

\* load_bytes raises ValueError: nothing to extract.
LoadUnreadable(j) ==
    /\ Goto(j, "load", "reject")
    /\ Count(j) = 0
    /\ UNCHANGED <<corpusVars, jobs, process, upload, sent, snapshot>>

\* Slip: the connection is closed before the commit.
StoreChunksUncommitted(j) ==
    /\ Goto(j, "load", "embed")
    /\ Count(j) > 0
    /\ UNCHANGED <<corpusVars, jobs, process, upload, sent, snapshot>>

\* load_bytes, chunk_document, and the one transaction of upsert_chunks.
StoreChunks(j) ==
    /\ Goto(j, "load", "embed")
    /\ Count(j) > 0
    /\ UpsertChunks(upload[j].doc, upload[j].reading)
    /\ UNCHANGED <<vectors, indexExists, bm25>>
    /\ UNCHANGED <<jobs, process, upload, sent, snapshot>>

EmbedDocuments(j) ==
    /\ Goto(j, "embed", "ensure")
    /\ UNCHANGED <<corpusVars, jobs, process, upload, sent, snapshot>>

HasIndex(j) ==
    /\ Goto(j, "ensure", IF indexExists THEN "upsert" ELSE "create")
    /\ UNCHANGED <<corpusVars, jobs, process, upload, sent, snapshot>>

\* create_index is refused when another task got there since has_index.
CreateIndex(j) ==
    /\ ~indexExists
    /\ Goto(j, "create", "upsert")
    /\ CreateServerlessIndex
    /\ UNCHANGED <<chunks, vectors, bm25>>
    /\ UNCHANGED <<jobs, process, upload, sent, snapshot>>

NextSent(j) ==
    IF sent[j] + BatchSize < Count(j) THEN sent[j] + BatchSize ELSE Count(j)
Batch(j) == FirstPieces(upload[j].doc, NextSent(j))
              \ FirstPieces(upload[j].doc, sent[j])

\* Slip: returns from inside the loop over the batches.
UpsertFirstBatch(j) ==
    /\ Goto(j, "upsert", "refresh")
    /\ UpsertVectors(Batch(j), upload[j].reading)
    /\ sent' = [sent EXCEPT ![j] = NextSent(j)]
    /\ UNCHANGED <<chunks, indexExists, bm25, jobs, process, upload, snapshot>>

UpsertBatch(j) ==
    /\ Goto(j, "upsert", IF NextSent(j) = Count(j) THEN "refresh" ELSE "upsert")
    /\ UpsertVectors(Batch(j), upload[j].reading)
    /\ sent' = [sent EXCEPT ![j] = NextSent(j)]
    /\ UNCHANGED <<chunks, indexExists, bm25, jobs, process, upload, snapshot>>

\* Slip: retries from the start, without a budget.
IndexingRetries(j) ==
    /\ task[j] \in Indexing
    /\ task' = [task EXCEPT ![j] = "load"]
    /\ UNCHANGED <<corpusVars, jobs, process, upload, sent, snapshot>>

\* Where the task goes on after an exception of index_bytes: a ValueError is
\* taken for an unreadable document, whichever call it came from (fewer vectors
\* than texts, a reply that does not parse), anything else for a failure.
Caught == {"reject", "fail"}

\* A broken PDF, a locked database (the transaction is rolled back), a
\* provider error.
IndexingFails(j) ==
    /\ task[j] \in Indexing
    /\ \E caught \in Caught : task' = [task EXCEPT ![j] = caught]
    /\ UNCHANGED <<corpusVars, jobs, process, upload, sent, snapshot>>

\* The provider carries the call out but its answer is lost.
CreateReplyLost(j) ==
    /\ \E caught \in Caught : Goto(j, "create", caught)
    /\ CreateServerlessIndex
    /\ UNCHANGED <<chunks, vectors, bm25>>
    /\ UNCHANGED <<jobs, process, upload, sent, snapshot>>

UpsertReplyLost(j) ==
    /\ \E caught \in Caught : Goto(j, "upsert", caught)
    /\ UpsertVectors(Batch(j), upload[j].reading)
    /\ UNCHANGED <<chunks, indexExists, bm25>>
    /\ UNCHANGED <<jobs, process, upload, sent, snapshot>>

\* Slip: the index is built from the chunks of the tasks at work.
RebuildFromInFlight(j) ==
    /\ Goto(j, "refresh", "swap")
    /\ \E r \in Readings :
         snapshot' = [snapshot EXCEPT ![j] =
           Write(bm25[upload[j].worker], UNION {Own(i) : i \in {i \in Jobs : Live(i)}}, r)]
    /\ UNCHANGED <<corpusVars, jobs, process, upload, sent>>

\* Slip: the index is rebuilt from a cached reading of the table.
RebuildFromCache(j) ==
    /\ Goto(j, "refresh", "swap")
    /\ snapshot' = [snapshot EXCEPT ![j] = bm25[upload[j].worker]]
    /\ UNCHANGED <<corpusVars, jobs, process, upload, sent>>

\* Slip: the live index is emptied while the next one is built.
RebuildInPlace(j) ==
    /\ Goto(j, "refresh", "swap")
    /\ UpdateBm25(upload[j].worker, EmptyTable)
    /\ snapshot' = [snapshot EXCEPT ![j] = chunks]
    /\ UNCHANGED <<chunks, vectors, indexExists, jobs, process, upload, sent>>

\* rebuild_bm25 reads every row; the index is built from what was read.
RebuildBm25(j) ==
    /\ Goto(j, "refresh", "swap")
    /\ snapshot' = [snapshot EXCEPT ![j] = chunks]
    /\ UNCHANGED <<corpusVars, jobs, process, upload, sent>>

RebuildFails(j) ==
    /\ Goto(j, "refresh", "fail")
    /\ UNCHANGED <<corpusVars, jobs, process, upload, sent, snapshot>>

\* update_bm25 assigns the live reference.
SwapBm25(j) ==
    /\ Goto(j, "swap", "succeed")
    /\ UpdateBm25(upload[j].worker, snapshot[j])
    /\ snapshot' = [snapshot EXCEPT ![j] = EmptyTable]
    /\ UNCHANGED <<chunks, vectors, indexExists, jobs, process, upload, sent>>

\* Slip: the except ValueError branch returns without a word.
OutcomeUnlessRejected(j) ==
    \/ task[j] = "succeed" /\ MarkSucceeded(j, upload[j].doc, Count(j))
    \/ task[j] = "reject" /\ UNCHANGED jobs
    \/ task[j] = "fail" /\ MarkFailed(j, "indexing_failed")

\* The last write of the task, whichever way it went.
Outcome(j) ==
    \/ task[j] = "succeed" /\ MarkSucceeded(j, upload[j].doc, Count(j))
    \/ task[j] = "reject" /\ MarkFailed(j, "unreadable")
    \/ task[j] = "fail" /\ MarkFailed(j, "indexing_failed")

\* Slip: the return after mark_failed is missing.
RecordOutcomeAndGoOn(j) ==
    /\ Outcome(j)
    /\ task' = [task EXCEPT ![j] = IF task[j] = "reject" THEN "refresh" ELSE "idle"]
    /\ UNCHANGED <<corpusVars, process, upload, sent, snapshot>>

RecordOutcome(j) ==
    /\ Outcome(j)
    /\ task' = [task EXCEPT ![j] = "idle"]
    /\ UNCHANGED <<corpusVars, process, upload, sent, snapshot>>

\* mark_running, mark_succeeded and mark_failed run outside the try blocks:
\* what they raise ends the task and nothing else is recorded.
JobWriteFails(j) ==
    /\ JobWritesMayFail
    /\ task[j] \in JobWrite
    /\ task' = [task EXCEPT ![j] = "idle"]
    /\ UNCHANGED <<corpusVars, jobs, process, upload, sent, snapshot>>

-----------------------------------------------------------------------------
(* The process.  What it held in memory goes with it.                      *)

Crash(w) ==
    /\ process[w] # "down"
    /\ process' = [process EXCEPT ![w] = "down"]
    /\ task' = [j \in Jobs |-> IF j \in TasksOf(w) THEN "idle" ELSE task[j]]
    /\ snapshot' =
         [j \in Jobs |-> IF j \in TasksOf(w) THEN EmptyTable ELSE snapshot[j]]
    /\ UpdateBm25(w, EmptyTable)
    /\ UNCHANGED <<chunks, vectors, indexExists, jobs, upload, sent>>

\* create_app: build_services indexes every stored row ...
BuildServices(w) ==
    /\ process[w] = "down"
    /\ process' = [process EXCEPT ![w] = "starting"]
    /\ UpdateBm25(w, chunks)
    /\ UNCHANGED <<chunks, vectors, indexExists, jobs, taskVars>>

\* Slip: retires jobs from a hook that also runs while serving.
RetireWheneverRunning(w) ==
    /\ process[w] # "down"
    /\ process' = [process EXCEPT ![w] = "up"]
    /\ FailUnfinished
    /\ UNCHANGED <<corpusVars, taskVars>>

\* ... then the jobs of the previous run are retired and requests served.
RetireUnfinished(w) ==
    /\ process[w] = "starting"
    /\ process' = [process EXCEPT ![w] = "up"]
    /\ FailUnfinished
    /\ UNCHANGED <<corpusVars, taskVars>>

-----------------------------------------------------------------------------
TaskStep(j) ==
    \/ BeginRun(j)
    \/ LoadUnreadable(j)
    \/ StoreChunks(j)
    \/ EmbedDocuments(j)
    \/ HasIndex(j)
    \/ CreateIndex(j)
    \/ UpsertBatch(j)
    \/ IndexingFails(j)
    \/ CreateReplyLost(j)
    \/ UpsertReplyLost(j)
    \/ RebuildBm25(j)
    \/ RebuildFails(j)
    \/ SwapBm25(j)
    \/ RecordOutcome(j)
    \/ JobWriteFails(j)

ProcessStep(w) == Crash(w) \/ BuildServices(w) \/ RetireUnfinished(w)

Next ==
    \/ \E j \in Jobs, u \in Uploads : SubmitIngest(j, u)
    \/ \E j \in Jobs : TaskStep(j)
    \/ \E w \in Workers : ProcessStep(w)

Spec == Init /\ [][Next]_vars

\* Every call of a task returns or raises: the threadpool runs each queued
\* task, and create_app runs on once begun.  Nothing restarts a dead process.
Fairness ==
    /\ \A j \in Jobs : WF_vars(TaskStep(j))
    /\ \A w \in Workers : WF_vars(RetireUnfinished(w))

FairSpec == Spec /\ Fairness
=============================================================================
