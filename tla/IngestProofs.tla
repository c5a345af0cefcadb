---------------------------- MODULE IngestProofs ----------------------------
(***************************************************************************)
(* Theorems about ingestion, for every choice of workers, jobs, documents, *)
(* readings and batch size, and for processes that crash at any point.     *)
(***************************************************************************)
EXTENDS IngestProperties, TLAPS

-----------------------------------------------------------------------------
(* Lemmas about the tables.                                                *)

\* The ids of a reading of a document are chunk ids of that document.
LEMMA FirstPiecesAreIds ==
    ASSUME NEW d, NEW n
    PROVE  FirstPieces(d, n) \subseteq ChunkIds
  BY DEF FirstPieces

\* An upsert of one reading yields a table.
LEMMA WriteIsTable ==
    ASSUME NEW t \in Tables, NEW ids, NEW r \in Readings
    PROVE  Write(t, ids, r) \in Tables
  BY DEF Write, Tables

\* An upsert adds exactly the ids it names: ON CONFLICT DO UPDATE never
\* removes a row, and None is not a reading.
LEMMA WritePresent ==
    ASSUME NEW t, NEW ids, ids \subseteq ChunkIds, NEW r \in Readings
    PROVE  Present(Write(t, ids, r)) = Present(t) \cup ids
  BY DocumentsAssumption DEF Write, Present

LEMMA EmptyIsTable == EmptyTable \in Tables
  BY DEF EmptyTable, Tables

LEMMA EmptyPresent == Present(EmptyTable) = {}
  BY DEF EmptyTable, Present

\* A task that has an upload works on a known document and reading, and the
\* number of its chunks is a bounded natural number.
LEMMA UploadFields ==
    ASSUME TypeOK, NEW j \in Jobs, upload[j] # None
    PROVE  /\ upload[j].worker \in Workers
           /\ upload[j].doc \in Docs
           /\ upload[j].reading \in Readings
           /\ Count(j) \in 0..MaxPieces
  <1>1. upload[j] \in Uploads
    BY DEF TypeOK
  <1>2. /\ upload[j].worker \in Workers
        /\ upload[j].doc \in Docs
        /\ upload[j].reading \in Readings
    BY <1>1 DEF Uploads
  <1> QED
    BY <1>2, DocumentsAssumption DEF Count

-----------------------------------------------------------------------------
(* Lemmas about the job table: each UPDATE keeps the rows typed.           *)

LEMMA CreateTyped ==
    ASSUME JobsTypeOK, NEW j \in Jobs, Create(j)
    PROVE  JobsTypeOK'
<1>1. [jobs[j] EXCEPT !.status = "pending"] \in IngestJob
  BY DEF JobsTypeOK, IngestJob, Statuses, Unfinished
<1> QED
  BY <1>1 DEF JobsTypeOK, Create

LEMMA MarkSucceededTyped ==
    ASSUME JobsTypeOK, NEW j \in Jobs, NEW d \in Docs, NEW n \in 0..MaxPieces,
           MarkSucceeded(j, d, n)
    PROVE  JobsTypeOK'
<1>1. [jobs[j] EXCEPT !.status = "succeeded", !.document_id = d,
                      !.chunk_count = n] \in IngestJob
  BY DEF JobsTypeOK, IngestJob, Statuses, Finished
<1> QED
  BY <1>1 DEF JobsTypeOK, MarkSucceeded

LEMMA MarkFailedTyped ==
    ASSUME JobsTypeOK, NEW j \in Jobs, NEW e \in Errors, MarkFailed(j, e)
    PROVE  JobsTypeOK'
<1>1. [jobs[j] EXCEPT !.status = "failed", !.error = e] \in IngestJob
  BY DEF JobsTypeOK, IngestJob, Statuses, Finished
<1> QED
  BY <1>1 DEF JobsTypeOK, MarkFailed

LEMMA FailUnfinishedTyped ==
    ASSUME JobsTypeOK, FailUnfinished
    PROVE  JobsTypeOK'
<1>1. ASSUME NEW j \in Jobs
      PROVE  [jobs[j] EXCEPT !.status = "failed", !.error = "interrupted"]
               \in IngestJob
  BY DEF JobsTypeOK, IngestJob, Statuses, Finished, Errors
<1> QED
  BY <1>1 DEF JobsTypeOK, FailUnfinished

LEMMA OutcomeFinishes ==
    ASSUME JobsTypeOK, NEW j \in Jobs, Outcome(j)
    PROVE  jobs'[j].status \in Finished
<1>1. CASE MarkSucceeded(j, upload[j].doc, Count(j))
  BY <1>1 DEF MarkSucceeded, JobsTypeOK, IngestJob, Finished
<1>2. ASSUME NEW e \in Errors, MarkFailed(j, e)
      PROVE  jobs'[j].status \in Finished
  BY <1>2 DEF MarkFailed, JobsTypeOK, IngestJob, Finished
<1> QED
  BY <1>1, <1>2 DEF Outcome, Errors

-----------------------------------------------------------------------------
(* Type correctness.  A live task has an upload; that much is needed to    *)
(* type what the task writes.                                              *)

LiveHasUpload ==
    \A j \in Jobs :
        /\ Live(j) => upload[j] # None
        /\ upload[j] = None <=> jobs[j].status = "absent"

TypeInv == TypeOK /\ LiveHasUpload

LEMMA TypeInvInit == Init => TypeInv
<1> SUFFICES ASSUME Init PROVE TypeInv
  OBVIOUS
<1>1. JobsTypeOK
  <2>1. NoRow \in IngestJob
    BY DEF NoRow, IngestJob, Statuses
  <2> QED
    BY <2>1 DEF Init, JobsInit, JobsTypeOK
<1>2. CorpusTypeOK
  BY EmptyIsTable DEF Init, CorpusInit, CorpusTypeOK
<1>3. TypeOK
  BY <1>1, <1>2, EmptyIsTable, DocumentsAssumption DEF Init, TypeOK, Steps
<1>4. LiveHasUpload
  BY DEF Init, JobsInit, NoRow, LiveHasUpload, Live
<1> QED
  BY <1>3, <1>4 DEF TypeInv

LEMMA TaskIsLive ==
    ASSUME NEW j \in Jobs, TaskStep(j)
    PROVE  Live(j)
  BY DEF TaskStep, BeginRun, LoadUnreadable, StoreChunks, EmbedDocuments,
     HasIndex, CreateIndex, UpsertBatch, IndexingFails, CreateReplyLost,
     UpsertReplyLost, RebuildBm25, RebuildFails, SwapBm25,
     RecordOutcome, Outcome, JobWriteFails, Goto, Indexing, JobWrite, Live

\* What the steps of a task, and of a process, do to the types.
LEMMA TypeInvTask ==
    ASSUME TypeInv, NEW j \in Jobs, TaskStep(j)
    PROVE  TypeInv'
<1> USE DEF TypeInv
<1>1. /\ upload[j] # None
      /\ upload[j].worker \in Workers
      /\ upload[j].doc \in Docs
      /\ upload[j].reading \in Readings
      /\ Count(j) \in 0..MaxPieces
  BY TaskIsLive, UploadFields DEF LiveHasUpload
<1> USE <1>1 DEF LiveHasUpload, Live, TypeOK, CorpusTypeOK, Steps, Goto, corpusVars
<1>2. CASE BeginRun(j)
  BY <1>2 DEF BeginRun, MarkRunning, JobsTypeOK, IngestJob, Statuses,
     Unfinished, Indexing
<1>3. CASE LoadUnreadable(j)
  BY <1>3 DEF LoadUnreadable, JobsTypeOK, JobWrite, Indexing
<1>4. CASE EmbedDocuments(j)
  BY <1>4 DEF EmbedDocuments, JobsTypeOK, JobWrite, Indexing
<1>5. CASE HasIndex(j)
  BY <1>5 DEF HasIndex, JobsTypeOK, JobWrite, Indexing
<1>6. CASE IndexingFails(j)
  BY <1>6 DEF IndexingFails, Caught, JobsTypeOK, JobWrite, Indexing
<1>7. CASE RebuildFails(j)
  BY <1>7 DEF RebuildFails, JobsTypeOK, JobWrite, Indexing
<1>8. CASE JobWriteFails(j)
  BY <1>8 DEF JobWriteFails, JobsTypeOK, JobWrite, Indexing
<1>9. CASE StoreChunks(j)
  <2>1. chunks' \in Tables
    BY <1>9, WriteIsTable DEF StoreChunks, UpsertChunks
  <2> QED
    BY <1>9, <2>1 DEF StoreChunks, JobsTypeOK, Indexing
<1>10. CASE CreateIndex(j)
  BY <1>10 DEF CreateIndex, CreateServerlessIndex, JobsTypeOK, Indexing
<1>11. CASE CreateReplyLost(j)
  BY <1>11 DEF CreateReplyLost, Caught, CreateServerlessIndex, JobsTypeOK, JobWrite
<1>12. CASE UpsertBatch(j)
  <2>1. vectors' \in Tables
    BY <1>12, WriteIsTable DEF UpsertBatch, UpsertVectors
  <2>2. NextSent(j) \in 0..MaxPieces
    BY PipelineAssumption, DocumentsAssumption DEF NextSent
  <2> QED
    BY <1>12, <2>1, <2>2 DEF UpsertBatch, JobsTypeOK, Indexing
<1>13. CASE UpsertReplyLost(j)
  <2>1. vectors' \in Tables
    BY <1>13, WriteIsTable DEF UpsertReplyLost, UpsertVectors
  <2> QED
    BY <1>13, <2>1 DEF UpsertReplyLost, Caught, JobsTypeOK, JobWrite
<1>14. CASE RebuildBm25(j)
  BY <1>14 DEF RebuildBm25, JobsTypeOK
<1>15. CASE SwapBm25(j)
  BY <1>15, EmptyIsTable DEF SwapBm25, UpdateBm25, JobsTypeOK, JobWrite
<1>16. CASE RecordOutcome(j)
  <2>1. JobsTypeOK'
    BY <1>16, MarkSucceededTyped, MarkFailedTyped
    DEF RecordOutcome, Outcome, Errors
  <2>2. CASE task[j] = "succeed"
    <3>1. MarkSucceeded(j, upload[j].doc, Count(j))
      BY <1>16, <2>2 DEF RecordOutcome, Outcome
    <3>2. /\ jobs'[j].status # "absent"
          /\ \A i \in Jobs \ {j} : jobs'[i] = jobs[i]
      BY <3>1 DEF MarkSucceeded, JobsTypeOK, IngestJob
    <3> QED
      BY <1>16, <2>1, <3>2 DEF RecordOutcome
  <2>3. CASE task[j] # "succeed"
    <3>1. PICK e \in Errors : MarkFailed(j, e)
      BY <1>16, <2>3 DEF RecordOutcome, Outcome, Errors
    <3>2. /\ jobs'[j].status # "absent"
          /\ \A i \in Jobs \ {j} : jobs'[i] = jobs[i]
      BY <3>1 DEF MarkFailed, JobsTypeOK, IngestJob
    <3> QED
      BY <1>16, <2>1, <3>2 DEF RecordOutcome
  <2> QED
    BY <2>2, <2>3
<1> QED
  BY <1>2, <1>3, <1>4, <1>5, <1>6, <1>7, <1>8, <1>9, <1>10, <1>11,
     <1>12, <1>13, <1>14, <1>15, <1>16 DEF TaskStep

LEMMA TypeInvProcess ==
    ASSUME TypeInv, NEW w \in Workers, ProcessStep(w)
    PROVE  TypeInv'
<1> USE DEF TypeInv, LiveHasUpload, Live, TypeOK, CorpusTypeOK
<1>1. CASE Crash(w)
  <2>1. bm25' \in [Workers -> Tables] /\ snapshot' \in [Jobs -> Tables]
    BY <1>1, EmptyIsTable DEF Crash, UpdateBm25
  <2> QED
    BY <1>1, <2>1 DEF Crash, JobsTypeOK, Steps
<1>2. CASE BuildServices(w)
  BY <1>2 DEF BuildServices, UpdateBm25, JobsTypeOK, taskVars
<1>3. CASE RetireUnfinished(w)
  <2>1. JobsTypeOK'
    BY <1>3, FailUnfinishedTyped DEF RetireUnfinished
  <2>2. \A j \in Jobs : jobs'[j].status = "absent" <=> jobs[j].status = "absent"
    BY <1>3 DEF RetireUnfinished, FailUnfinished, Unfinished, JobsTypeOK, IngestJob
  <2> QED
    BY <1>3, <2>1, <2>2 DEF RetireUnfinished, corpusVars, taskVars
<1> QED
  BY <1>1, <1>2, <1>3 DEF ProcessStep

LEMMA TypeInvStep ==
    ASSUME TypeInv, [Next]_vars
    PROVE  TypeInv'
<1>1. ASSUME NEW j \in Jobs, NEW u \in Uploads, SubmitIngest(j, u)
      PROVE  TypeInv'
  <2>1. JobsTypeOK'
    BY <1>1, CreateTyped DEF SubmitIngest, TypeInv, TypeOK
  <2>2. /\ jobs'[j].status = "pending"
        /\ \A i \in Jobs \ {j} : jobs'[i] = jobs[i]
    BY <1>1 DEF SubmitIngest, Create, TypeInv, TypeOK, JobsTypeOK, IngestJob
  <2>3. u # None
    BY PipelineAssumption
  <2>4. TypeOK'
    BY <1>1, <2>1 DEF SubmitIngest, Goto, corpusVars, TypeInv, TypeOK,
       CorpusTypeOK, Steps, JobWrite
  <2> QED
    BY <1>1, <2>2, <2>3, <2>4 DEF SubmitIngest, Goto, TypeInv, TypeOK,
       LiveHasUpload, Live
<1>2. CASE UNCHANGED vars
  BY <1>2 DEF vars, corpusVars, taskVars, TypeInv, TypeOK, CorpusTypeOK,
     JobsTypeOK, LiveHasUpload, Live
<1> QED
  BY <1>1, <1>2, TypeInvTask, TypeInvProcess DEF Next

\* Every variable of the pipeline, its stores and its job table keeps its
\* type in every reachable state.
THEOREM TypeCorrect == Spec => []TypeOK
<1>1. Spec => []TypeInv
  BY TypeInvInit, TypeInvStep, PTL DEF Spec
<1> QED
  BY <1>1, PTL DEF TypeInv

-----------------------------------------------------------------------------
(* Steps of the code only ever add rows and vectors, never change what a   *)
(* task was given, and a task's steps touch no other job.                  *)

LEMMA Monotone ==
    ASSUME TypeInv, [Next]_vars
    PROVE  /\ Present(chunks) \subseteq Present(chunks')
           /\ Present(vectors) \subseteq Present(vectors')
           /\ \A j \in Jobs : upload[j] # None => upload'[j] = upload[j]
<1> USE DEF TypeInv
<1>1. ASSUME NEW j \in Jobs, NEW u \in Uploads, SubmitIngest(j, u)
      PROVE  /\ UNCHANGED <<chunks, vectors>>
             /\ \A i \in Jobs : upload[i] # None => upload'[i] = upload[i]
  BY <1>1 DEF SubmitIngest, Create, corpusVars, TypeOK, LiveHasUpload
<1>2. ASSUME NEW j \in Jobs, TaskStep(j)
      PROVE  /\ Present(chunks) \subseteq Present(chunks')
             /\ Present(vectors) \subseteq Present(vectors')
             /\ UNCHANGED upload
  <2>1. CASE StoreChunks(j)
    <3>1. upload[j].reading \in Readings
      BY <2>1, UploadFields DEF StoreChunks, Goto, LiveHasUpload, Live
    <3>2. Pieces(upload[j].doc, upload[j].reading) \subseteq ChunkIds
      BY FirstPiecesAreIds DEF Pieces
    <3> QED
      BY <2>1, <3>1, <3>2, WritePresent DEF StoreChunks, UpsertChunks
  <2>2. CASE UpsertBatch(j) \/ UpsertReplyLost(j)
    <3>1. upload[j].reading \in Readings
      BY <2>2, UploadFields
      DEF UpsertBatch, UpsertReplyLost, Goto, LiveHasUpload, Live
    <3>2. Batch(j) \subseteq ChunkIds
      BY FirstPiecesAreIds DEF Batch
    <3> QED
      BY <2>2, <3>1, <3>2, WritePresent
      DEF UpsertBatch, UpsertReplyLost, UpsertVectors
  <2>3. CASE ~(StoreChunks(j) \/ UpsertBatch(j) \/ UpsertReplyLost(j))
    BY <1>2, <2>3 DEF TaskStep, BeginRun, LoadUnreadable, EmbedDocuments,
       HasIndex, CreateIndex, IndexingFails, CreateReplyLost,
       RebuildBm25, RebuildFails, SwapBm25, RecordOutcome, JobWriteFails,
       corpusVars
  <2> QED
    BY <2>1, <2>2, <2>3
<1>3. ASSUME NEW w \in Workers, ProcessStep(w)
      PROVE  UNCHANGED <<chunks, vectors, upload>>
  BY <1>3 DEF ProcessStep, Crash, BuildServices, RetireUnfinished, corpusVars,
     taskVars
<1>4. CASE UNCHANGED vars
  BY <1>4 DEF vars, corpusVars, taskVars
<1> QED
  BY <1>1, <1>2, <1>3, <1>4 DEF Next

LEMMA TaskFrame ==
    ASSUME TypeInv, NEW j \in Jobs, TaskStep(j)
    PROVE  /\ UNCHANGED <<process, upload>>
           /\ \A i \in Jobs \ {j} :
                /\ task'[i] = task[i]
                /\ sent'[i] = sent[i]
                /\ snapshot'[i] = snapshot[i]
                /\ jobs'[i] = jobs[i]
<1> USE DEF TypeInv, TypeOK, JobsTypeOK, Goto
<1>1. CASE BeginRun(j)
  BY <1>1 DEF BeginRun, MarkRunning
<1>2. CASE RecordOutcome(j)
  BY <1>2 DEF RecordOutcome, Outcome, MarkSucceeded, MarkFailed
<1>3. CASE ~(BeginRun(j) \/ RecordOutcome(j))
  BY <1>3 DEF TaskStep, LoadUnreadable, StoreChunks, EmbedDocuments,
     HasIndex, CreateIndex, UpsertBatch, IndexingFails, CreateReplyLost,
     UpsertReplyLost, RebuildBm25, RebuildFails, SwapBm25,
     JobWriteFails
<1> QED
  BY <1>1, <1>2, <1>3

LEMMA ProcessFrame ==
    ASSUME TypeInv, NEW w \in Workers, ProcessStep(w)
    PROVE  /\ UNCHANGED <<chunks, vectors, indexExists, upload, sent>>
           /\ \A i \in Jobs :
                /\ \/ task'[i] = task[i] /\ snapshot'[i] = snapshot[i]
                   \/ task'[i] = "idle" /\ snapshot'[i] = EmptyTable
                /\ \/ jobs'[i] = jobs[i]
                   \/ /\ jobs[i].status \in Unfinished
                      /\ jobs'[i].status = "failed"
                      /\ jobs'[i].error = "interrupted"
                      /\ process[w] = "starting"
<1> USE DEF TypeInv, TypeOK, JobsTypeOK
<1>1. CASE Crash(w)
  BY <1>1 DEF Crash
<1>2. CASE BuildServices(w)
  BY <1>2 DEF BuildServices, taskVars
<1>3. CASE RetireUnfinished(w)
  <2>1. ASSUME NEW i \in Jobs
        PROVE  \/ jobs'[i] = jobs[i]
               \/ /\ jobs[i].status \in Unfinished
                  /\ jobs'[i].status = "failed"
                  /\ jobs'[i].error = "interrupted"
    BY <1>3 DEF RetireUnfinished, FailUnfinished, IngestJob
  <2> QED
    BY <1>3, <2>1 DEF RetireUnfinished, corpusVars, taskVars
<1> QED
  BY <1>1, <1>2, <1>3 DEF ProcessStep

-----------------------------------------------------------------------------
(* Where a task has got to says what the stores already hold for it.       *)

Stored == {"embed", "ensure", "create", "upsert", "refresh", "swap", "succeed"}
Unsent == {"queued", "load", "embed", "ensure", "create"}

JobStored(j) ==
    /\ upload[j] = None => sent[j] = 0
    /\ task[j] \in Unsent => sent[j] = 0
    /\ task[j] \in Stored => Count(j) > 0 /\ Own(j) \subseteq Present(chunks)
    /\ task[j] = "upsert" =>
         FirstPieces(upload[j].doc, sent[j]) \subseteq Present(vectors)
    /\ task[j] \in {"refresh", "swap", "succeed"} =>
         Own(j) \subseteq Present(vectors)
    /\ task[j] = "swap" => Own(j) \subseteq Present(snapshot[j])

JobDurable(j) ==
    jobs[j].status = "succeeded" =>
        /\ upload[j] # None
        /\ jobs[j].document_id = upload[j].doc
        /\ jobs[j].chunk_count = Count(j)
        /\ Count(j) > 0
        /\ Own(j) \subseteq Present(chunks)
        /\ Own(j) \subseteq Present(vectors)

StoredInv == \A j \in Jobs : JobStored(j) /\ JobDurable(j)

\* What held for a job goes on holding through a step that leaves its row,
\* its bookkeeping and its place alone, or takes its task away.
LEMMA JobCarried ==
    ASSUME TypeInv, [Next]_vars, NEW i \in Jobs, JobStored(i), JobDurable(i),
           upload'[i] = upload[i], sent'[i] = sent[i],
           \/ task'[i] = task[i] /\ snapshot'[i] = snapshot[i]
           \/ task'[i] = "idle",
           jobs'[i].status = "succeeded" => jobs'[i] = jobs[i]
    PROVE  JobStored(i)' /\ JobDurable(i)'
<1>1. Count(i)' = Count(i) /\ Own(i)' = Own(i)
  BY DEF Count, Own
<1>2. Present(chunks) \subseteq Present(chunks)' /\ Present(vectors) \subseteq Present(vectors)'
  BY Monotone DEF Present
<1> QED
  BY <1>1, <1>2 DEF JobStored, JobDurable, Stored, Unsent, Present

LEMMA BatchAdvances ==
    ASSUME TypeInv, NEW j \in Jobs, upload[j] # None
    PROVE  /\ FirstPieces(upload[j].doc, NextSent(j))
                \subseteq FirstPieces(upload[j].doc, sent[j]) \cup Batch(j)
           /\ Batch(j) \subseteq Own(j)
<1>1. NextSent(j) \in Nat /\ Count(j) \in Nat /\ NextSent(j) <= Count(j)
  BY UploadFields, DocumentsAssumption, PipelineAssumption
  DEF NextSent, TypeInv, TypeOK
<1>2. FirstPieces(upload[j].doc, NextSent(j)) \subseteq Own(j)
  <2>1. ASSUME NEW c \in ChunkIds, c[2] < NextSent(j)
        PROVE  c[2] < Count(j)
    <3>1. c[2] \in Nat
      BY DocumentsAssumption DEF ChunkIds
    <3> QED
      BY <1>1, <2>1, <3>1
  <2> QED
    BY <2>1 DEF FirstPieces, Own, Pieces, Count
<1> QED
  BY <1>2 DEF Batch

LEMMA StoredInvInit == Init => StoredInv
  BY DEF Init, JobsInit, NoRow, StoredInv, JobStored, JobDurable, Stored

\* The job whose task takes the step.
LEMMA StoredInvOwn ==
    ASSUME TypeInv, NEW j \in Jobs, TaskStep(j), JobStored(j), JobDurable(j),
           jobs[j].status # "succeeded"
    PROVE  JobStored(j)' /\ JobDurable(j)'
<1>1. /\ upload[j] # None
      /\ upload[j].doc \in Docs
      /\ upload[j].reading \in Readings
      /\ Count(j) \in 0..MaxPieces
  BY TaskIsLive, UploadFields DEF TypeInv, LiveHasUpload
<1>2. /\ Count(j)' = Count(j)
      /\ Own(j)' = Own(j)
      /\ upload' = upload
  BY TaskFrame DEF Count, Own
<1>3. /\ Present(chunks) \subseteq Present(chunks)'
      /\ Present(vectors) \subseteq Present(vectors)'
  BY Monotone DEF Next, Present
<1>4. Own(j) \subseteq ChunkIds
  BY FirstPiecesAreIds DEF Own, Pieces
<1> USE <1>1, <1>2, <1>3 DEF TypeInv, TypeOK, Goto, JobStored, JobDurable,
     Stored, Unsent, corpusVars
<1>5. CASE BeginRun(j)
  BY <1>5 DEF BeginRun, MarkRunning, JobsTypeOK, IngestJob
<1>6. CASE LoadUnreadable(j) \/ EmbedDocuments(j)
  BY <1>6 DEF LoadUnreadable, EmbedDocuments
<1>7. CASE IndexingFails(j) \/ CreateReplyLost(j) \/ UpsertReplyLost(j)
             \/ RebuildFails(j) \/ JobWriteFails(j)
  BY <1>7 DEF IndexingFails, Caught, CreateReplyLost, UpsertReplyLost, RebuildFails,
     JobWriteFails
<1>8. CASE StoreChunks(j)
  <2>1. Present(chunks)' = Present(chunks) \cup Own(j)
    BY <1>8, <1>4, WritePresent DEF StoreChunks, UpsertChunks, Own, Present
  <2> QED
    BY <1>8, <2>1 DEF StoreChunks
<1>9. CASE HasIndex(j) \/ CreateIndex(j)
  <2>1. FirstPieces(upload[j].doc, 0) = {}
    BY DocumentsAssumption DEF FirstPieces, ChunkIds
  <2> QED
    BY <1>9, <2>1 DEF HasIndex, CreateIndex
<1>10. CASE UpsertBatch(j)
  <2>1. Batch(j) \subseteq ChunkIds
    BY FirstPiecesAreIds DEF Batch
  <2>2. Present(vectors)' = Present(vectors) \cup Batch(j)
    BY <1>10, <2>1, WritePresent DEF UpsertBatch, UpsertVectors, Present
  <2>3. FirstPieces(upload[j].doc, NextSent(j)) \subseteq Present(vectors)'
    BY <1>10, <2>2, BatchAdvances DEF UpsertBatch
  <2>4. sent'[j] = NextSent(j)
    BY <1>10 DEF UpsertBatch
  <2>5. NextSent(j) = Count(j) => Own(j) \subseteq Present(vectors)'
    BY <2>3 DEF Own, Pieces, Count
  <2> QED
    BY <1>10, <2>3, <2>4, <2>5 DEF UpsertBatch
<1>11. CASE RebuildBm25(j)
  BY <1>11 DEF RebuildBm25
<1>12. CASE SwapBm25(j)
  BY <1>12 DEF SwapBm25
<1>13. CASE RecordOutcome(j)
  <2>1. CASE task[j] = "succeed"
    <3>1. MarkSucceeded(j, upload[j].doc, Count(j))
      BY <1>13, <2>1 DEF RecordOutcome, Outcome
    <3>2. /\ jobs'[j].document_id = upload[j].doc
          /\ jobs'[j].chunk_count = Count(j)
      BY <3>1 DEF MarkSucceeded, JobsTypeOK, IngestJob
    <3> QED
      BY <1>13, <2>1, <3>2 DEF RecordOutcome
  <2>2. CASE task[j] # "succeed"
    <3>1. PICK e \in Errors : MarkFailed(j, e)
      BY <1>13, <2>2 DEF RecordOutcome, Outcome, Errors
    <3>2. jobs'[j].status = "failed"
      BY <3>1 DEF MarkFailed, JobsTypeOK, IngestJob
    <3> QED
      BY <1>13, <3>2 DEF RecordOutcome
  <2> QED
    BY <2>1, <2>2
<1> QED
  BY <1>5, <1>6, <1>7, <1>8, <1>9, <1>10, <1>11, <1>12, <1>13 DEF TaskStep

\* A task at work has not recorded success: only its own last step does.
NotYetSucceeded ==
    \A j \in Jobs : Live(j) => jobs[j].status # "succeeded"

PipelineInv == TypeInv /\ StoredInv /\ NotYetSucceeded

LEMMA NotYetSucceededStep ==
    ASSUME PipelineInv, [Next]_vars
    PROVE  NotYetSucceeded'
<1> USE DEF PipelineInv, TypeInv, TypeOK, JobsTypeOK, IngestJob,
        NotYetSucceeded, Live
<1>1. ASSUME NEW j \in Jobs, NEW u \in Uploads, SubmitIngest(j, u)
      PROVE  NotYetSucceeded'
  BY <1>1 DEF SubmitIngest, Create, Goto
<1>2. ASSUME NEW j \in Jobs, TaskStep(j)
      PROVE  NotYetSucceeded'
  <2>1. Live(j)' => jobs'[j].status # "succeeded"
    <3>1. CASE BeginRun(j)
      BY <3>1 DEF BeginRun, MarkRunning, Goto
    <3>2. CASE RecordOutcome(j)
      BY <3>2 DEF RecordOutcome
    <3>3. CASE ~(BeginRun(j) \/ RecordOutcome(j))
      <4>1. jobs' = jobs /\ task[j] # "idle"
        BY <1>2, <3>3 DEF TaskStep, LoadUnreadable, StoreChunks,
           EmbedDocuments, HasIndex, CreateIndex, UpsertBatch,
           IndexingFails, CreateReplyLost, UpsertReplyLost, RebuildBm25,
           RebuildFails, SwapBm25, JobWriteFails, Goto, Indexing, JobWrite
      <4> QED
        BY <4>1
    <3> QED
      BY <3>1, <3>2, <3>3
  <2> QED
    BY <1>2, <2>1, TaskFrame
<1>3. ASSUME NEW w \in Workers, ProcessStep(w)
      PROVE  NotYetSucceeded'
  BY <1>3, ProcessFrame
<1>4. CASE UNCHANGED vars
  BY <1>4 DEF vars, taskVars
<1> QED
  BY <1>1, <1>2, <1>3, <1>4 DEF Next

LEMMA StoredInvStep ==
    ASSUME PipelineInv, [Next]_vars
    PROVE  StoredInv'
<1> USE DEF PipelineInv, StoredInv
<1>1. ASSUME NEW j \in Jobs, NEW u \in Uploads, SubmitIngest(j, u)
      PROVE  StoredInv'
  <2>1. JobStored(j)' /\ JobDurable(j)'
    <3>1. upload[j] = None /\ sent[j] = 0
      BY <1>1 DEF SubmitIngest, Create, TypeInv, LiveHasUpload, JobStored
    <3>2. jobs'[j].status = "pending" /\ task'[j] = "queued" /\ sent'[j] = 0
      BY <1>1, <3>1 DEF SubmitIngest, Create, Goto, TypeInv, TypeOK,
         JobsTypeOK, IngestJob
    <3> QED
      BY <3>2 DEF JobStored, JobDurable, Stored
  <2>2. ASSUME NEW i \in Jobs \ {j}
        PROVE  JobStored(i)' /\ JobDurable(i)'
    <3>1. /\ upload'[i] = upload[i] /\ sent'[i] = sent[i]
          /\ task'[i] = task[i] /\ snapshot'[i] = snapshot[i]
          /\ jobs'[i] = jobs[i]
      BY <1>1 DEF SubmitIngest, Create, Goto, TypeInv, TypeOK, JobsTypeOK
    <3> QED
      BY <3>1, JobCarried
  <2> QED
    BY <2>1, <2>2
<1>2. ASSUME NEW j \in Jobs, TaskStep(j)
      PROVE  StoredInv'
  <2>1. jobs[j].status # "succeeded"
    BY <1>2, TaskIsLive DEF NotYetSucceeded
  <2>2. JobStored(j)' /\ JobDurable(j)'
    BY <1>2, <2>1, StoredInvOwn
  <2>3. ASSUME NEW i \in Jobs \ {j}
        PROVE  JobStored(i)' /\ JobDurable(i)'
    BY <1>2, TaskFrame, JobCarried
  <2> QED
    BY <2>2, <2>3
<1>3. ASSUME NEW w \in Workers, ProcessStep(w), NEW i \in Jobs
      PROVE  JobStored(i)' /\ JobDurable(i)'
  <2>1. /\ upload'[i] = upload[i] /\ sent'[i] = sent[i]
        /\ \/ task'[i] = task[i] /\ snapshot'[i] = snapshot[i]
           \/ task'[i] = "idle"
        /\ jobs'[i].status = "succeeded" => jobs'[i] = jobs[i]
    BY <1>3, ProcessFrame
  <2> QED
    BY <2>1, JobCarried
<1>4. CASE UNCHANGED vars
  BY <1>4, JobCarried DEF vars, taskVars
<1> QED
  BY <1>1, <1>2, <1>3, <1>4 DEF Next

LEMMA PipelineInvInit == Init => PipelineInv
  BY TypeInvInit, StoredInvInit
  DEF PipelineInv, NotYetSucceeded, Live, Init

LEMMA PipelineInvStep == PipelineInv /\ [Next]_vars => PipelineInv'
  BY TypeInvStep, StoredInvStep, NotYetSucceededStep DEF PipelineInv

\* The central promise: whatever interleaves, fails or crashes, a job that
\* reads succeeded has every chunk of its upload in both stores, and its
\* row says which document and how many.
THEOREM SucceededStaysDurable == Spec => []SucceededIsDurable
<1>1. PipelineInv => SucceededIsDurable
  BY DEF PipelineInv, StoredInv, JobDurable, SucceededIsDurable
<1> QED
  BY <1>1, PipelineInvInit, PipelineInvStep, PTL DEF Spec

\* Nor does such a job ever change again, with any number of processes: its
\* task is over, start-up retires unfinished jobs only, and nothing else
\* writes to its row.
THEOREM SucceededStays == Spec => SucceededIsForGood
<1>1. ASSUME PipelineInv, [Next]_vars, NEW j \in Jobs, jobs[j].status = "succeeded"
      PROVE  jobs'[j] = jobs[j]
  <2> USE DEF PipelineInv, TypeInv, TypeOK, JobsTypeOK, NotYetSucceeded
  <2>1. ASSUME NEW i \in Jobs, NEW u \in Uploads, SubmitIngest(i, u)
        PROVE  jobs'[j] = jobs[j]
    BY <1>1, <2>1 DEF SubmitIngest, Create
  <2>2. ASSUME NEW i \in Jobs, TaskStep(i)
        PROVE  jobs'[j] = jobs[j]
    BY <1>1, <2>2, TaskIsLive, TaskFrame
  <2>3. ASSUME NEW w \in Workers, ProcessStep(w)
        PROVE  jobs'[j] = jobs[j]
    BY <1>1, <2>3, ProcessFrame DEF Unfinished
  <2>4. CASE UNCHANGED vars
    BY <2>4 DEF vars
  <2> QED
    BY <1>1, <2>1, <2>2, <2>3, <2>4 DEF Next
<1>2. PipelineInv /\ [Next]_vars =>
        [\A j \in Jobs : jobs[j].status = "succeeded" => jobs'[j] = jobs[j]]_vars
  BY <1>1
<1> QED
  BY <1>2, PipelineInvInit, PipelineInvStep, PTL DEF Spec, SucceededIsForGood

-----------------------------------------------------------------------------
(* No id without a row.                                                    *)

RowsInv ==
    /\ VectorsHaveRows
    /\ IndexFromRows

LEMMA RowsInvInit == Init => RowsInv
  BY EmptyPresent DEF Init, CorpusInit, RowsInv, VectorsHaveRows, IndexFromRows

LEMMA RowsInvStep ==
    ASSUME PipelineInv, RowsInv, [Next]_vars
    PROVE  RowsInv'
<1>1. Present(chunks) \subseteq Present(chunks')
  BY Monotone DEF PipelineInv
<1> USE EmptyPresent DEF PipelineInv, TypeInv, TypeOK, CorpusTypeOK, RowsInv, VectorsHaveRows,
     IndexFromRows, corpusVars, taskVars
<1>2. ASSUME NEW j \in Jobs, NEW u \in Uploads, SubmitIngest(j, u)
      PROVE  RowsInv'
  BY <1>2 DEF SubmitIngest
<1>3. ASSUME NEW j \in Jobs, UpsertBatch(j) \/ UpsertReplyLost(j)
      PROVE  RowsInv'
  <2>1. upload[j] # None /\ upload[j].reading \in Readings
    BY <1>3, UploadFields DEF UpsertBatch, UpsertReplyLost, Goto,
       LiveHasUpload, Live
  <2>2. Batch(j) \subseteq Own(j) /\ Batch(j) \subseteq ChunkIds
    BY <2>1, BatchAdvances, FirstPiecesAreIds DEF Batch
  <2>3. Own(j) \subseteq Present(chunks)
    BY <1>3 DEF UpsertBatch, UpsertReplyLost, Goto, StoredInv, JobStored, Stored
  <2>4. Present(vectors') = Present(vectors) \cup Batch(j)
    BY <1>3, <2>1, <2>2, WritePresent
    DEF UpsertBatch, UpsertReplyLost, UpsertVectors
  <2> QED
    BY <1>3, <2>2, <2>3, <2>4 DEF UpsertBatch, UpsertReplyLost, Present
<1>4. ASSUME NEW j \in Jobs, TaskStep(j),
             ~(UpsertBatch(j) \/ UpsertReplyLost(j))
      PROVE  RowsInv'
  <2>1. vectors' = vectors
    BY <1>4 DEF TaskStep, BeginRun, LoadUnreadable, StoreChunks,
       EmbedDocuments, HasIndex, CreateIndex, IndexingFails,
       CreateReplyLost, RebuildBm25, RebuildFails, SwapBm25, RecordOutcome,
       JobWriteFails
  <2>2. CASE RebuildBm25(j)
    BY <2>2 DEF RebuildBm25
  <2>3. CASE SwapBm25(j)
    BY <2>3 DEF SwapBm25, UpdateBm25
  <2>4. CASE ~(RebuildBm25(j) \/ SwapBm25(j))
    <3>1. UNCHANGED <<bm25, snapshot>>
      BY <1>4, <2>4 DEF TaskStep, BeginRun, LoadUnreadable, StoreChunks,
         EmbedDocuments, HasIndex, CreateIndex, IndexingFails,
         CreateReplyLost, RebuildFails, RecordOutcome, JobWriteFails
    <3> QED
      BY <1>1, <2>1, <3>1 DEF Present
  <2> QED
    BY <2>2, <2>3, <2>4
<1>5. ASSUME NEW w \in Workers, ProcessStep(w)
      PROVE  RowsInv'
  BY <1>5 DEF ProcessStep, Crash, BuildServices, RetireUnfinished, UpdateBm25
<1>6. CASE UNCHANGED vars
  BY <1>6 DEF vars
<1> QED
  BY <1>2, <1>3, <1>4, <1>5, <1>6 DEF Next

\* Neither a vector nor an entry of a keyword index is ever without its
\* canonical row, for any number of processes and jobs.
THEOREM NoIdWithoutRow == Spec => [](VectorsHaveRows /\ IndexFromRows)
<1>1. PipelineInv /\ RowsInv /\ [Next]_vars => RowsInv'
  BY RowsInvStep
<1> QED
  BY <1>1, RowsInvInit, PipelineInvInit, PipelineInvStep, PTL
  DEF Spec, RowsInv

\* rebuild_bm25 copies the table and rows are never deleted, so no process
\* serves a keyword entry whose row is gone.
THEOREM KeywordEntriesHaveRows == Spec => []IndexFromRows
  BY NoIdWithoutRow, PTL

-----------------------------------------------------------------------------
(* The refresh of a task covers its own rows.                              *)

\* Between reading the table and swapping the index in, a task holds a
\* snapshot with every chunk it stored.
THEOREM RefreshCovers == Spec => []RefreshCoversOwnRows
<1>1. PipelineInv => RefreshCoversOwnRows
  BY DEF PipelineInv, StoredInv, JobStored, RefreshCoversOwnRows
<1> QED
  BY <1>1, PipelineInvInit, PipelineInvStep, PTL DEF Spec

-----------------------------------------------------------------------------
(* No job is stranded, as long as the job table can be written.            *)

\* A live task belongs to a process that serves, so does an accepted job
\* until it is finished, its task gone or its process down.
HomeInv ==
    \A j \in Jobs :
        /\ Live(j) => process[upload[j].worker] = "up"
        /\ jobs[j].status \in Unfinished =>
             Live(j) \/ process[upload[j].worker] # "up"

LEMMA HomeInvStep ==
    ASSUME TypeInv, HomeInv, [Next]_vars, ~JobWritesMayFail
    PROVE  HomeInv'
<1> USE DEF TypeInv, TypeOK, HomeInv, Live, LiveHasUpload
<1>1. ASSUME NEW j \in Jobs, NEW u \in Uploads, SubmitIngest(j, u)
      PROVE  HomeInv'
  BY <1>1 DEF SubmitIngest, Create, Goto, JobsTypeOK, Unfinished
<1>2. ASSUME NEW j \in Jobs, TaskStep(j)
      PROVE  HomeInv'
  <2>1. /\ task'[j] # "idle" => process'[upload'[j].worker] = "up"
        /\ jobs'[j].status \in Unfinished =>
             task'[j] # "idle" \/ process'[upload'[j].worker] # "up"
    <3>1. task[j] # "idle"
      BY <1>2 DEF TaskStep, BeginRun, LoadUnreadable, StoreChunks,
         EmbedDocuments, HasIndex, CreateIndex, UpsertBatch,
         IndexingFails, CreateReplyLost, UpsertReplyLost, RebuildBm25,
         RebuildFails, SwapBm25, RecordOutcome, Outcome, JobWriteFails, Goto,
         Indexing, JobWrite
    <3>2. CASE RecordOutcome(j)
      <4>1. jobs'[j].status \in Finished
        BY <3>2, OutcomeFinishes DEF RecordOutcome
      <4> QED
        BY <3>2, <4>1 DEF RecordOutcome, Finished, Unfinished
    <3>3. CASE ~RecordOutcome(j)
      <4>1. task'[j] # "idle"
        BY <1>2, <3>3 DEF TaskStep, BeginRun, LoadUnreadable, StoreChunks,
           EmbedDocuments, HasIndex, CreateIndex, UpsertBatch,
           IndexingFails, CreateReplyLost, UpsertReplyLost, RebuildBm25,
           RebuildFails, SwapBm25, JobWriteFails, Caught, Goto
      <4> QED
        BY <3>1, <4>1, <1>2, TaskFrame
    <3> QED
      BY <3>2, <3>3
  <2> QED
    BY <1>2, <2>1, TaskFrame
<1>3. ASSUME NEW w \in Workers, Crash(w)
      PROVE  HomeInv'
  BY <1>3 DEF Crash, TasksOf
<1>4. ASSUME NEW w \in Workers, BuildServices(w)
      PROVE  HomeInv'
  BY <1>4 DEF BuildServices, taskVars
<1>5. ASSUME NEW w \in Workers, RetireUnfinished(w)
      PROVE  HomeInv'
  <2>1. \A j \in Jobs : jobs'[j].status \notin Unfinished
    BY <1>5 DEF RetireUnfinished, FailUnfinished, Unfinished, JobsTypeOK,
       IngestJob
  <2> QED
    BY <1>5, <2>1 DEF RetireUnfinished, taskVars
<1>6. CASE UNCHANGED vars
  BY <1>6 DEF vars, taskVars
<1> QED
  BY <1>1, <1>2, <1>3, <1>4, <1>5, <1>6 DEF Next, ProcessStep

\* If writes to the job table do not raise, no serving process ever leaves
\* a job pending or running without a task, with any number of processes.
THEOREM NothingStranded == ~JobWritesMayFail /\ Spec => []NoStrandedJob
<1>1. Init => HomeInv
  BY DEF Init, JobsInit, NoRow, HomeInv, Live, Unfinished
<1>2. ~JobWritesMayFail /\ TypeInv /\ HomeInv /\ [Next]_vars => HomeInv'
  BY HomeInvStep
<1>3. HomeInv => NoStrandedJob
  BY DEF HomeInv, NoStrandedJob
<1>4. CASE JobWritesMayFail
  BY <1>4
<1>5. CASE ~JobWritesMayFail
  <2>1. TypeInv /\ HomeInv /\ [Next]_vars => HomeInv'
    BY <1>2, <1>5
  <2> QED
    BY <1>1, <2>1, <1>3, TypeInvInit, TypeInvStep, PTL DEF Spec
<1> QED
  BY <1>4, <1>5

-----------------------------------------------------------------------------
(* With a single process, what README.md asks for, the job table also      *)
(* behaves although its UPDATEs look at no status: whoever retires jobs    *)
(* finds no task alive, so a live task's job is always unfinished.         *)

OneProcess == \A v, w \in Workers : v = w

LiveServed == \A j \in Jobs : Live(j) => process[upload[j].worker] = "up"
LiveUnfinished == \A j \in Jobs : Live(j) => jobs[j].status \in Unfinished
SoleInv == TypeInv /\ LiveServed /\ LiveUnfinished /\ FieldsMatchStatus

LEMMA NoneIsNoValue ==
    /\ \A d \in Docs : d # None
    /\ \A n \in 0..MaxPieces : n # None
    /\ \A e \in Errors : e # None
  BY DocumentsAssumption, PipelineAssumption

LEMMA SucceededRowMatches ==
    ASSUME NEW row \in IngestJob, row.error = None,
           NEW d \in Docs, NEW n \in 0..MaxPieces
    PROVE  RowMatches([row EXCEPT !.status = "succeeded", !.document_id = d,
                                  !.chunk_count = n])
<1> DEFINE r == [row EXCEPT !.status = "succeeded", !.document_id = d,
                            !.chunk_count = n]
<1>1. /\ r.status = "succeeded"
      /\ r.document_id = d
      /\ r.chunk_count = n
      /\ r.error = None
  BY DEF IngestJob
<1> HIDE DEF r
<1>2. RowMatches(r)
  BY <1>1, NoneIsNoValue DEF RowMatches
<1> QED
  BY <1>2 DEF r

LEMMA FailedRowMatches ==
    ASSUME NEW row \in IngestJob, row.document_id = None,
           row.chunk_count = None, NEW e \in Errors
    PROVE  RowMatches([row EXCEPT !.status = "failed", !.error = e])
<1> DEFINE r == [row EXCEPT !.status = "failed", !.error = e]
<1>1. /\ r.status = "failed"
      /\ r.document_id = None
      /\ r.chunk_count = None
      /\ r.error = e
  BY DEF IngestJob
<1> HIDE DEF r
<1>2. RowMatches(r)
  BY <1>1, NoneIsNoValue DEF RowMatches
<1> QED
  BY <1>2 DEF r

\* The row of the job whose task takes the step.
LEMMA TaskRow ==
    ASSUME SoleInv, NEW j \in Jobs, TaskStep(j)
    PROVE  \/ jobs'[j] = jobs[j]
           \/ jobs'[j] = [jobs[j] EXCEPT !.status = "running"]
           \/ /\ task'[j] = "idle"
              /\ jobs'[j] = [jobs[j] EXCEPT !.status = "succeeded",
                                            !.document_id = upload[j].doc,
                                            !.chunk_count = Count(j)]
           \/ /\ task'[j] = "idle"
              /\ \E e \in Errors :
                   jobs'[j] = [jobs[j] EXCEPT !.status = "failed", !.error = e]
<1> USE DEF SoleInv, TypeInv, TypeOK, JobsTypeOK
<1>1. CASE BeginRun(j)
  BY <1>1 DEF BeginRun, MarkRunning
<1>2. CASE RecordOutcome(j)
  <2>1. task'[j] = "idle"
    BY <1>2 DEF RecordOutcome
  <2>2. \/ MarkSucceeded(j, upload[j].doc, Count(j))
        \/ \E e \in Errors : MarkFailed(j, e)
    BY <1>2 DEF RecordOutcome, Outcome, Errors
  <2> QED
    BY <2>1, <2>2 DEF MarkSucceeded, MarkFailed
<1>3. CASE ~(BeginRun(j) \/ RecordOutcome(j))
  <2>1. jobs' = jobs
    BY <1>3 DEF TaskStep, LoadUnreadable, StoreChunks, EmbedDocuments,
       HasIndex, CreateIndex, UpsertBatch, IndexingFails, CreateReplyLost,
       UpsertReplyLost, RebuildBm25, RebuildFails, SwapBm25,
       JobWriteFails
  <2> QED
    BY <2>1
<1> QED
  BY <1>1, <1>2, <1>3

LEMMA SoleInvTask ==
    ASSUME SoleInv, NEW j \in Jobs, TaskStep(j)
    PROVE  (LiveServed /\ LiveUnfinished /\ FieldsMatchStatus)'
<1>1. /\ Live(j)
      /\ jobs[j] \in IngestJob
      /\ jobs[j].status \in Unfinished
      /\ RowMatches(jobs[j])
  BY TaskIsLive DEF SoleInv, TypeInv, TypeOK, JobsTypeOK, LiveUnfinished,
     FieldsMatchStatus
<1>2. /\ jobs[j].document_id = None
      /\ jobs[j].chunk_count = None
      /\ jobs[j].error = None
  BY <1>1 DEF RowMatches, Unfinished
<1>3. upload[j].doc \in Docs /\ Count(j) \in 0..MaxPieces
  BY <1>1, UploadFields DEF SoleInv, TypeInv, LiveHasUpload
<1>4. /\ task'[j] # "idle" => jobs'[j].status \in Unfinished
      /\ RowMatches(jobs'[j])
  <2>1. CASE jobs'[j] = jobs[j]
    BY <1>1, <2>1
  <2>2. CASE jobs'[j] = [jobs[j] EXCEPT !.status = "running"]
    BY <1>1, <1>2, <2>2 DEF IngestJob, Unfinished, RowMatches
  <2>3. CASE /\ task'[j] = "idle"
             /\ jobs'[j] = [jobs[j] EXCEPT !.status = "succeeded",
                                           !.document_id = upload[j].doc,
                                           !.chunk_count = Count(j)]
    <3>1. RowMatches([jobs[j] EXCEPT !.status = "succeeded",
                                     !.document_id = upload[j].doc,
                                     !.chunk_count = Count(j)])
      BY <1>1, <1>2, <1>3, SucceededRowMatches
    <3> QED
      BY <2>3, <3>1
  <2>4. ASSUME NEW e \in Errors, task'[j] = "idle",
               jobs'[j] = [jobs[j] EXCEPT !.status = "failed", !.error = e]
        PROVE  task'[j] = "idle" /\ RowMatches(jobs'[j])
    BY <1>1, <1>2, <2>4, FailedRowMatches
  <2> QED
    BY <2>1, <2>2, <2>3, <2>4, TaskRow
<1> QED
  BY <1>1, <1>4, TaskFrame
  DEF SoleInv, LiveServed, LiveUnfinished, FieldsMatchStatus, Live

LEMMA SoleInvStep ==
    ASSUME OneProcess, SoleInv, [Next]_vars
    PROVE  SoleInv'
<1>1. TypeInv'
  BY TypeInvStep DEF SoleInv
<1>2. ASSUME NEW j \in Jobs, NEW u \in Uploads, SubmitIngest(j, u)
      PROVE  (LiveServed /\ LiveUnfinished /\ FieldsMatchStatus)'
  <2>1. /\ jobs[j] \in IngestJob
        /\ jobs[j].status = "absent"
        /\ RowMatches(jobs[j])
        /\ jobs'[j] = [jobs[j] EXCEPT !.status = "pending"]
        /\ \A i \in Jobs \ {j} : jobs'[i] = jobs[i]
    BY <1>2 DEF SubmitIngest, Create, SoleInv, TypeInv, TypeOK, JobsTypeOK,
       FieldsMatchStatus
  <2>2. jobs'[j].status = "pending" /\ RowMatches(jobs'[j])
    BY <2>1 DEF IngestJob, RowMatches
  <2>3. FieldsMatchStatus'
    BY <2>1, <2>2 DEF SoleInv, FieldsMatchStatus
  <2>4. /\ task' = [task EXCEPT ![j] = "queued"]
        /\ upload' = [upload EXCEPT ![j] = u]
        /\ process[u.worker] = "up" /\ process' = process
    BY <1>2 DEF SubmitIngest, Goto
  <2>5. LiveServed'
    BY <2>4 DEF SoleInv, TypeInv, TypeOK, LiveServed, Live
  <2>6. LiveUnfinished'
    BY <2>1, <2>2, <2>4 DEF SoleInv, TypeInv, TypeOK, LiveUnfinished, Live,
       Unfinished
  <2> QED
    BY <2>3, <2>5, <2>6
<1>3. ASSUME NEW w \in Workers, Crash(w)
      PROVE  (LiveServed /\ LiveUnfinished /\ FieldsMatchStatus)'
  BY <1>3 DEF Crash, TasksOf, SoleInv, TypeInv, TypeOK, LiveHasUpload,
     LiveServed, LiveUnfinished, FieldsMatchStatus, Live
<1>4. ASSUME NEW w \in Workers, BuildServices(w)
      PROVE  (LiveServed /\ LiveUnfinished /\ FieldsMatchStatus)'
  BY <1>4 DEF BuildServices, taskVars, SoleInv, TypeInv, TypeOK,
     LiveServed, LiveUnfinished, FieldsMatchStatus, Live
<1>5. ASSUME NEW w \in Workers, RetireUnfinished(w)
      PROVE  (LiveServed /\ LiveUnfinished /\ FieldsMatchStatus)'
  <2>1. \A j \in Jobs : ~Live(j)
    BY <1>5, UploadFields DEF RetireUnfinished, OneProcess, SoleInv, TypeInv,
       LiveHasUpload, LiveServed
  <2>2. ASSUME NEW j \in Jobs
        PROVE  RowMatches(jobs'[j])
    <3>1. jobs[j] \in IngestJob /\ RowMatches(jobs[j])
      BY DEF SoleInv, TypeInv, TypeOK, JobsTypeOK, FieldsMatchStatus
    <3>2. CASE jobs[j].status \in Unfinished
      <4>1. jobs'[j] = [jobs[j] EXCEPT !.status = "failed",
                                       !.error = "interrupted"]
        BY <1>5, <3>2 DEF RetireUnfinished, FailUnfinished
      <4>2. jobs[j].document_id = None /\ jobs[j].chunk_count = None
        BY <3>1, <3>2 DEF RowMatches, Unfinished
      <4> QED
        BY <3>1, <4>1, <4>2, FailedRowMatches DEF Errors
    <3>3. CASE jobs[j].status \notin Unfinished
      BY <1>5, <3>1, <3>3 DEF RetireUnfinished, FailUnfinished
    <3> QED
      BY <3>2, <3>3
  <2> QED
    BY <1>5, <2>1, <2>2 DEF RetireUnfinished, taskVars, LiveServed,
       LiveUnfinished, FieldsMatchStatus, Live
<1>6. CASE UNCHANGED vars
  <2>1. UNCHANGED <<jobs, process, upload, task>>
    BY <1>6 DEF vars, taskVars
  <2>2. LiveServed' /\ LiveUnfinished'
    BY <2>1 DEF SoleInv, LiveServed, LiveUnfinished, Live
  <2>3. FieldsMatchStatus'
    BY <2>1 DEF SoleInv, FieldsMatchStatus
  <2> QED
    BY <1>1, <2>2, <2>3 DEF SoleInv
<1> QED
  BY <1>1, <1>2, <1>3, <1>4, <1>5, <1>6, SoleInvTask
  DEF SoleInv, Next, ProcessStep

LEMMA SoleInvInit == Init => SoleInv
  BY TypeInvInit DEF Init, JobsInit, NoRow, SoleInv, LiveServed,
     LiveUnfinished, FieldsMatchStatus, RowMatches, Live

\* With one process a job's columns agree with its status, and a job that
\* was reported interrupted has no task working on.
THEOREM SoleProcessRows ==
    OneProcess /\ Spec => [](FieldsMatchStatus /\ InterruptedIsDead)
<1>1. SoleInv => FieldsMatchStatus /\ InterruptedIsDead
  BY NoneIsNoValue DEF SoleInv, LiveUnfinished, FieldsMatchStatus, RowMatches,
     InterruptedIsDead, Unfinished, Errors
<1>2. CASE OneProcess
  <2>1. SoleInv /\ [Next]_vars => SoleInv'
    BY <1>2, SoleInvStep
  <2> QED
    BY <1>1, <2>1, SoleInvInit, PTL DEF Spec
<1> QED
  BY <1>2

\* With one process fail_unfinished retires no job that is still at work.
THEOREM SoleProcessInterrupts == OneProcess /\ Spec => []InterruptedIsDead
  BY SoleProcessRows, PTL

\* With one process a job that ended never changes again.
THEOREM SoleProcessFinal == OneProcess /\ Spec => FinishedIsFinal
<1>1. ASSUME SoleInv, [Next]_vars, NEW j \in Jobs, jobs[j].status \in Finished
      PROVE  jobs'[j] = jobs[j]
  <2> USE DEF SoleInv, TypeInv, TypeOK, JobsTypeOK, Finished, Unfinished
  <2>1. ASSUME NEW i \in Jobs, NEW u \in Uploads, SubmitIngest(i, u)
        PROVE  jobs'[j] = jobs[j]
    BY <1>1, <2>1 DEF SubmitIngest, Create
  <2>2. ASSUME NEW i \in Jobs, TaskStep(i)
        PROVE  jobs'[j] = jobs[j]
    BY <1>1, <2>2, TaskIsLive, TaskFrame DEF LiveUnfinished
  <2>3. ASSUME NEW w \in Workers, ProcessStep(w)
        PROVE  jobs'[j] = jobs[j]
    BY <1>1, <2>3, ProcessFrame
  <2>4. CASE UNCHANGED vars
    BY <2>4 DEF vars
  <2> QED
    BY <1>1, <2>1, <2>2, <2>3, <2>4 DEF Next
<1>2. SoleInv /\ [Next]_vars =>
        [\A j \in Jobs : jobs[j].status \in Finished => jobs'[j] = jobs[j]]_vars
  BY <1>1
<1>3. CASE OneProcess
  <2>1. SoleInv /\ [Next]_vars => SoleInv'
    BY <1>3, SoleInvStep
  <2> QED
    BY <1>2, <2>1, SoleInvInit, PTL DEF Spec, FinishedIsFinal
<1> QED
  BY <1>3
=============================================================================
