---------------------------- MODULE ClientProofs ----------------------------
(***************************************************************************)
(* Theorems about what a client of POST /ingest and GET /ingest/{job_id}   *)
(* may rely on: the contract, the rows it is shown, and submitting again.  *)
(***************************************************************************)
EXTENDS IngestClients, IngestProofs

-----------------------------------------------------------------------------
(* Submitting again, with any number of processes.                         *)

\* Every row and every vector is a chunk of some upload, as it was read.
Origin(t, c) ==
    \E j \in Jobs : /\ upload[j] # None
                    /\ upload[j].doc = c[1] /\ upload[j].reading = t[c]
                    /\ c \in Own(j)
Accounted(t) == \A c \in Present(t) : Origin(t, c)
OriginInv == Accounted(chunks) /\ Accounted(vectors)

LEMMA OriginInvInit == Init => OriginInv
BY EmptyPresent DEF Init, CorpusInit, OriginInv, Accounted

\* Uploads stay what they are, so origins do.
LEMMA OriginKept ==
    ASSUME PipelineInv, [Next]_vars, NEW t, Accounted(t), NEW c \in Present(t)
    PROVE  \E j \in Jobs : /\ upload'[j] # None
                           /\ upload'[j].doc = c[1] /\ upload'[j].reading = t[c]
                           /\ c \in Own(j)'
<1>1. PICK j \in Jobs : /\ upload[j] # None
                        /\ upload[j].doc = c[1] /\ upload[j].reading = t[c]
                        /\ c \in Own(j)
  BY DEF Accounted, Origin
<1>2. upload'[j] = upload[j]
  BY <1>1, Monotone DEF PipelineInv
<1>3. Own(j)' = Own(j)
  BY <1>2 DEF Own
<1> QED
  BY <1>1, <1>2, <1>3

\* An upsert of chunks of an upload adds only what originates from it.
LEMMA OriginWritten ==
    ASSUME NEW t, Accounted(t),
           NEW j \in Jobs, upload[j] # None, NEW ids, ids \subseteq Own(j)
    PROVE  Accounted(Write(t, ids, upload[j].reading))
<1> DEFINE r == upload[j].reading
           w == Write(t, ids, r)
<1>1. \A c \in ChunkIds : w[c] = IF c \in ids THEN r ELSE t[c]
  BY DEF Write
<1>2. ASSUME NEW c \in Present(w) PROVE Origin(w, c)
  <2>1. c \in ChunkIds /\ w[c] # None
    BY DEF Present
  <2> HIDE DEF w
  <2>2. CASE c \in ids
    BY <1>1, <2>1, <2>2 DEF Origin, Own, Pieces, FirstPieces
  <2>3. CASE c \notin ids
    <3>1. w[c] = t[c] /\ c \in Present(t)
      BY <1>1, <2>1, <2>3 DEF Present
    <3> QED
      BY <3>1 DEF Origin, Accounted
  <2> QED
    BY <2>2, <2>3
<1> HIDE DEF w
<1>3. Accounted(w)
  BY <1>2 DEF Accounted
<1> QED
  BY <1>3 DEF w

LEMMA OriginInvStep == PipelineInv /\ OriginInv /\ [Next]_vars => OriginInv'
<1> SUFFICES ASSUME PipelineInv, OriginInv, [Next]_vars
             PROVE  Accounted(chunks)' /\ Accounted(vectors)'
  BY DEF OriginInv
<1>1. Accounted(chunks) /\ Accounted(vectors)
  BY DEF OriginInv
<1>2. Accounted(chunks') => Accounted(chunks)'
  BY OriginKept DEF Accounted, Origin
<1>3. Accounted(vectors') => Accounted(vectors)'
  BY OriginKept DEF Accounted, Origin
<1>4. ASSUME NEW j \in Jobs, StoreChunks(j)
      PROVE  Accounted(chunks)'
  <2>1. upload[j] # None
    BY <1>4 DEF StoreChunks, Goto, PipelineInv, TypeInv, LiveHasUpload, Live
  <2>2. chunks' = Write(chunks, Own(j), upload[j].reading)
    BY <1>4 DEF StoreChunks, UpsertChunks, Own
  <2> QED
    BY <1>1, <1>2, <2>1, <2>2, OriginWritten
<1>5. ASSUME NEW j \in Jobs, UpsertBatch(j) \/ UpsertReplyLost(j)
      PROVE  Accounted(vectors)'
  <2>1. upload[j] # None
    BY <1>5 DEF UpsertBatch, UpsertReplyLost, Goto, PipelineInv, TypeInv,
       LiveHasUpload, Live
  <2>2. vectors' = Write(vectors, Batch(j), upload[j].reading)
    BY <1>5 DEF UpsertBatch, UpsertReplyLost, UpsertVectors
  <2>3. Batch(j) \subseteq Own(j)
    BY <2>1, BatchAdvances DEF PipelineInv
  <2> QED
    BY <1>1, <1>3, <2>1, <2>2, <2>3, OriginWritten
<1>6. \/ chunks' = chunks /\ vectors' = vectors
      \/ chunks' = chunks /\ \E j \in Jobs : UpsertBatch(j) \/ UpsertReplyLost(j)
      \/ vectors' = vectors /\ \E j \in Jobs : StoreChunks(j)
  <2>1. ASSUME NEW j \in Jobs, NEW u \in Uploads, SubmitIngest(j, u)
        PROVE  chunks' = chunks /\ vectors' = vectors
    BY <2>1 DEF SubmitIngest, corpusVars
  <2>2. ASSUME NEW j \in Jobs, TaskStep(j),
               ~(StoreChunks(j) \/ UpsertBatch(j) \/ UpsertReplyLost(j))
        PROVE  chunks' = chunks /\ vectors' = vectors
    BY <2>2 DEF TaskStep, BeginRun, LoadUnreadable, EmbedDocuments,
       HasIndex, CreateIndex, IndexingFails, CreateReplyLost,
       RebuildBm25, RebuildFails, SwapBm25, RecordOutcome, JobWriteFails,
       corpusVars
  <2>3. ASSUME NEW j \in Jobs, StoreChunks(j) PROVE vectors' = vectors
    BY <2>3 DEF StoreChunks
  <2>4. ASSUME NEW j \in Jobs, UpsertBatch(j) \/ UpsertReplyLost(j)
        PROVE  chunks' = chunks
    BY <2>4 DEF UpsertBatch, UpsertReplyLost
  <2>5. ASSUME NEW w \in Workers, ProcessStep(w)
        PROVE  chunks' = chunks /\ vectors' = vectors
    BY <2>5 DEF ProcessStep, Crash, BuildServices, RetireUnfinished, corpusVars
  <2>6. CASE UNCHANGED vars
    BY <2>6 DEF vars, corpusVars
  <2> QED
    BY <2>1, <2>2, <2>3, <2>4, <2>5, <2>6 DEF Next
<1> QED
  BY <1>1, <1>2, <1>3, <1>4, <1>5, <1>6

\* Whatever a client does is a step of the pipeline or none.
LEMMA ClientsStep == [ClientNext]_cvars => [Next]_vars
BY DEF ClientNext, cvars, Submit, Work, IngestStatus, Next

\* ResubmittingIsHarmless: however often and however concurrently a file is
\* submitted again, neither store comes to hold a chunk of it that is not of
\* a reading it was submitted under.
THEOREM ResubmittingAddsNothing == ClientSpec => []ResubmittingIsHarmless
<1>1. PipelineInv /\ OriginInv => ResubmittingIsHarmless
  <2> SUFFICES ASSUME PipelineInv, OriginInv, NEW d \in Docs, NEW r \in Readings,
                      ReadingsOf(d) = {r}, NEW t \in {chunks, vectors},
                      NEW id \in RowsOf(t, d)
               PROVE  id \in Pieces(d, r) /\ t[id] = r
    BY DEF ResubmittingIsHarmless
  <2>1. id \in Present(t) /\ id[1] = d
    BY DEF RowsOf
  <2>2. PICK j \in Jobs : /\ upload[j] # None
                          /\ upload[j].doc = d /\ upload[j].reading = t[id]
                          /\ id \in Own(j)
    BY <2>1 DEF OriginInv, Accounted, Origin
  <2>3. upload[j].reading \in Readings
    BY <2>2, UploadFields DEF PipelineInv, TypeInv
  <2>4. t[id] \in ReadingsOf(d)
    BY <2>2, <2>3 DEF ReadingsOf
  <2>5. t[id] = r
    BY <2>4
  <2> QED
    BY <2>2, <2>5 DEF Own
<1>2. ClientInit => PipelineInv /\ OriginInv
  BY PipelineInvInit, OriginInvInit DEF ClientInit
<1>3. PipelineInv /\ OriginInv /\ [ClientNext]_cvars => (PipelineInv /\ OriginInv)'
  BY ClientsStep, PipelineInvStep, OriginInvStep
<1> QED
  BY <1>1, <1>2, <1>3, PTL DEF ClientSpec

-----------------------------------------------------------------------------
(* What a step does to the row of a job, with one process.                 *)

LEMMA StageOf ==
    ASSUME NEW row, row.status \in Statuses
    PROVE  /\ Stage(row) \in 0..3
           /\ row.status = "absent" => Stage(row) = 0
           /\ row.status = "pending" => Stage(row) = 1
           /\ row.status = "running" => Stage(row) = 2
           /\ row.status \in Finished <=> Stage(row) = 3
BY DEF Stage, Statuses, Unfinished, Finished

\* No job runs backwards, and what ended stays.
LEMMA StagesGrow ==
    ASSUME SoleInv, [Next]_vars, NEW j \in Jobs
    PROVE  /\ jobs[j] \in IngestJob /\ jobs'[j] \in IngestJob
           /\ Stage(jobs[j]) <= Stage(jobs'[j])
           /\ Stage(jobs[j]) = 3 => jobs'[j] = jobs[j]
<1>1. jobs[j] \in IngestJob /\ jobs'[j] \in IngestJob
  BY TypeInvStep DEF SoleInv, TypeInv, TypeOK, JobsTypeOK
<1>2. jobs[j].status \in Statuses /\ jobs'[j].status \in Statuses
  BY <1>1 DEF IngestJob
<1>3. \/ jobs'[j] = jobs[j]
      \/ jobs[j].status = "absent"
      \/ jobs[j].status \in Unfinished /\ jobs'[j].status = "running"
      \/ jobs[j].status \in Unfinished /\ jobs'[j].status \in Finished
  <2>1. ASSUME NEW i \in Jobs, NEW u \in Uploads, SubmitIngest(i, u)
        PROVE  jobs'[j] = jobs[j] \/ jobs[j].status = "absent"
    BY <2>1 DEF SubmitIngest, Create, SoleInv, TypeInv, TypeOK, JobsTypeOK
  <2>2. ASSUME NEW i \in Jobs, TaskStep(i), i # j
        PROVE  jobs'[j] = jobs[j]
    BY <2>2, TaskFrame DEF SoleInv
  <2>3. ASSUME TaskStep(j)
        PROVE  \/ jobs'[j] = jobs[j]
               \/ jobs[j].status \in Unfinished /\ jobs'[j].status = "running"
               \/ jobs[j].status \in Unfinished /\ jobs'[j].status \in Finished
    <3>1. jobs[j].status \in Unfinished
      BY <2>3, TaskIsLive DEF SoleInv, LiveUnfinished
    <3>2. \/ jobs'[j] = jobs[j]
          \/ jobs'[j] = [jobs[j] EXCEPT !.status = "running"]
          \/ jobs'[j] = [jobs[j] EXCEPT !.status = "succeeded",
                                        !.document_id = upload[j].doc,
                                        !.chunk_count = Count(j)]
          \/ \E e \in Errors :
               jobs'[j] = [jobs[j] EXCEPT !.status = "failed", !.error = e]
      BY <2>3, TaskRow
    <3>3. \/ jobs'[j] = jobs[j]
          \/ jobs'[j].status = "running"
          \/ jobs'[j].status \in Finished
      BY <1>1, <3>2 DEF IngestJob, Finished
    <3> QED
      BY <3>1, <3>3
  <2>4. ASSUME NEW w \in Workers, ProcessStep(w)
        PROVE  \/ jobs'[j] = jobs[j]
               \/ jobs[j].status \in Unfinished /\ jobs'[j].status \in Finished
    BY <2>4, ProcessFrame DEF SoleInv, Finished
  <2>5. CASE UNCHANGED vars
    BY <2>5 DEF vars
  <2> QED
    BY <2>1, <2>2, <2>3, <2>4, <2>5 DEF Next
<1>4. /\ Stage(jobs[j]) \in 0..3 /\ Stage(jobs'[j]) \in 0..3
      /\ jobs[j].status = "absent" => Stage(jobs[j]) = 0
      /\ jobs[j].status \in Unfinished => Stage(jobs[j]) \in {1, 2}
      /\ jobs'[j].status = "running" => Stage(jobs'[j]) = 2
      /\ jobs'[j].status \in Finished => Stage(jobs'[j]) = 3
  BY <1>2, StageOf DEF Unfinished
<1>5. /\ Stage(jobs[j]) <= Stage(jobs'[j])
      /\ Stage(jobs[j]) = 3 => jobs'[j] = jobs[j]
  BY <1>3, <1>4
<1> QED
  BY <1>1, <1>5

-----------------------------------------------------------------------------
(* What a client is shown, with one process.                               *)

\* Whoever was shown a row was shown one of a job that exists.
ToldInv ==
    /\ told \in [Jobs -> IngestJob \cup {None}]
    /\ \A j \in Jobs : Told(j) => told[j].status # "absent"
    /\ ToldStaysTrue

\* What was true of a row shown goes on being true of the job.
LEMMA ShownGoesOn ==
    ASSUME SoleInv, [Next]_vars, ToldInv, NEW j \in Jobs, Told(j)
    PROVE  /\ told[j] \in IngestJob /\ told[j].status # "absent"
           /\ Stage(told[j]) <= Stage(jobs'[j])
           /\ Stage(told[j]) = 3 => told[j] = jobs'[j]
<1>1. told[j] \in IngestJob /\ told[j].status # "absent"
  BY DEF ToldInv, Told
<1>2. /\ Stage(told[j]) <= Stage(jobs[j])
      /\ Stage(told[j]) = 3 => told[j] = jobs[j]
  BY DEF ToldInv, ToldStaysTrue
<1>3. /\ jobs[j] \in IngestJob /\ jobs'[j] \in IngestJob
      /\ Stage(jobs[j]) <= Stage(jobs'[j])
      /\ Stage(jobs[j]) = 3 => jobs'[j] = jobs[j]
  BY StagesGrow
<1>4. Stage(told[j]) \in 0..3 /\ Stage(jobs[j]) \in 0..3 /\ Stage(jobs'[j]) \in 0..3
  BY <1>1, <1>3, StageOf DEF IngestJob
<1> QED
  BY <1>1, <1>2, <1>3, <1>4

LEMMA ToldInvStep ==
    SoleInv /\ SoleInv' /\ ToldInv /\ [ClientNext]_cvars => ToldInv'
<1> SUFFICES ASSUME SoleInv, SoleInv', ToldInv, [ClientNext]_cvars PROVE ToldInv'
  OBVIOUS
<1>1. [Next]_vars
  BY ClientsStep
<1>2. ASSUME NEW j \in Jobs
      PROVE  /\ jobs'[j] \in IngestJob
             /\ Stage(jobs'[j]) \in 0..3
             /\ jobs'[j].status # "absent" => jobs'[j] # Unknown
  BY StageOf DEF SoleInv, TypeInv, TypeOK, JobsTypeOK, IngestJob, Unknown, NoRow
<1>3. told' \in [Jobs -> IngestJob \cup {None}]
      /\ \A j \in Jobs : \/ told'[j] = told[j]
                         \/ told'[j] = jobs'[j] /\ jobs'[j].status # "absent"
  <2>1. ASSUME NEW i \in Jobs, NEW u \in Uploads, Submit(i, u)
        PROVE  \/ told' = told
               \/ told' = [told EXCEPT ![i] = jobs'[i]] /\ jobs'[i].status # "absent"
    <3>1. jobs'[i] = [jobs[i] EXCEPT !.status = "pending"] /\ jobs[i] \in IngestJob
      BY <2>1 DEF Submit, SubmitIngest, Create, SoleInv, TypeInv, TypeOK, JobsTypeOK
    <3>2. jobs'[i].status = "pending"
      BY <3>1 DEF IngestJob
    <3> QED
      BY <2>1, <3>2 DEF Submit
  <2>2. CASE Work
    BY <2>2 DEF Work, ToldInv
  <2>3. ASSUME NEW i \in Jobs, IngestStatus(i)
        PROVE  told' = [told EXCEPT ![i] = jobs'[i]] /\ jobs'[i].status # "absent"
    <3>1. Told(i) /\ jobs' = jobs
      BY <2>3 DEF IngestStatus, Told, vars
    <3>2. Stage(told[i]) <= Stage(jobs[i]) /\ told[i].status # "absent"
          /\ told[i] \in IngestJob /\ jobs[i] \in IngestJob
      BY <3>1 DEF ToldInv, ToldStaysTrue, Told, SoleInv, TypeInv, TypeOK, JobsTypeOK
    <3>3. Stage(told[i]) # 0
      BY <3>2, StageOf DEF IngestJob, Statuses, Unfinished
    <3>4. jobs[i].status # "absent"
      BY <3>2, <3>3, StageOf DEF IngestJob
    <3> QED
      BY <2>3, <3>1, <3>4 DEF IngestStatus
  <2>4. CASE UNCHANGED cvars
    BY <2>4 DEF cvars, ToldInv
  <2> QED
    BY <1>2, <2>1, <2>2, <2>3, <2>4 DEF ClientNext, ToldInv
<1>4. ASSUME NEW j \in Jobs, Told(j)'
      PROVE  /\ told'[j].status # "absent" /\ told'[j] # Unknown
             /\ Stage(told'[j]) <= Stage(jobs'[j])
             /\ Stage(told'[j]) = 3 => told'[j] = jobs'[j]
  <2>1. CASE told'[j] = jobs'[j] /\ jobs'[j].status # "absent"
    BY <1>2, <2>1
  <2>2. CASE told'[j] = told[j]
    <3>1. Told(j)
      BY <1>4, <2>2 DEF Told
    <3>2. /\ told[j].status # "absent"
          /\ Stage(told[j]) <= Stage(jobs'[j])
          /\ Stage(told[j]) = 3 => told[j] = jobs'[j]
      BY <1>1, <3>1, ShownGoesOn
    <3> QED
      BY <2>2, <3>2 DEF Unknown, NoRow
  <2> QED
    BY <1>3, <2>1, <2>2
<1> QED
  BY <1>3, <1>4 DEF ToldInv, ToldStaysTrue, Told

\* ToldStaysTrue: with one process a job whose id a client holds is never
\* unknown again and never runs backwards, and an outcome it was shown is
\* the outcome for good, across crashes and restarts.
THEOREM ShownStaysTrue == OneProcess /\ ClientSpec => []ToldStaysTrue
<1>1. ClientInit => SoleInv /\ ToldInv
  BY SoleInvInit DEF ClientInit, ToldInv, ToldStaysTrue, Told
<1>2. CASE OneProcess
  <2>1. SoleInv /\ [ClientNext]_cvars => SoleInv'
    BY <1>2, ClientsStep, SoleInvStep
  <2>2. ToldInv => ToldStaysTrue
    BY DEF ToldInv
  <2> QED
    BY <1>1, <2>1, <2>2, ToldInvStep, PTL DEF ClientSpec
<1> QED
  BY <1>2

-----------------------------------------------------------------------------
(* The contract, with one process.                                         *)

\* A task that has begun finds its job running.
RunningInv ==
    \A j \in Jobs : task[j] \notin {"idle", "queued"} => jobs[j].status = "running"

LEMMA RunningInvStep ==
    ASSUME SoleInv, SoleInv', RunningInv, [Next]_vars
    PROVE  RunningInv'
<1> USE DEF SoleInv, TypeInv, TypeOK, JobsTypeOK, IngestJob, RunningInv
<1>1. ASSUME NEW j \in Jobs, NEW u \in Uploads, SubmitIngest(j, u)
      PROVE  RunningInv'
  BY <1>1 DEF SubmitIngest, Create, Goto
<1>2. ASSUME NEW j \in Jobs, TaskStep(j)
      PROVE  RunningInv'
  <2>1. task'[j] \notin {"idle", "queued"} => jobs'[j].status = "running"
    <3>1. CASE BeginRun(j)
      BY <3>1 DEF BeginRun, MarkRunning, Goto
    <3>2. CASE RecordOutcome(j)
      BY <3>2 DEF RecordOutcome
    <3>3. CASE ~(BeginRun(j) \/ RecordOutcome(j))
      <4>1. jobs' = jobs /\ (task[j] \notin {"idle", "queued"} \/ task'[j] = "idle")
        BY <1>2, <3>3 DEF TaskStep, LoadUnreadable, StoreChunks,
           EmbedDocuments, HasIndex, CreateIndex, UpsertBatch,
           IndexingFails, CreateReplyLost, UpsertReplyLost, RebuildBm25,
           RebuildFails, SwapBm25, JobWriteFails, Goto, Indexing
      <4> QED
        BY <4>1
    <3> QED
      BY <3>1, <3>2, <3>3
  <2> QED
    BY <1>2, <2>1, TaskFrame
<1>3. ASSUME NEW w \in Workers, ProcessStep(w), NEW i \in Jobs,
             task'[i] \notin {"idle", "queued"}
      PROVE  jobs'[i].status = "running"
  <2>1. task'[i] = task[i]
    BY <1>3, ProcessFrame
  <2>2. jobs[i].status = "running"
    BY <1>3, <2>1
  <2>3. jobs'[i].status \in Unfinished
    BY <1>3 DEF LiveUnfinished, Live
  <2>4. jobs'[i] = jobs[i] \/ jobs'[i].status = "failed"
    BY <1>3, ProcessFrame
  <2> QED
    BY <2>2, <2>3, <2>4 DEF Unfinished
<1>4. CASE UNCHANGED vars
  BY <1>4 DEF vars, taskVars
<1> QED
  BY <1>1, <1>2, <1>3, <1>4 DEF Next

\* What the contract sees of the pipeline.
Board == [j \in Jobs |-> jobs[j].status]
Askeds == [j \in Jobs |-> Asked(j)]
Kept == Present(chunks) \cap Present(vectors)

\* The row of one job changes: the board does at that place.
LEMMA BoardAt ==
    ASSUME SoleInv, NEW j \in Jobs, jobs' \in [Jobs -> IngestJob],
           \A i \in Jobs \ {j} : jobs'[i] = jobs[i]
    PROVE  Board' = [Board EXCEPT ![j] = jobs'[j].status]
BY DEF Board

LEMMA AskedSame ==
    ASSUME UNCHANGED upload
    PROVE  Askeds' = Askeds
BY DEF Askeds, Asked, Own

\* Every step of the pipeline is one the contract allows.
LEMMA StepKeepsContract ==
    ASSUME OneProcess, SoleInv, PipelineInv, RunningInv, [Next]_vars
    PROVE  [Contract!Next]_<<Board, Askeds, Kept>>
<1> DEFINE Same == UNCHANGED <<Board, Askeds, Kept>>
<1>1. TypeInv' /\ jobs' \in [Jobs -> IngestJob]
  BY TypeInvStep DEF SoleInv, TypeInv, TypeOK, JobsTypeOK
<1>2. ASSUME NEW j \in Jobs, NEW u \in Uploads, SubmitIngest(j, u)
      PROVE  Contract!Accept(j)
  <2>1. /\ jobs[j].status = "absent" /\ jobs'[j].status = "pending"
        /\ \A i \in Jobs \ {j} : jobs'[i] = jobs[i]
        /\ upload' = [upload EXCEPT ![j] = u]
        /\ UNCHANGED <<chunks, vectors>>
    BY <1>2 DEF SubmitIngest, Create, corpusVars, SoleInv, TypeInv, TypeOK,
       JobsTypeOK, IngestJob
  <2>2. Board[j] = "absent" /\ Board' = [Board EXCEPT ![j] = "pending"]
    BY <1>1, <2>1, BoardAt DEF Board
  <2>3. Askeds' = [Askeds EXCEPT ![j] = Asked(j)']
    BY <2>1 DEF Askeds, Asked, Own, SoleInv, TypeInv, TypeOK
  <2>4. Asked(j)' \in SUBSET ChunkIds
    BY FirstPiecesAreIds DEF Asked, Own, Pieces
  <2>5. Kept' = Kept
    BY <2>1 DEF Kept, Present
  <2> QED
    BY <2>2, <2>3, <2>4, <2>5 DEF Contract!Accept, Board, Askeds, Kept
<1>3. ASSUME NEW j \in Jobs, TaskStep(j)
      PROVE  \/ Contract!Start(j) \/ Contract!Keep(j)
             \/ Contract!Succeed(j) \/ Contract!Fail(j) \/ Same
  <2>1. /\ upload' = upload /\ \A i \in Jobs \ {j} : jobs'[i] = jobs[i]
        /\ upload[j] # None
    BY <1>3, TaskFrame, TaskIsLive DEF SoleInv, TypeInv, LiveHasUpload
  <2>2. Askeds' = Askeds
    BY <2>1, AskedSame
  <2>3. Board' = [Board EXCEPT ![j] = jobs'[j].status]
    BY <1>1, <2>1, BoardAt
  <2>4. Board[j] = jobs[j].status /\ Askeds[j] = Own(j)
    BY <2>1 DEF Board, Askeds, Asked
  <2>5. jobs' = jobs => Board' = Board
    BY DEF Board
  <2>6. UNCHANGED <<chunks, vectors>> => Kept' = Kept
    BY DEF Kept, Present
  <2>7. CASE BeginRun(j)
    <3>1. UNCHANGED <<chunks, vectors>> /\ jobs[j].status \in Unfinished
          /\ jobs'[j] = [jobs[j] EXCEPT !.status = "running"]
      BY <1>3, <2>7, TaskIsLive DEF BeginRun, MarkRunning, corpusVars, SoleInv,
         LiveUnfinished, TypeInv, TypeOK, JobsTypeOK
    <3>2. jobs[j] \in IngestJob
      BY DEF SoleInv, TypeInv, TypeOK, JobsTypeOK
    <3>3. jobs'[j].status = "running"
      BY <3>1, <3>2 DEF IngestJob
    <3>4. CASE jobs[j].status = "pending"
      BY <2>2, <2>3, <2>4, <2>6, <3>1, <3>3, <3>4
      DEF Contract!Start, Board, Askeds, Kept
    <3>5. CASE jobs[j].status = "running"
      <4>1. Board' = Board
        BY <2>1, <3>3, <3>5 DEF Board
      <4> QED
        BY <2>2, <2>6, <3>1, <4>1
    <3> QED
      BY <3>1, <3>4, <3>5 DEF Unfinished
  <2>8. CASE StoreChunks(j) \/ UpsertBatch(j) \/ UpsertReplyLost(j)
    <3>1. jobs' = jobs /\ jobs[j].status = "running"
      BY <2>8 DEF StoreChunks, UpsertBatch, UpsertReplyLost, Goto, RunningInv
    <3>2. Kept \subseteq Kept'
      BY Monotone DEF SoleInv, Kept, Present
    <3>3. Kept' \subseteq Kept \cup Own(j)
      <4>1. upload[j].reading \in Readings /\ Own(j) \subseteq ChunkIds
            /\ Batch(j) \subseteq Own(j)
        BY <2>1, UploadFields, FirstPiecesAreIds, BatchAdvances
        DEF SoleInv, TypeInv, Own, Pieces
      <4>2. CASE StoreChunks(j)
        <5>1. chunks' = Write(chunks, Own(j), upload[j].reading) /\ vectors' = vectors
          BY <4>2 DEF StoreChunks, UpsertChunks, Own
        <5>2. Present(chunks') = Present(chunks) \cup Own(j)
          BY <4>1, <5>1, WritePresent
        <5> QED
          BY <5>1, <5>2 DEF Kept, Present
      <4>3. CASE UpsertBatch(j) \/ UpsertReplyLost(j)
        <5>1. vectors' = Write(vectors, Batch(j), upload[j].reading) /\ chunks' = chunks
          BY <4>3 DEF UpsertBatch, UpsertReplyLost, UpsertVectors
        <5>2. Present(vectors') = Present(vectors) \cup Batch(j)
          BY <4>1, <5>1, WritePresent
        <5> QED
          BY <4>1, <5>1, <5>2 DEF Kept, Present
      <4> QED
        BY <2>8, <4>2, <4>3
    <3> QED
      BY <2>2, <2>4, <2>5, <3>1, <3>2, <3>3 DEF Contract!Keep, Board, Askeds, Kept
  <2>9. CASE RecordOutcome(j)
    <3>1. UNCHANGED <<chunks, vectors>> /\ jobs[j].status = "running"
      BY <2>9 DEF RecordOutcome, Outcome, corpusVars, RunningInv
    <3>2. jobs[j] \in IngestJob
      BY DEF SoleInv, TypeInv, TypeOK, JobsTypeOK
    <3>3. CASE task[j] = "succeed"
      <4>1. jobs'[j] = [jobs[j] EXCEPT !.status = "succeeded",
                                       !.document_id = upload[j].doc,
                                       !.chunk_count = Count(j)]
        BY <2>9, <3>3 DEF RecordOutcome, Outcome, MarkSucceeded, SoleInv, TypeInv,
           TypeOK, JobsTypeOK
      <4>2. jobs'[j].status = "succeeded"
        BY <3>2, <4>1 DEF IngestJob
      <4>3. Count(j) > 0 /\ Own(j) \subseteq Kept
        BY <3>3 DEF PipelineInv, StoredInv, JobStored, Stored, Kept
      <4>4. Own(j) # {}
        <5>1. upload[j].doc \in Docs /\ Count(j) \in 0..MaxPieces
              /\ MaxPieces \in Nat \ {0}
          BY <2>1, UploadFields, DocumentsAssumption DEF SoleInv, TypeInv
        <5> DEFINE first == <<upload[j].doc, 0>>
        <5>2. 0 \in 0..(MaxPieces - 1)
          BY <5>1
        <5>3. first \in ChunkIds /\ first[1] = upload[j].doc /\ first[2] = 0
          BY <5>1, <5>2 DEF ChunkIds
        <5>4. 0 < Count(j)
          BY <4>3, <5>1
        <5>5. Own(j) = {c \in ChunkIds : c[1] = upload[j].doc /\ c[2] < Count(j)}
          BY DEF Own, Pieces, FirstPieces, Count
        <5> HIDE DEF first
        <5>6. first \in Own(j)
          BY <5>3, <5>4, <5>5
        <5> QED
          BY <5>6
      <4> QED
        BY <2>2, <2>3, <2>4, <2>6, <3>1, <4>2, <4>3, <4>4
        DEF Contract!Succeed, Board, Askeds, Kept
    <3>4. CASE task[j] # "succeed"
      <4>1. PICK e \in Errors : jobs'[j] = [jobs[j] EXCEPT !.status = "failed", !.error = e]
        BY <2>9, <3>4 DEF RecordOutcome, Outcome, MarkFailed, Errors, SoleInv,
           TypeInv, TypeOK, JobsTypeOK
      <4>2. jobs'[j].status = "failed"
        BY <3>2, <4>1 DEF IngestJob
      <4> QED
        BY <2>2, <2>3, <2>4, <2>6, <3>1, <4>2 DEF Contract!Fail, Board, Askeds, Kept
    <3> QED
      BY <3>3, <3>4
  <2>10. CASE ~(\/ BeginRun(j) \/ StoreChunks(j) \/ UpsertBatch(j)
               \/ UpsertReplyLost(j) \/ RecordOutcome(j))
    <3>1. UNCHANGED <<chunks, vectors, jobs>>
      BY <1>3, <2>10 DEF TaskStep, LoadUnreadable, EmbedDocuments,
         HasIndex, CreateIndex, IndexingFails, CreateReplyLost,
         RebuildBm25, RebuildFails, SwapBm25, JobWriteFails, corpusVars
    <3> QED
      BY <2>2, <2>5, <2>6, <3>1
  <2> QED
    BY <2>7, <2>8, <2>9, <2>10
<1>4. ASSUME NEW w \in Workers, Crash(w) \/ BuildServices(w)
      PROVE  Same
  <2>1. UNCHANGED <<chunks, vectors, jobs, upload>>
    BY <1>4 DEF Crash, BuildServices, taskVars
  <2> QED
    BY <2>1, AskedSame DEF Board, Kept, Present
<1>5. ASSUME NEW w \in Workers, RetireUnfinished(w)
      PROVE  Contract!Restart
  <2>1. UNCHANGED <<chunks, vectors, upload>> /\ FailUnfinished
    BY <1>5 DEF RetireUnfinished, corpusVars, taskVars
  <2>2. Askeds' = Askeds /\ Kept' = Kept
    BY <2>1, AskedSame DEF Kept, Present
  <2>3. ASSUME NEW j \in Jobs
        PROVE  jobs'[j].status = IF jobs[j].status \in {"pending", "running"}
                                   THEN "failed" ELSE jobs[j].status
    <3>1. jobs[j] \in IngestJob
      BY DEF SoleInv, TypeInv, TypeOK, JobsTypeOK
    <3> QED
      BY <2>1, <3>1 DEF FailUnfinished, Unfinished, IngestJob
  <2>4. Board' = [j \in Jobs |-> IF Board[j] \in {"pending", "running"}
                                   THEN "failed" ELSE Board[j]]
    BY <2>3 DEF Board
  <2> QED
    BY <2>2, <2>4 DEF Contract!Restart, Contract!Open, Board, Askeds, Kept
<1>6. CASE UNCHANGED vars
  <2>1. UNCHANGED <<chunks, vectors, jobs, upload>>
    BY <1>6 DEF vars, corpusVars, taskVars
  <2> QED
    BY <2>1, AskedSame DEF Board, Kept, Present
<1> QED
  BY <1>2, <1>3, <1>4, <1>5, <1>6 DEF Next, ProcessStep, Contract!Next

\* The pipeline implements IngestContract with one process: a job is
\* accepted, may run and ends once, ends well only with everything it was
\* asked to keep kept, and nothing kept is ever let go.
THEOREM ContractIsKept == OneProcess /\ Spec => ImplementsContract
<1>1. Init => Contract!Init
  BY EmptyPresent DEF Init, CorpusInit, JobsInit, NoRow, Asked, Contract!Init
<1>2. Init => SoleInv /\ PipelineInv /\ RunningInv
  BY SoleInvInit, PipelineInvInit DEF Init, RunningInv
<1>3. CASE OneProcess
  <2>1. SoleInv /\ PipelineInv /\ RunningInv /\ [Next]_vars
          => (SoleInv /\ PipelineInv /\ RunningInv)'
    BY <1>3, SoleInvStep, PipelineInvStep, RunningInvStep
  <2>2. SoleInv /\ PipelineInv /\ RunningInv /\ [Next]_vars
          => [Contract!Next]_(Contract!vars)
    BY <1>3, StepKeepsContract DEF Contract!vars, Board, Askeds, Kept
  <2> QED
    BY <1>1, <1>2, <2>1, <2>2, PTL DEF Spec, ImplementsContract, Contract!Spec
<1> QED
  BY <1>3
=============================================================================
