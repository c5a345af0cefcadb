-------------------------- MODULE IngestProperties --------------------------
(***************************************************************************)
(* What ingestion has to get right, and what its documentation says of it. *)
(* IngestPipeline says what the code does.                                 *)
(***************************************************************************)
EXTENDS IngestPipeline

-----------------------------------------------------------------------------
(* Invariants of the stores.                                               *)

\* The canonical row of a chunk is committed before its vector is sent
\* (IndexingService._index), so however ingestions interleave, fail or are
\* killed, no vector id is ever without a SQLite row to resolve to.
VectorsHaveRows == Present(vectors) \subseteq Present(chunks)

\* A keyword index, live or about to be swapped in, is built from the table
\* and never from in-flight chunks: it lists no id the table does not hold
\* (IndexingService.rebuild_bm25).
IndexFromRows ==
    /\ \A w \in Workers : Present(bm25[w]) \subseteq Present(chunks)
    /\ \A j \in Jobs : Present(snapshot[j]) \subseteq Present(chunks)

\* The rows a task has committed are in the snapshot it is about to swap
\* in: its own refresh never loses its own document, whatever other tasks
\* did to the table since.
RefreshCoversOwnRows ==
    \A j \in Jobs : task[j] = "swap" => Own(j) \subseteq Present(snapshot[j])

-----------------------------------------------------------------------------
(* Invariants of the job table.                                            *)

\* A job reads succeeded only with the identity and size of its own upload,
\* and only when every chunk of it is held as a row and as a vector; that
\* stays so through everything later jobs and restarts do (_run_ingest).
SucceededIsDurable ==
    \A j \in Jobs : jobs[j].status = "succeeded" =>
        /\ upload[j] # None
        /\ jobs[j].document_id = upload[j].doc
        /\ jobs[j].chunk_count = Count(j)
        /\ Count(j) > 0
        /\ Own(j) \subseteq Present(chunks)
        /\ Own(j) \subseteq Present(vectors)

\* document_id and chunk_count are populated only once the job succeeds,
\* error only when it fails (IngestJobResponse), although the UPDATEs of
\* IngestJobStore never clear a column.
RowMatches(row) ==
    /\ (row.document_id # None) <=> (row.status = "succeeded")
    /\ (row.chunk_count # None) <=> (row.status = "succeeded")
    /\ (row.error # None) <=> (row.status = "failed")
FieldsMatchStatus == \A j \in Jobs : RowMatches(jobs[j])

\* fail_unfinished retires only jobs whose task is gone: nothing goes on
\* working for a job that was reported interrupted.
InterruptedIsDead ==
    \A j \in Jobs : jobs[j].error = "interrupted" => ~Live(j)

\* "Nothing here may raise" (_run_ingest): a job left pending or running
\* still has its task, or the process that held it is no longer serving.
NoStrandedJob ==
    \A j \in Jobs : jobs[j].status \in Unfinished =>
        Live(j) \/ process[upload[j].worker] # "up"

-----------------------------------------------------------------------------
(* Action properties and liveness.                                         *)

\* A job that ended never changes again, although mark_running and the rest
\* overwrite whatever status they find (IngestJobStore._update).
FinishedIsFinal ==
    [][\A j \in Jobs : jobs[j].status \in Finished => jobs'[j] = jobs[j]]_vars

\* A job that reads succeeded never changes again, even where a second process
\* retires, by its status alone, a job whose task goes on working: that task may
\* turn interrupted into succeeded, and nothing turns it back
\* (IngestJobStore.fail_unfinished).
SucceededIsForGood ==
    [][\A j \in Jobs : jobs[j].status = "succeeded" => jobs'[j] = jobs[j]]_vars

\* Every accepted job ends, unless its process dies; then it stays as it is
\* until a process is started again (create_app).
EventuallySettled ==
    \A j \in Jobs :
        jobs[j].status \in Unfinished ~>
            \/ jobs[j].status \in Finished
            \/ upload[j] # None /\ process[upload[j].worker] = "down"

\* The pipeline implements the contract its clients rely on.
Asked(j) == IF upload[j] = None THEN {} ELSE Own(j)
Contract == INSTANCE IngestContract WITH
    Items <- ChunkIds,
    board <- [j \in Jobs |-> jobs[j].status],
    asked <- [j \in Jobs |-> Asked(j)],
    kept <- Present(chunks) \cap Present(vectors)
ImplementsContract == Contract!Spec

-----------------------------------------------------------------------------
(* What the documentation says and the code does not do.                   *)

\* DECISIONS.md 20: the reference swap keeps ingest and query consistent.
\* The rows of a succeeded job are in the live index of its process.
SucceededIsSearchable ==
    \A j \in Jobs :
        /\ jobs[j].status = "succeeded"
        /\ process[upload[j].worker] = "up"
        => Own(j) \subseteq Present(bm25[upload[j].worker])

\* vector_store.py: text always resolves from SQLite, "that way the two
\* stores can never drift apart".  When every job so far has succeeded, a
\* vector and the row under its id come from the same reading.
StoresAgree ==
    (\A j \in Jobs : jobs[j].status \in {"absent", "succeeded"}) =>
        \A c \in Present(vectors) : vectors[c] = chunks[c]
=============================================================================
