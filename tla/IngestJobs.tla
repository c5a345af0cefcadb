----------------------------- MODULE IngestJobs -----------------------------
(***************************************************************************)
(* The SQLite table ingest_jobs (src/services/ingest_jobs.py).  Every      *)
(* operation is one committed statement.  The statements that move a job   *)
(* name only its id: they never look at the status they overwrite, and     *)
(* they leave the columns they do not set as they were.                    *)
(***************************************************************************)
EXTENDS Documents

CONSTANT Jobs \* job ids: uuid4, never reused

VARIABLE jobs  \* job id -> its row; status "absent" stands for no row

Unfinished == {"pending", "running"}
Finished == {"succeeded", "failed"}
Statuses == {"absent"} \cup Unfinished \cup Finished
Errors == {"unreadable", "indexing_failed", "interrupted"}

IngestJob ==
    [status : Statuses,
     document_id : Docs \cup {None},
     chunk_count : 0..MaxPieces \cup {None},
     error : Errors \cup {None}]

NoRow == [status |-> "absent", document_id |-> None,
          chunk_count |-> None, error |-> None]

Create(j) ==
    /\ jobs[j].status = "absent"
    /\ jobs' = [jobs EXCEPT ![j] = [@ EXCEPT !.status = "pending"]]

MarkRunning(j) == jobs' = [jobs EXCEPT ![j] = [@ EXCEPT !.status = "running"]]

\* Slip: counts one chunk too many.
MarkSucceededOneMore(j, d, n) ==
    jobs' = [jobs EXCEPT ![j] =
      [@ EXCEPT !.status = "succeeded", !.document_id = d, !.chunk_count = n + 1]]

MarkSucceeded(j, d, n) ==
    jobs' = [jobs EXCEPT ![j] =
      [@ EXCEPT !.status = "succeeded", !.document_id = d, !.chunk_count = n]]

MarkFailed(j, e) ==
    jobs' = [jobs EXCEPT ![j] = [@ EXCEPT !.status = "failed", !.error = e]]

\* Slip: WHERE status <> 'failed'.
FailAllButFailed ==
    jobs' = [j \in Jobs |->
               IF jobs[j].status \in Unfinished \cup {"succeeded"}
                 THEN [jobs[j] EXCEPT !.status = "failed",
                                      !.error = "interrupted"]
                 ELSE jobs[j]]

\* Slip: DELETE instead of UPDATE.
DeleteUnfinished ==
    jobs' = [j \in Jobs |->
               IF jobs[j].status \in Unfinished THEN NoRow ELSE jobs[j]]

\* UPDATE ... WHERE status IN ('pending', 'running'): whoever the job
\* belongs to.
FailUnfinished ==
    jobs' = [j \in Jobs |->
               IF jobs[j].status \in Unfinished
                 THEN [jobs[j] EXCEPT !.status = "failed",
                                      !.error = "interrupted"]
                 ELSE jobs[j]]

JobsTypeOK == jobs \in [Jobs -> IngestJob]
JobsInit == jobs = [j \in Jobs |-> NoRow]
=============================================================================
