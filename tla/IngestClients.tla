---------------------------- MODULE IngestClients ---------------------------
(***************************************************************************)
(* Ingestion as its clients live it: POST /ingest answers 202 with a job   *)
(* id, the answer may be lost on the way, the client may then submit the   *)
(* file again as a new job, and whoever holds an id polls                  *)
(* GET /ingest/{job_id} (src/api/routes.py, src/services/ingest_jobs.py).  *)
(***************************************************************************)
EXTENDS IngestProperties

VARIABLE told \* job id -> the row its client was last shown, or None

cvars == <<vars, told>>

\* 404: no such row.
Unknown == NoRow

ClientInit ==
    /\ Init
    /\ told = [j \in Jobs |-> None]

\* 202 is sent before the background task is run.  If the answer is lost,
\* the job goes on and its id is known to nobody.
Submit(j, u) ==
    /\ SubmitIngest(j, u)
    /\ told' \in {told, [told EXCEPT ![j] = jobs'[j]]}

\* The service on its own: task steps, crashes, restarts.
Work ==
    /\ \/ \E j \in Jobs : TaskStep(j)
       \/ \E w \in Workers : ProcessStep(w)
    /\ UNCHANGED told

\* Slip: the rows shown are cached.
IngestStatusFromCache(j) == told[j] # None /\ UNCHANGED cvars

\* GET /ingest/{job_id} of any serving process, the first or another: the row
\* is read from the table, not from what the process remembers.
IngestStatus(j) ==
    /\ told[j] # None
    /\ \E w \in Workers : process[w] = "up"
    /\ told' = [told EXCEPT ![j] =
                  IF jobs[j].status = "absent" THEN Unknown ELSE jobs[j]]
    /\ UNCHANGED vars

ClientNext ==
    \/ \E j \in Jobs, u \in Uploads : Submit(j, u)
    \/ Work
    \/ \E j \in Jobs : IngestStatus(j)

\* A client that has an id goes on polling while the service is up.
ClientSpec ==
    /\ ClientInit /\ [][ClientNext]_cvars
    /\ Fairness
    /\ \A j \in Jobs : WF_cvars(IngestStatus(j))

-----------------------------------------------------------------------------
(* What a client may rely on.                                              *)

Told(j) == told[j] # None

\* What a client has been shown stays true or has been moved on from: a job
\* it was given is never unknown again, not after any crash and restart, no
\* job runs backwards, and an outcome it was shown is the outcome for good
\* (IngestJobStore; ingest_status).
Stage(row) ==
    CASE row.status = "absent" -> 0 [] row.status = "pending" -> 1
      [] row.status = "running" -> 2 [] OTHER -> 3
ToldStaysTrue ==
    \A j \in Jobs : Told(j) =>
        /\ told[j] # Unknown
        /\ Stage(told[j]) <= Stage(jobs[j])
        /\ Stage(told[j]) = 3 => told[j] = jobs[j]

\* Re-ingesting yields the same identities "rather than duplicates"
\* (src/models/chunk.py): however often a lost answer makes a client submit
\* the same file, at once or in turn, half-done or complete, both stores hold
\* no chunk of it but those of one reading, and the reading itself.
ReadingsOf(d) ==
    {r \in Readings : \E j \in Jobs : upload[j] # None /\ upload[j].doc = d
                                       /\ upload[j].reading = r}
RowsOf(t, d) == {c \in Present(t) : c[1] = d}
ResubmittingIsHarmless ==
    \A d \in Docs, r \in Readings : ReadingsOf(d) = {r} =>
        \A t \in {chunks, vectors} :
            /\ RowsOf(t, d) \subseteq Pieces(d, r)
            /\ \A id \in RowsOf(t, d) : t[id] = r

\* A client that keeps polling is shown the end of its job, unless the
\* process that took it goes down (_run_ingest, ingest_status).
PollerLearnsTheEnd ==
    \A j \in Jobs :
        Told(j) ~>
            Told(j) /\ \/ told[j].status \in Finished
                       \/ process[upload[j].worker] = "down"
=============================================================================
