----------------------------- MODULE Measurement ----------------------------
(***************************************************************************)
(* The offline tool that measures rerank scores to choose the relevance    *)
(* threshold from (scripts/measure_rerank_scores.py).  It spends the calls *)
(* of a Cohere account that allows so many a minute, pacing itself, and    *)
(* ends in a suggested threshold.  Calls take no time here, the worst case *)
(* for the account.  Scores are thousandths.                               *)
(***************************************************************************)
EXTENDS Integers, FiniteSets, FiniteSetsExt

CONSTANTS
    PerMinute,  \* calls the account allows in any minute: 10
    SdkRetries, \* requests the provider's client repeats by itself: 2
    Scores,     \* relevance scores, in thousandths
    MaxBlips,   \* bound on requests that fail for a passing reason
    None

ASSUME MeasurementAssumption ==
    /\ {PerMinute, SdkRetries, MaxBlips} \subseteq Nat
    /\ Scores \subseteq 0..1000

VARIABLES
    step,    \* where the script is; ended by a call of Cohere that failed:
             \* "raised", by anything else that was raised: "fault"
    index,   \* the probe it is at
    attempt, \* the attempt at reranking it
    spent,   \* the account: age in seconds -> calls made then
    blips,   \* requests that have failed for a passing reason
    top      \* A_top, U_max and the threshold printed, None before

mvars == <<step, index, attempt, spent, blips, top>>

Answerable == 1..9
Unanswerable == 10..17
Probes == Answerable \cup Unanswerable

MeasureAttempts == 3

\* Slip: paces for one call a probe.
ProbeDelayForOne == 7
ProbeDelay == 14

RateLimitBackoff == 65

Ages == 0..59
Calls == MapThenSumSet(LAMBDA age : spent[age], Ages)

MeasurementInit ==
    /\ step = "start"
    /\ index = 1
    /\ attempt = 1
    /\ spent = [age \in Ages |-> 0]
    /\ blips = 0
    /\ top = None

-----------------------------------------------------------------------------
(* The account and the provider's client.                                  *)

Sleep(s) ==
    spent' = [age \in Ages |-> IF age < s THEN 0 ELSE spent[age - s]]
Spend(n) == spent' = [spent EXCEPT ![0] = @ + n]

\* A call of the client: n requests fail for a passing reason, the next one
\* is answered ...
Answers(n) ==
    /\ n <= SdkRetries
    /\ blips + n <= MaxBlips
    /\ Calls + n + 1 <= PerMinute
    /\ Spend(n + 1)
    /\ blips' = blips + n

\* ... or there is no next one, or the account has no room for it, however
\* often it is repeated: the client raises.
Raises(n) ==
    /\ n <= SdkRetries + 1
    /\ blips + n <= MaxBlips
    /\ Calls + n <= PerMinute
    /\ n = SdkRetries + 1 \/ Calls + n = PerMinute
    /\ Spend(n)
    /\ blips' = blips + n

Tries == 0..(SdkRetries + 1)

-----------------------------------------------------------------------------
(* The script.                                                             *)

\* ABORT: no chunks, or the documents the probes are about are not there.
RefuseCorpus ==
    /\ step = "start"
    /\ step' = "aborted"
    /\ UNCHANGED <<index, attempt, spent, blips, top>>

Begin ==
    /\ step = "start"
    /\ step' = "retrieve"
    /\ UNCHANGED <<index, attempt, spent, blips, top>>

\* hybrid.retrieve: one call, to embed the query, ...
Retrieve ==
    /\ step = "retrieve"
    /\ \E n \in Tries : Answers(n)
    /\ step' = "search"
    /\ UNCHANGED <<index, attempt, top>>

\* ... and the vectors near it, from Pinecone.
SearchVectors ==
    /\ step = "search"
    /\ step' = "fetch"
    /\ UNCHANGED <<index, attempt, spent, blips, top>>

\* What the client of Cohere raises there is not caught.
RetrieveRaises ==
    /\ step = "retrieve"
    /\ \E n \in Tries : Raises(n)
    /\ step' = "raised"
    /\ UNCHANGED <<index, attempt, top>>

\* The chunks found, from SQLite.
FetchCandidates ==
    /\ step = "fetch"
    /\ step' = "rerank"
    /\ attempt' = 1
    /\ UNCHANGED <<index, spent, blips, top>>

\* ABORT: nothing was found for the probe.
NoCandidates ==
    /\ step = "fetch"
    /\ step' = "aborted"
    /\ UNCHANGED <<index, attempt, spent, blips, top>>

\* Nor is what the stores raise, at the first time: SQLite, which the services
\* and the corpus are read from as well, and Pinecone.
StoreRaises ==
    /\ step \in {"start", "search", "fetch"}
    /\ step' = "fault"
    /\ UNCHANGED <<index, attempt, spent, blips, top>>

\* An answer of Cohere that does not have the form expected: the embedder and
\* the reranker read it outside of what is caught.
CohereMalformed ==
    /\ step \in {"retrieve", "rerank"}
    /\ \E n \in Tries : Answers(n)
    /\ step' = "fault"
    /\ UNCHANGED <<index, attempt, top>>

\* _rerank_with_retry: the scores of one probe.
Rerank ==
    /\ step = "rerank"
    /\ \E n \in Tries : Answers(n)
    /\ step' = IF index + 1 \in Probes THEN "pause" ELSE "report"
    /\ UNCHANGED <<index, attempt, top>>

\* Slip: RerankError is not caught.
RerankRaisesAtOnce ==
    /\ step = "rerank"
    /\ \E n \in Tries : Raises(n)
    /\ step' = "raised"
    /\ UNCHANGED <<index, attempt, top>>

RerankRaises ==
    /\ step = "rerank"
    /\ \E n \in Tries : Raises(n)
    /\ step' = IF attempt < MeasureAttempts THEN "backoff" ELSE "raised"
    /\ UNCHANGED <<index, attempt, top>>

BackOff ==
    /\ step = "backoff"
    /\ Sleep(RateLimitBackoff)
    /\ step' = "rerank"
    /\ attempt' = attempt + 1
    /\ UNCHANGED <<index, blips, top>>

Pause ==
    /\ step = "pause"
    /\ Sleep(ProbeDelay)
    /\ step' = "retrieve"
    /\ index' = index + 1
    /\ UNCHANGED <<attempt, blips, top>>

\* u_max + 0.25 * gap, in quarters of a thousandth ...
Suggest(a, u) == 3 * u + a

\* Slip: printed with one digit.
PrintedToTenths(s) == {10 * t : t \in {t \in 0..10 : 400 * t - s \in -200..200}}

\* ... and printed with two digits: the nearest hundredth, either one of two
\* that are as near.
Printed(s) == {h \in 0..100 : 40 * h - s \in -20..20}

\* _report: the weakest answerable probe and the strongest of the others.
Report ==
    /\ step = "report"
    /\ \E a \in Scores, u \in Scores :
         IF u < a
           THEN \E h \in Printed(Suggest(a, u)) :
                  top' = [a_top |-> a, u_max |-> u, suggested |-> h]
           ELSE top' = [a_top |-> a, u_max |-> u, suggested |-> 0]
    /\ step' = "done"
    /\ UNCHANGED <<index, attempt, spent, blips>>

Ended == step \in {"done", "aborted", "raised", "fault"} /\ UNCHANGED mvars

MeasurementNext ==
    \/ RefuseCorpus \/ Begin
    \/ Retrieve \/ RetrieveRaises \/ SearchVectors \/ FetchCandidates \/ NoCandidates
    \/ Rerank \/ RerankRaises \/ BackOff \/ Pause
    \/ StoreRaises \/ CohereMalformed \/ Report \/ Ended

MeasurementSpec == MeasurementInit /\ [][MeasurementNext]_mvars

-----------------------------------------------------------------------------
(* What the tool has to get right.                                         *)

Calling == step \in {"retrieve", "rerank"}

\* Two calls a probe, paced "under that ceiling": an account used by nothing
\* else never turns down a call of a run in which no request failed, over all
\* probes and at any minute of the run (PROBE_DELAY_SECONDS).
PacedUnderTheCeiling == Calling /\ blips = 0 => Calls < PerMinute

\* One request to Cohere that fails in passing, at whatever call of the run and
\* whatever it leaves of the account's allowance, never costs the run
\* (_rerank_with_retry).  Of Cohere only: a failure of Pinecone or SQLite, or an
\* answer that cannot be read, does end the run, and at once.
OneCohereBlipIsAbsorbed == blips <= 1 => step # "raised"

\* With the printed threshold every answerable probe keeps its best hit and
\* every other one is declined, when more than two hundredths lie between
\* them (_report; QueryService keeps a score that equals the threshold).
SuggestionSeparates ==
    step = "done" /\ top.a_top - top.u_max > 20 =>
        top.u_max < 10 * top.suggested /\ 10 * top.suggested <= top.a_top
=============================================================================
