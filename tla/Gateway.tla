------------------------------- MODULE Gateway ------------------------------
(***************************************************************************)
(* What a request goes through before and after its handler: the           *)
(* middleware (src/api/observability.py), the rate limit (rate_limit.py),  *)
(* the API key (security.py), the schema of the body (schemas.py) and the  *)
(* answer.                                                                 *)
(* Dependencies, handlers and background tasks are synchronous functions,  *)
(* so each takes a thread of the one pool of the process while it runs.    *)
(*                                                                         *)
(* A thread of RateLimiter is here a request: a slot that serves one       *)
(* request after another.  The clock ticks fractions of a second.          *)
(***************************************************************************)
EXTENDS RateLimiter

CONSTANTS
    PoolSize,      \* threads in the pool
    TicksPerSecond

ASSUME GatewayAssumption ==
    /\ PoolSize \in Nat \ {0}
    /\ TicksPerSecond \in Nat \ {0}

VARIABLES
    req,    \* slot -> the request it serves
    promise \* history: caller -> when, going by the first Retry-After since
            \* it was last admitted, it may be back; None if there was none

gvars == <<vars, req, promise>>

Routes == {"health", "ready", "query", "ingest", "status"}
Metered == Routes \ {"health"}
Keyed == {"query", "ingest", "status"}
Validated == {"query", "ingest"}

\* What a handler may answer.  0 stands for an exception it does not catch.
Answers ==
    [health |-> {200},
     ready  |-> {200, 503},
     query  |-> {200, 502, 0},
     ingest |-> {202, 400, 413, 415, 0},
     status |-> {200, 404, 0}]
Codes == {401, 422, 429} \cup UNION {Answers[route] : route \in Routes}

\* "handling" and "job" hold a thread of the pool.
Request ==
    [step : {"free", "limit", "auth", "handle", "handling",
             "respond", "queued", "job"},
     route : Routes,               \* until its handler is done
     status : Codes \cup {None},
     row : BOOLEAN]                \* whether it has created a job

Idle == [step |-> "free", route |-> "health", status |-> None, row |-> FALSE]

GatewayInit ==
    /\ Init
    /\ req = [r \in Threads |-> Idle]
    /\ promise = [k \in Keys |-> None]

Busy == {r \in Threads : Waiting(r) \/ req[r].step \in {"handling", "job"}}
FreeThread == Cardinality(Busy) < PoolSize
At(r, step) == req[r].step = step

\* The request moves on.
Becomes(r, new) == req' = [req EXCEPT ![r] = new] /\ UNCHANGED <<vars, promise>>
\* What is left of it to be done is the answer.
Answered(r, code) ==
    [req[r] EXCEPT !.step = "respond", !.status = code, !.route = Idle.route]

-----------------------------------------------------------------------------
(* On the way in.                                                          *)

\* dispatch passes the request on to its route.
Arrive(r, route) ==
    /\ At(r, "free")
    /\ Becomes(r,
         [Idle EXCEPT !.step = IF route \in Metered THEN "limit" ELSE "handle",
                      !.route = route])

\* enforce_rate_limit, first half: the dependency has its thread.
BeginCheck(r, k) ==
    /\ At(r, "limit")
    /\ FreeThread
    /\ ReadClock(r, k)
    /\ UNCHANGED <<req, promise>>

Admitted(r) ==
    /\ Allow(r)
    /\ req' = [req EXCEPT ![r].step =
                 IF req[r].route \in Keyed THEN "auth" ELSE "handle"]
    /\ promise' = [promise EXCEPT ![key[r]] = None]

Ceil(n, d) == (n + d - 1) \div d
AtLeastOne(n) == IF n > 1 THEN n ELSE 1

\* Slip: rounds down.
RetryAfterFloored(v) == AtLeastOne(v \div TicksPerSecond)

\* max(1, math.ceil(retry_after)), in seconds.
RetryAfter(v) == AtLeastOne(Ceil(v, TicksPerSecond))

TooMany(r) ==
    /\ Reject(r)
    /\ req' = [req EXCEPT ![r] = Answered(r, 429)]
    /\ promise' = [promise EXCEPT ![key[r]] =
         IF @ = None THEN clock + TicksPerSecond * RetryAfter(answer'[r]) ELSE @]

\* require_api_key: no key, or another one.
Unauthorized(r) == At(r, "auth") /\ FreeThread /\ Becomes(r, Answered(r, 401))

\* The key is right, but not the body.  QueryRequest: a blank question or
\* one too long; ingest: no file part.
Unprocessable(r) ==
    /\ At(r, "auth")
    /\ FreeThread
    /\ req[r].route \in Validated
    /\ Becomes(r, Answered(r, 422))

Authorized(r) ==
    At(r, "auth") /\ FreeThread /\ Becomes(r, [req[r] EXCEPT !.step = "handle"])

-----------------------------------------------------------------------------
(* The handler and the way out.                                            *)

BeginHandler(r) ==
    /\ At(r, "handle")
    /\ FreeThread
    /\ Becomes(r, [req[r] EXCEPT !.step = "handling"])

\* Slip: the handler waits for its background task to have a thread.
EndHandlerWithJob(r) ==
    /\ At(r, "handling")
    /\ req[r].route = "ingest" => FreeThread
    /\ \E code \in Answers[req[r].route] :
         Becomes(r, [Answered(r, code) EXCEPT !.row = code = 202])

\* The handler returns or raises.  An upload without a name, of another type,
\* too large or empty is turned away before there is a job.
EndHandler(r) ==
    /\ At(r, "handling")
    /\ \E code \in Answers[req[r].route] :
         Becomes(r, [Answered(r, code) EXCEPT !.row = code = 202])

\* A background task is run once the reply is out.
Sent(r) == IF req[r].row THEN [req[r] EXCEPT !.step = "queued"] ELSE Idle

\* dispatch returns the reply, or the server makes one of an exception that no
\* handler caught.
Respond(r) ==
    /\ At(r, "respond")
    /\ req' = [req EXCEPT ![r] = Sent(r)]
    /\ answer' = [answer EXCEPT ![r] = None]
    /\ UNCHANGED <<clock, hits, now, key, granted, promise>>

\* Slip: the background task is given a thread of its own.
BeginJobUnpooled(r) ==
    At(r, "queued") /\ Becomes(r, [req[r] EXCEPT !.step = "job"])

BeginJob(r) ==
    At(r, "queued") /\ FreeThread /\ Becomes(r, [req[r] EXCEPT !.step = "job"])

EndJob(r) == At(r, "job") /\ Becomes(r, Idle)

TimePasses == Tick /\ UNCHANGED <<req, promise>>

\* Steps that first need a thread, and those that need none or have theirs.
Enter(r) ==
    \/ \E k \in Keys : BeginCheck(r, k)
    \/ Unauthorized(r) \/ Unprocessable(r) \/ Authorized(r) \/ BeginHandler(r) \/ BeginJob(r)
Proceed(r) ==
    \/ Admitted(r) \/ TooMany(r)
    \/ EndHandler(r) \/ Respond(r) \/ EndJob(r)

GatewayNext ==
    \/ TimePasses
    \/ \E r \in Threads : Enter(r) \/ Proceed(r) \/ \E route \in Routes : Arrive(r, route)

\* Whatever holds a thread returns or raises, and the pool serves those that
\* wait for a thread in turn.
GatewaySpec ==
    /\ GatewayInit /\ [][GatewayNext]_gvars
    /\ \A r \in Threads : WF_gvars(Proceed(r)) /\ SF_gvars(Enter(r))

-----------------------------------------------------------------------------
(* What the gateway has to get right.                                      *)

\* Types; and the pool never lends more threads than it has.
GatewayTypeOK ==
    /\ TypeOK
    /\ req \in [Threads -> Request]
    /\ promise \in [Keys -> Nat \cup {None}]
    /\ Cardinality(Busy) <= PoolSize

\* enforce_rate_limit: a caller that stays away for the seconds the first 429
\* told it is admitted when it is back, and until it is admitted: whatever
\* else is in the table, however long the threads waited for the lock and
\* however the seconds were rounded.
RetryAfterIsEnough ==
    [][\A r \in Threads : TooMany(r) =>
         promise[key[r]] = None \/ now[r] < promise[key[r]]]_gvars

\* Handlers, dependencies and background tasks wait for the same threads; no
\* number of them can keep a request from its reply, or an accepted upload
\* from its task.
EveryRequestIsServed == \A r \in Threads : ~At(r, "free") ~> At(r, "free")
=============================================================================
