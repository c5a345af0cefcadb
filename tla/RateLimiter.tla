---------------------------- MODULE RateLimiter -----------------------------
(***************************************************************************)
(* The in-process sliding-window limiter (src/api/rate_limit.py).  Request *)
(* handlers run in a threadpool.  check() reads the clock before it takes  *)
(* the lock, so a thread may find the table changed by threads that read   *)
(* a later time: the two halves of check are two steps.                    *)
(***************************************************************************)
EXTENDS Integers, Sequences, FiniteSets, FiniteSetsExt

CONSTANTS
    Threads,        \* threads of the pool
    Keys,           \* callers: client addresses
    MaxRequests,    \* policy.max_requests
    Window,         \* policy.window_seconds
    MaxTrackedKeys, \* max_tracked_keys
    MaxTime,        \* bound on the clock
    MaxStall,       \* bound on the time a thread waits for the lock
    None

ASSUME RateLimiterAssumption ==
    /\ MaxRequests \in Nat \ {0}
    /\ Window \in Nat \ {0}
    /\ MaxTrackedKeys \in Nat \ {0}
    /\ MaxTime \in Nat
    /\ MaxStall \in Nat
    /\ None \notin Keys \cup Nat \cup Seq(Nat)

VARIABLES
    clock,   \* the monotonic clock
    hits,    \* caller -> times of its admitted requests, None if untracked
    now,     \* thread -> the time it read, None outside check
    key,     \* thread -> the caller it is checking
    answer,  \* thread -> what check returned: None if allowed, else seconds
    granted  \* history: caller -> moment -> requests admitted at it, kept
             \* for a window and the longest wait for the lock

vars == <<clock, hits, now, key, answer, granted>>

Tracked == {k \in Keys : hits[k] # None}
Waiting(t) == now[t] # None
Cutoff(t) == now[t] - Window

TypeOK ==
    /\ clock \in 0..MaxTime
    /\ hits \in [Keys -> Seq(0..MaxTime) \cup {None}]
    /\ now \in [Threads -> 0..MaxTime \cup {None}]
    /\ key \in [Threads -> Keys \cup {None}]
    /\ answer \in [Threads -> 1..(Window + MaxStall) \cup {None}]
    /\ \A k \in Tracked : Len(hits[k]) <= MaxRequests

Init ==
    /\ clock = 0
    /\ hits = [k \in Keys |-> None]
    /\ now = [t \in Threads |-> None]
    /\ key = [t \in Threads |-> None]
    /\ answer = [t \in Threads |-> None]
    /\ granted = [k \in Keys |-> [m \in 0..MaxTime |-> 0]]

-----------------------------------------------------------------------------
(* Steps.                                                                  *)

Tick ==
    /\ clock < MaxTime
    /\ \A t \in Threads : Waiting(t) => clock - now[t] < MaxStall
    /\ clock' = clock + 1
    /\ granted' = [k \in Keys |-> [m \in 0..MaxTime |->
                    IF m + Window + MaxStall <= clock' THEN 0 ELSE granted[k][m]]]
    /\ UNCHANGED <<hits, now, key, answer>>

ReadClock(t, k) ==
    /\ ~Waiting(t)
    /\ now' = [now EXCEPT ![t] = clock]
    /\ key' = [key EXCEPT ![t] = k]
    /\ answer' = [answer EXCEPT ![t] = None]
    /\ UNCHANGED <<clock, hits, granted>>

\* _prune: a caller is dropped when its last entry is out of the window.
Pruned(table, cutoff) ==
    [k \in Keys |->
       IF table[k] # None
          /\ (table[k] = <<>> \/ table[k][Len(table[k])] <= cutoff)
         THEN None ELSE table[k]]

\* Slip: prunes only when the table is already over its cap.
LookupLate(k, cutoff) ==
    IF hits[k] # None THEN hits
    ELSE LET room == IF Cardinality(Tracked) > MaxTrackedKeys
                       THEN Pruned(hits, cutoff) ELSE hits
         IN  [room EXCEPT ![k] = <<>>]

\* The table with an entry for k: a new caller is added whether or not the
\* pruning made room for it.
Lookup(k, cutoff) ==
    IF hits[k] # None THEN hits
    ELSE LET room == IF Cardinality(Tracked) >= MaxTrackedKeys
                       THEN Pruned(hits, cutoff) ELSE hits
         IN  [room EXCEPT ![k] = <<>>]

\* Slip: keeps the request that expires at this very moment.
UnexpiredInclusive(h, cutoff) ==
    LET live == {i \in 1..Len(h) : h[i] >= cutoff}
    IN  IF live = {} THEN <<>> ELSE SubSeq(h, Min(live), Len(h))

\* popleft while the first entry is out of the window.
Unexpired(h, cutoff) ==
    LET live == {i \in 1..Len(h) : h[i] > cutoff}
    IN  IF live = {} THEN <<>> ELSE SubSeq(h, Min(live), Len(h))

\* Under the lock: the two outcomes of check.
Allow(t) ==
    LET k == key[t]
        table == Lookup(k, Cutoff(t))
        live == Unexpired(table[k], Cutoff(t))
    IN  /\ Waiting(t)
        /\ Len(live) < MaxRequests
        /\ hits' = [table EXCEPT ![k] = Append(live, now[t])]
        /\ granted' = [granted EXCEPT ![k][clock] = @ + 1]
        /\ now' = [now EXCEPT ![t] = None]
        /\ key' = [key EXCEPT ![t] = None]
        /\ UNCHANGED <<clock, answer>>

\* Slip: a request that is turned away counts all the same.
RejectAndCount(t) ==
    LET k == key[t]
        table == Lookup(k, Cutoff(t))
        live == Unexpired(table[k], Cutoff(t))
    IN  /\ Waiting(t)
        /\ Len(live) >= MaxRequests
        /\ hits' = [table EXCEPT ![k] = Append(Tail(live), now[t])]
        /\ answer' = [answer EXCEPT ![t] = live[1] + Window - now[t]]
        /\ now' = [now EXCEPT ![t] = None]
        /\ key' = [key EXCEPT ![t] = None]
        /\ UNCHANGED <<clock, granted>>

\* Slip: tells the caller to wait for the newest request to expire.
RejectUntilNewest(t) ==
    LET k == key[t]
        table == Lookup(k, Cutoff(t))
        live == Unexpired(table[k], Cutoff(t))
    IN  /\ Waiting(t)
        /\ Len(live) >= MaxRequests
        /\ hits' = [table EXCEPT ![k] = live]
        /\ answer' = [answer EXCEPT ![t] = live[Len(live)] + Window - now[t]]
        /\ now' = [now EXCEPT ![t] = None]
        /\ key' = [key EXCEPT ![t] = None]
        /\ UNCHANGED <<clock, granted>>

Reject(t) ==
    LET k == key[t]
        table == Lookup(k, Cutoff(t))
        live == Unexpired(table[k], Cutoff(t))
    IN  /\ Waiting(t)
        /\ Len(live) >= MaxRequests
        /\ hits' = [table EXCEPT ![k] = live]
        /\ answer' = [answer EXCEPT ![t] = live[1] + Window - now[t]]
        /\ now' = [now EXCEPT ![t] = None]
        /\ key' = [key EXCEPT ![t] = None]
        /\ UNCHANGED <<clock, granted>>

Next ==
    \/ Tick
    \/ \E t \in Threads, k \in Keys : ReadClock(t, k)
    \/ \E t \in Threads : Allow(t) \/ Reject(t)

Spec == Init /\ [][Next]_vars

-----------------------------------------------------------------------------
(* What the limiter has to get right.                                      *)

Finishes(t) == Waiting(t) /\ now'[t] = None

\* "Expired keys are pruned before the cap bites": when a new caller takes the
\* table past its cap, every other caller still in it has a live request.
CapGrowsOnlyWhenLive ==
    [][/\ \E k \in Keys : hits[k] = None /\ hits'[k] # None
       /\ Cardinality({k \in Keys : hits'[k] # None}) > MaxTrackedKeys
       => \E t \in Threads :
            /\ Finishes(t)
            /\ \A k \in Keys \ {key[t]} : hits'[k] # None =>
                 \E i \in 1..Len(hits'[k]) : hits'[k][i] > Cutoff(t)]_vars

\* check: a rejected caller is told the seconds "before the oldest request
\* in the window expires", too many only by what a thread may have waited.
RetryIsOldest ==
    [][\A t \in Threads : Finishes(t) /\ answer'[t] # None =>
         \A i \in 1..Len(hits'[key[t]]) :
            answer'[t] <= hits'[key[t]][i] + Window - now[t] + MaxStall]_vars

\* The limiter does what a limiter is for: it neither admits too many nor
\* turns away a caller that has room, up to the wait for the lock, whatever
\* is appended out of order, expired or pruned (RateLimiter.check).
Contract == INSTANCE LimiterContract WITH
    Requests <- Threads,
    Slack <- MaxStall,
    asking <- key,
    refused <- {t \in Threads : answer[t] # None},
    admitted <- granted
KeepsItsContract == Contract!Spec
=============================================================================
