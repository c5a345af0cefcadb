--------------------------- MODULE LimiterContract --------------------------
(***************************************************************************)
(* What a limiter is for, without how it counts: of a caller's requests it *)
(* admits at most MaxRequests in a window, and turns none away while fewer *)
(* than that were admitted in a window.  Slack is by how much the window   *)
(* it goes by may be off.                                                  *)
(***************************************************************************)
EXTENDS Integers, FiniteSetsExt

CONSTANTS Requests, Keys, MaxRequests, Window, Slack, MaxTime, None

VARIABLES
    clock,    \* the time
    asking,   \* request -> the caller it is from, None when not pending
    refused,  \* the requests last turned away
    admitted  \* caller -> moment -> requests admitted then, while it counts

vars == <<clock, asking, refused, admitted>>

\* Requests of k admitted in the last span units.
Recent(k, span) ==
    MapThenSumSet(LAMBDA m : admitted[k][m],
                  {m \in 0..MaxTime : m + span > clock})

Init ==
    /\ clock = 0
    /\ asking = [r \in Requests |-> None]
    /\ refused = {}
    /\ admitted = [k \in Keys |-> [m \in 0..MaxTime |-> 0]]

Pass ==
    /\ clock' = clock + 1
    /\ admitted' = [k \in Keys |-> [m \in 0..MaxTime |->
         IF m + Window + Slack > clock' THEN admitted[k][m] ELSE 0]]
    /\ UNCHANGED <<asking, refused>>

Arrive(r, k) ==
    /\ asking[r] = None
    /\ asking' = [asking EXCEPT ![r] = k]
    /\ refused' = refused \ {r}
    /\ UNCHANGED <<clock, admitted>>

Admit(r) ==
    /\ asking[r] # None
    /\ Recent(asking[r], Window - Slack) < MaxRequests
    /\ admitted' = [admitted EXCEPT ![asking[r]][clock] = @ + 1]
    /\ asking' = [asking EXCEPT ![r] = None]
    /\ UNCHANGED <<clock, refused>>

Refuse(r) ==
    /\ asking[r] # None
    /\ Recent(asking[r], Window + Slack) >= MaxRequests
    /\ refused' = refused \cup {r}
    /\ asking' = [asking EXCEPT ![r] = None]
    /\ UNCHANGED <<clock, admitted>>

Next ==
    \/ Pass
    \/ \E r \in Requests : Admit(r) \/ Refuse(r) \/ \E k \in Keys : Arrive(r, k)

Spec == Init /\ [][Next]_vars
=============================================================================
