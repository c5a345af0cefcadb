--------------------------- MODULE IngestContract ---------------------------
(***************************************************************************)
(* What a client of POST /ingest and GET /ingest/{job_id} is promised,     *)
(* without the steps that bring it about.  A job is accepted, may run, and *)
(* ends once.  It ends well only when everything it was asked to keep is   *)
(* kept, and nothing kept is ever let go.  A restart of the service ends   *)
(* every job it finds unfinished.                                          *)
(***************************************************************************)
EXTENDS FiniteSets

CONSTANTS Jobs, Items

VARIABLES
    board, \* job -> what GET /ingest/{job_id} reports
    asked, \* job -> the items its document consists of
    kept   \* the items held both as a row and as a vector

vars == <<board, asked, kept>>

Open == {"pending", "running"}

Init ==
    /\ board = [j \in Jobs |-> "absent"]
    /\ asked = [j \in Jobs |-> {}]
    /\ kept = {}

Accept(j) ==
    /\ board[j] = "absent"
    /\ board' = [board EXCEPT ![j] = "pending"]
    /\ \E items \in SUBSET Items : asked' = [asked EXCEPT ![j] = items]
    /\ UNCHANGED kept

Start(j) ==
    /\ board[j] = "pending"
    /\ board' = [board EXCEPT ![j] = "running"]
    /\ UNCHANGED <<asked, kept>>

Keep(j) ==
    /\ board[j] = "running"
    /\ kept \subseteq kept'
    /\ kept' \subseteq kept \cup asked[j]
    /\ UNCHANGED <<board, asked>>

Succeed(j) ==
    /\ board[j] = "running"
    /\ asked[j] # {}
    /\ asked[j] \subseteq kept
    /\ board' = [board EXCEPT ![j] = "succeeded"]
    /\ UNCHANGED <<asked, kept>>

Fail(j) ==
    /\ board[j] = "running"
    /\ board' = [board EXCEPT ![j] = "failed"]
    /\ UNCHANGED <<asked, kept>>

Restart ==
    /\ board' = [j \in Jobs |-> IF board[j] \in Open THEN "failed" ELSE board[j]]
    /\ UNCHANGED <<asked, kept>>

Next ==
    \/ \E j \in Jobs : Accept(j) \/ Start(j) \/ Keep(j) \/ Succeed(j) \/ Fail(j)
    \/ Restart

Spec == Init /\ [][Next]_vars
=============================================================================
