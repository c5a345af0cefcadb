------------------------------- MODULE MCQuery ------------------------------
(***************************************************************************)
(* Small instances of QueryPipeline.                                       *)
(***************************************************************************)
EXTENDS QueryProperties, IngestProperties, TLC

CONSTANTS d1, d2, pdf

\* d1 has two chunks, d2 one.
MCPieceCount == <<d1, pdf>> :> 2 @@ <<d2, pdf>> :> 1

\* The ids of d1 come before those of d2.
MCIdOrder == [id \in ChunkIds |-> id[2] + (IF id[1] = d1 THEN 0 ELSE MaxPieces)]

Symmetry == Permutations(Jobs)
=============================================================================
