------------------------------ MODULE MCIngest ------------------------------
(***************************************************************************)
(* Small instances of IngestPipeline.                                      *)
(***************************************************************************)
EXTENDS IngestProperties, TLC

CONSTANTS d1, d2, pdf, text

\* d1 is a PDF of one chunk, cut into three when its bytes are read as text;
\* d2 cannot be read as a PDF.
MCPieceCount ==
    <<d1, pdf>> :> 1 @@ <<d1, text>> :> 3 @@ <<d2, pdf>> :> 0 @@ <<d2, text>> :> 2

Symmetry == Permutations(Jobs)
=============================================================================
