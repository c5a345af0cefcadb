--------------------------- MODULE MCIngestClients --------------------------
(***************************************************************************)
(* Small instances of IngestClients.                                       *)
(***************************************************************************)
EXTENDS IngestClients, TLC

CONSTANTS d1, pdf, text

\* One file: three chunks when read as text, unreadable as a PDF.
MCPieceCount ==
    <<d1, pdf>> :> 0 @@ <<d1, text>> :> 3
=============================================================================
