----------------------------- MODULE Documents ------------------------------
(***************************************************************************)
(* What the rest of the system knows of a document: its identity and the   *)
(* chunks it is cut into (src/models/chunk.py, src/ingestion/loader.py,    *)
(* src/ingestion/chunker.py).                                              *)
(*                                                                         *)
(* A chunk_id is <<document, position>>.  The document part is a digest of *)
(* the uploaded bytes alone, so the same bytes read another way (another   *)
(* file suffix, another title, other chunk settings) reuse the same ids.   *)
(***************************************************************************)
EXTENDS Naturals, FiniteSets

CONSTANTS
    Docs,       \* document ids: digests of distinct byte contents
    Readings,   \* ways to turn bytes into text: suffix, title, chunk settings
    MaxPieces,  \* bound on the chunks of one document
    PieceCount, \* PieceCount[d, r]: chunks d yields under r, 0 if unreadable
    None        \* absence of a row, a field or an upload

ASSUME DocumentsAssumption ==
    /\ MaxPieces \in Nat \ {0}
    /\ PieceCount \in [Docs \X Readings -> 0..MaxPieces]
    /\ None \notin Docs \cup Readings \cup 0..MaxPieces

ChunkIds == Docs \X (0..MaxPieces - 1)

\* Positions are sequential from 0 over the whole document, so the ids a
\* reading yields are a prefix of the document's.
FirstPieces(d, n) == {c \in ChunkIds : c[1] = d /\ c[2] < n}
Pieces(d, r) == FirstPieces(d, PieceCount[d, r])
=============================================================================
