------------------------------- MODULE Corpus -------------------------------
(***************************************************************************)
(* The three copies of an ingested document: rows of the SQLite table      *)
(* chunks (src/storage/chunk_store.py), vectors in the Pinecone index      *)
(* (src/storage/vector_store.py), and the in-memory BM25 index of each API *)
(* process (src/retrieval/bm25.py, hybrid.py).  All are keyed by chunk_id. *)
(***************************************************************************)
EXTENDS Documents

CONSTANT Workers \* API processes sharing one SQLite file and one Pinecone index

VARIABLES
    chunks,      \* the SQLite table: chunk id -> reading it holds, or None
    vectors,     \* the vectors of the Pinecone index, likewise
    indexExists, \* whether the serverless Pinecone index has been created
    bm25         \* per process: the snapshot its live BM25Index was built from

corpusVars == <<chunks, vectors, indexExists, bm25>>

Tables == [ChunkIds -> Readings \cup {None}]
EmptyTable == [c \in ChunkIds |-> None]

\* The ids a table has a row for.
Present(t) == {c \in ChunkIds : t[c] # None}

\* INSERT ... ON CONFLICT(chunk_id) DO UPDATE, one reading for all the ids.
Write(t, ids, r) == [c \in ChunkIds |-> IF c \in ids THEN r ELSE t[c]]

\* Slip: a batch replaces what the index holds.
ReplaceVectors(ids, r) == vectors' = Write(EmptyTable, ids, r)

\* Slip: positions go on after the rows the document already has.
UpsertChunksAfter(d, r) ==
    LET n == Cardinality({c \in Present(chunks) : c[1] = d})
    IN  chunks' = Write(chunks, FirstPieces(d, n + PieceCount[d, r])
                                  \ FirstPieces(d, n), r)

UpsertChunks(d, r) == chunks' = Write(chunks, Pieces(d, r), r)
UpsertVectors(ids, r) == vectors' = Write(vectors, ids, r)
CreateServerlessIndex == indexExists' = TRUE
UpdateBm25(w, t) == bm25' = [bm25 EXCEPT ![w] = t]

CorpusTypeOK ==
    /\ chunks \in Tables
    /\ vectors \in Tables
    /\ indexExists \in BOOLEAN
    /\ bm25 \in [Workers -> Tables]

CorpusInit ==
    /\ chunks = EmptyTable
    /\ vectors = EmptyTable
    /\ indexExists = FALSE
    /\ bm25 = [w \in Workers |-> EmptyTable]
=============================================================================
