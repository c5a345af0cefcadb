------------------------------ MODULE Indexing ------------------------------
(***************************************************************************)
(* One document on its way through IndexingService._index: loaded          *)
(* (src/ingestion/loader.py), cut page by page (chunker.py), stored,       *)
(* embedded in batches of one size (src/embeddings/embedder.py) and        *)
(* upserted in batches of another (src/storage/vector_store.py).           *)
(*                                                                         *)
(* IngestPipeline takes from here what it knows of a document: that it is  *)
(* a number of chunks, with sequential ids, each with its own vector.      *)
(* The splitter is a library: of a page it is only known in which pieces   *)
(* it comes back, some of them blank, all of them if the page is.          *)
(***************************************************************************)
EXTENDS Integers, Sequences, FiniteSets

CONSTANTS
    Texts,          \* what a piece may say
    Blank,          \* a piece of white space
    Sources,        \* the documents: their pages, cut, and whether in a PDF
    EmbedBatchSize, \* embed_batch_size
    UpsertBatchSize, \* vector_upsert_batch_size
    None

ASSUME IndexingAssumption ==
    /\ EmbedBatchSize \in Nat \ {0}
    /\ UpsertBatchSize \in Nat \ {0}
    /\ Blank \notin Texts
    /\ \A s \in Sources : s.pages \in Seq(Seq(Texts \cup {Blank}))

VARIABLES
    source,   \* the document
    step,     \* what is to be done with it
    page,     \* the loops of chunk_document: the page and the piece it is at
    piece,
    position, \* ... and the position the next chunk gets
    chunks,   \* its chunks, in order
    rows,     \* the chunk table: position -> chunk
    asked,    \* how many texts have been sent to be embedded
    vectors,  \* the vectors that came back, each named by the text it is of
    sent,     \* how many records have been upserted
    index     \* the vector index: position -> vector

ivars == <<source, step, page, piece, position, chunks, rows, asked, vectors,
           sent, index>>

IndexingInit ==
    /\ source \in Sources
    /\ step = "load"
    /\ page = 1 /\ piece = 1 /\ position = 0
    /\ chunks = <<>> /\ rows = <<>>
    /\ asked = 0 /\ vectors = <<>>
    /\ sent = 0 /\ index = <<>>

Pages == source.pages

-----------------------------------------------------------------------------
(* load_bytes and chunk_document.                                          *)

Readable == \E n \in 1..Len(Pages) : \E i \in 1..Len(Pages[n]) : Pages[n][i] # Blank

\* ValueError unless some page has text.  The splitter drops white space alone,
\* so such a page has a piece that is not blank.
LoadBytes ==
    /\ step = "load"
    /\ step' = IF Readable THEN "chunk" ELSE "rejected"
    /\ UNCHANGED <<source, page, piece, position, chunks, rows, asked, vectors, sent, index>>

InPage == step = "chunk" /\ page <= Len(Pages) /\ piece <= Len(Pages[page])

SkipBlank ==
    /\ InPage
    /\ Pages[page][piece] = Blank
    /\ piece' = piece + 1
    /\ UNCHANGED <<source, step, page, position, chunks, rows, asked, vectors, sent, index>>

\* Slip: enumerate from 0.
PageNumberFromZero == IF source.pdf THEN page - 1 ELSE None

\* Pages of a PDF are numbered from 1; a text has none.
PageNumber == IF source.pdf THEN page ELSE None

AppendChunk ==
    /\ InPage
    /\ Pages[page][piece] # Blank
    /\ chunks' = Append(chunks, [text |-> Pages[page][piece],
                                position |-> position, page |-> PageNumber])
    /\ position' = position + 1
    /\ piece' = piece + 1
    /\ UNCHANGED <<source, step, page, rows, asked, vectors, sent, index>>

\* Slip: positions start again on every page.
TurnPageRestarting ==
    /\ step = "chunk" /\ page <= Len(Pages) /\ piece > Len(Pages[page])
    /\ page' = page + 1
    /\ piece' = 1
    /\ position' = 0
    /\ UNCHANGED <<source, step, chunks, rows, asked, vectors, sent, index>>

TurnPage ==
    /\ step = "chunk" /\ page <= Len(Pages) /\ piece > Len(Pages[page])
    /\ page' = page + 1
    /\ piece' = 1
    /\ UNCHANGED <<source, step, position, chunks, rows, asked, vectors, sent, index>>

-----------------------------------------------------------------------------
(* The rest of _index.                                                     *)

Ids == {chunks[i].position : i \in 1..Len(chunks)}
LastWith(p) ==
    CHOOSE i \in 1..Len(chunks) :
        /\ chunks[i].position = p
        /\ \A k \in i + 1 .. Len(chunks) : chunks[k].position # p

\* One row per id, of two chunks with the same id the later one's; other
\* rows stay.
UpsertedRows ==
    [p \in DOMAIN rows \cup Ids |-> IF p \in Ids THEN chunks[LastWith(p)] ELSE rows[p]]

\* A document without chunks is done with; otherwise the rows come first.
StoreRows ==
    /\ step = "chunk" /\ page > Len(Pages)
    /\ step' = IF chunks = <<>> THEN "done" ELSE "embed"
    /\ rows' = UpsertedRows
    /\ UNCHANGED <<source, page, piece, position, chunks, asked, vectors, sent, index>>

UpTo(n, size) == IF n + size < Len(chunks) THEN n + size ELSE Len(chunks)
BatchTexts(from, to) == [i \in 1..(to - from) |-> chunks[from + i].text]

\* upsert checks the count before anything is sent.
Aligned(answer) == IF Len(answer) = Len(chunks) THEN "upsert" ELSE "rejected"

\* The provider answers a batch with a vector for each of its texts.
EmbedBatch ==
    /\ step = "embed"
    /\ asked' = UpTo(asked, EmbedBatchSize)
    /\ vectors' = vectors \o BatchTexts(asked, asked')
    /\ step' = IF asked' = Len(chunks) THEN Aligned(vectors') ELSE step
    /\ UNCHANGED <<source, page, piece, position, chunks, rows, sent, index>>

\* The provider leaves some text of the batch out.
EmbedBatchShort ==
    /\ step = "embed"
    /\ asked' = UpTo(asked, EmbedBatchSize)
    /\ \E gap \in asked + 1 .. asked' :
         vectors' = vectors \o BatchTexts(asked, gap - 1) \o BatchTexts(gap, asked')
    /\ step' = IF asked' = Len(chunks) THEN Aligned(vectors') ELSE step
    /\ UNCHANGED <<source, page, piece, position, chunks, rows, sent, index>>

\* Slip: the records of a batch are numbered from its start.
PairedInBatch(i) == vectors[i - sent]

\* zip: a chunk and the vector of the same place.
Paired(i) == vectors[i]

UpsertRecords ==
    /\ step = "upsert"
    /\ sent' = UpTo(sent, UpsertBatchSize)
    /\ LET batch == sent + 1 .. sent'
           ids == {chunks[i].position : i \in batch}
       IN  index' = [p \in DOMAIN index \cup ids |->
             IF p \in ids
               THEN Paired(CHOOSE i \in batch : chunks[i].position = p)
               ELSE index[p]]
    /\ step' = IF sent' = Len(chunks) THEN "done" ELSE step
    /\ UNCHANGED <<source, page, piece, position, chunks, rows, asked, vectors>>

\* A call to a provider raises; what earlier batches left stays.
ProviderFails ==
    /\ step \in {"embed", "upsert"}
    /\ step' = "failed"
    /\ UNCHANGED <<source, page, piece, position, chunks, rows, asked, vectors, sent, index>>

\* The same document once more, whatever became of it before.
IndexAgain ==
    /\ step \in {"done", "rejected", "failed"}
    /\ step' = "load"
    /\ page' = 1 /\ piece' = 1 /\ position' = 0 /\ chunks' = <<>>
    /\ asked' = 0 /\ vectors' = <<>> /\ sent' = 0
    /\ UNCHANGED <<source, rows, index>>

IndexingNext ==
    \/ LoadBytes \/ SkipBlank \/ AppendChunk \/ TurnPage \/ StoreRows
    \/ EmbedBatch \/ EmbedBatchShort \/ UpsertRecords
    \/ ProviderFails \/ IndexAgain

IndexingSpec == IndexingInit /\ [][IndexingNext]_ivars

-----------------------------------------------------------------------------
(* What indexing has to get right.                                         *)

\* Positions are sequential "across the whole document" (chunker.py): through
\* blank pieces, empty pages and page breaks no position is left out or used
\* twice, so the ids of a document are the first so many, which is what
\* Documents takes for granted.
PositionsAreSequential ==
    \A i \in 1..Len(chunks) : chunks[i].position = i - 1

\* The vector under an id is that of the text in the row under the same id,
\* over every pair of batch sizes and whatever batch the provider leaves a
\* text out of (CohereEmbedder._embed, PineconeVectorStore.upsert).
VectorsBelongToRows ==
    \A p \in DOMAIN index : p \in DOMAIN rows /\ index[p] = rows[p].text

\* The pieces that say something, by page and place, and the reading order.
Spoken == UNION {{<<n, i>> : i \in {i \in 1..Len(Pages[n]) : Pages[n][i] # Blank}}
                   : n \in 1..Len(Pages)}
Before(a) ==
    Cardinality({b \in Spoken : b[1] < a[1] \/ (b[1] = a[1] /\ b[2] < a[2])})

\* A document that is done is there as a whole, at the first attempt or after
\* any number that failed on the way: one row and one vector for every piece
\* that says something, on its page, in reading order, and at least one
\* (_index; its empty result is never returned).
WholeWhenDone ==
    step = "done" =>
        /\ Spoken # {}
        /\ DOMAIN rows = 0..Cardinality(Spoken) - 1
        /\ DOMAIN index = DOMAIN rows
        /\ \A a \in Spoken :
             rows[Before(a)] = [text |-> Pages[a[1]][a[2]], position |-> Before(a),
                                page |-> IF source.pdf THEN a[1] ELSE None]
=============================================================================
