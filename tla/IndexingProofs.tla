--------------------------- MODULE IndexingProofs ----------------------------
(***************************************************************************)
(* Theorems about the indexing of one document, for every document, every  *)
(* way it is cut into pieces and every pair of batch sizes, however often  *)
(* it is indexed and wherever a provider fails on the way.                 *)
(***************************************************************************)
EXTENDS Indexing, FiniteSetTheorems, TLAPS

-----------------------------------------------------------------------------
(* The inductive invariant: chunks, rows and vectors are each related to   *)
(* the pieces that say something, not to one another.                      *)

Steps == {"load", "chunk", "embed", "upsert", "done", "rejected", "failed"}
Chunk == [text : Texts, position : Nat, page : Nat \cup {None}]

IndexingTypeOK ==
    /\ source \in Sources
    /\ step \in Steps
    /\ page \in Nat \ {0} /\ piece \in Nat \ {0}
    /\ chunks \in Seq(Chunk)
    /\ asked \in Nat /\ sent \in Nat
    /\ vectors \in Seq(Texts)

Precedes(b, a) == b[1] < a[1] \/ (b[1] = a[1] /\ b[2] < a[2])

\* The pieces the loops of chunk_document have been through.
Passed == {b \in Spoken : Precedes(b, <<page, piece>>)}

ChunkOf(a) == [text |-> Pages[a[1]][a[2]], position |-> Before(a),
               page |-> IF source.pdf THEN a[1] ELSE None]

\* The chunks are those of the pieces passed, numbered by how many precede.
CutInv ==
    /\ IsFiniteSet(Passed)
    /\ position = Cardinality(Passed)
    /\ position = Len(chunks)
    /\ \A i \in 1..Len(chunks) :
         \E a \in Passed : Before(a) = i - 1 /\ chunks[i] = ChunkOf(a)
    /\ \A a \in Passed :
         Before(a) + 1 \in 1..Len(chunks) /\ chunks[Before(a) + 1] = ChunkOf(a)
    /\ step \in {"embed", "upsert", "done"} => page > Len(Pages)
    /\ step \in {"chunk", "embed", "upsert", "done"} => Spoken # {}

\* A row is the chunk of a piece, and once stored no piece is without one.
RowsInv ==
    /\ \A p \in DOMAIN rows :
         /\ IsFiniteSet(Spoken)
         /\ \E a \in Spoken : Before(a) = p /\ rows[p] = ChunkOf(a)
    /\ step \in {"embed", "upsert", "done"} =>
         \A a \in Spoken : Before(a) \in DOMAIN rows

\* As long as no text has been left out, vectors and chunks are in step.
VectorsInv ==
    /\ Len(vectors) <= asked
    /\ asked <= Len(chunks)
    /\ Len(vectors) = asked =>
         \A i \in 1..asked : vectors[i] = chunks[i].text
    /\ step = "upsert" => Len(vectors) = Len(chunks) /\ asked = Len(chunks)

\* A vector is of the piece its id says, which has its row.
IndexInv ==
    /\ \A p \in DOMAIN index :
         /\ p \in DOMAIN rows
         /\ \E a \in Spoken : Before(a) = p /\ index[p] = ChunkOf(a).text
    /\ sent <= Len(chunks)
    /\ step \in {"load", "chunk", "embed"} => sent = 0
    /\ step = "upsert" => \A i \in 1..sent : i - 1 \in DOMAIN index
    /\ step = "done" => \A i \in 1..Len(chunks) : i - 1 \in DOMAIN index

IndexingInv == IndexingTypeOK /\ CutInv /\ RowsInv /\ VectorsInv /\ IndexInv

-----------------------------------------------------------------------------
(* Lemmas about the pieces.                                                *)

\* The pieces are those that say something, at their places.
LEMMA SpokenPieces ==
    ASSUME source \in Sources
    PROVE  /\ Pages \in Seq(Seq(Texts \cup {Blank}))
           /\ Spoken = {a \in (Nat \ {0}) \X (Nat \ {0}) :
                          /\ a[1] <= Len(Pages) /\ a[2] <= Len(Pages[a[1]])
                          /\ Pages[a[1]][a[2]] # Blank}
<1>1. Pages \in Seq(Seq(Texts \cup {Blank}))
  BY IndexingAssumption DEF Pages
<1>2. ASSUME NEW a
      PROVE  a \in Spoken <=> /\ a \in (Nat \ {0}) \X (Nat \ {0})
                              /\ a[1] <= Len(Pages) /\ a[2] <= Len(Pages[a[1]])
                              /\ Pages[a[1]][a[2]] # Blank
  <2>1. a \in Spoken <=>
          \E n \in 1..Len(Pages) : \E i \in 1..Len(Pages[n]) :
             Pages[n][i] # Blank /\ a = <<n, i>>
    <3> DEFINE Here(n) == {<<n, i>> : i \in {i \in 1..Len(Pages[n]) : Pages[n][i] # Blank}}
    <3>1. Spoken = UNION {Here(n) : n \in 1..Len(Pages)}
      BY DEF Spoken
    <3>2. \A n : a \in Here(n) <=>
            \E i \in 1..Len(Pages[n]) : Pages[n][i] # Blank /\ a = <<n, i>>
      OBVIOUS
    <3> QED
      BY <3>1, <3>2
  <2>2. \A n \in 1..Len(Pages) : Pages[n] \in Seq(Texts \cup {Blank})
    BY <1>1
  <2>3. \A n \in 1..Len(Pages) : Len(Pages[n]) \in Nat
    BY <2>2
  <2>4. Len(Pages) \in Nat
    BY <1>1
  <2> QED
    BY <2>1, <2>3, <2>4
<1> QED
  BY <1>1, <1>2

\* What a piece that says something says is a text.
LEMMA SpokenTexts ==
    ASSUME source \in Sources, NEW a \in Spoken
    PROVE  Pages[a[1]][a[2]] \in Texts
<1>1. a[1] \in 1..Len(Pages) /\ a[2] \in 1..Len(Pages[a[1]])
      /\ Pages[a[1]][a[2]] # Blank
  <2>1. Pages \in Seq(Seq(Texts \cup {Blank}))
    BY SpokenPieces
  <2>2. /\ a[1] \in Nat \ {0} /\ a[2] \in Nat \ {0}
        /\ a[1] <= Len(Pages) /\ a[2] <= Len(Pages[a[1]])
        /\ Pages[a[1]][a[2]] # Blank
    BY SpokenPieces
  <2>3. Len(Pages) \in Nat
    BY <2>1
  <2>4. a[1] \in 1..Len(Pages)
    BY <2>2, <2>3
  <2>5. Len(Pages[a[1]]) \in Nat
    BY <2>1, <2>4
  <2> QED
    BY <2>2, <2>4, <2>5
<1>2. Pages[a[1]] \in Seq(Texts \cup {Blank})
  BY <1>1, SpokenPieces
<1> QED
  BY <1>1, <1>2

\* Of two pieces one precedes the other, and precedence is transitive.
LEMMA PiecesAreOrdered ==
    ASSUME source \in Sources
    PROVE  /\ \A a, b \in Spoken : a = b \/ Precedes(a, b) \/ Precedes(b, a)
           /\ \A a \in Spoken : ~Precedes(a, a)
           /\ \A a, b, c \in (Nat \ {0}) \X (Nat \ {0}) :
                Precedes(a, b) /\ Precedes(b, c) => Precedes(a, c)
<1>1. \A a \in Spoken : a \in (Nat \ {0}) \X (Nat \ {0})
  BY SpokenPieces
<1>2. \A a, b \in (Nat \ {0}) \X (Nat \ {0}) :
        a[1] = b[1] /\ a[2] = b[2] => a = b
  OBVIOUS
<1>3. \A a \in (Nat \ {0}) \X (Nat \ {0}) : a[1] \in Int /\ a[2] \in Int
  OBVIOUS
<1>4. \A a, b \in (Nat \ {0}) \X (Nat \ {0}) :
        a = b \/ Precedes(a, b) \/ Precedes(b, a)
  BY <1>2, <1>3 DEF Precedes
<1>5. \A a \in (Nat \ {0}) \X (Nat \ {0}) : ~Precedes(a, a)
  BY <1>3 DEF Precedes
<1>6. \A a, b, c \in (Nat \ {0}) \X (Nat \ {0}) :
        Precedes(a, b) /\ Precedes(b, c) => Precedes(a, c)
  BY <1>3 DEF Precedes
<1> QED
  BY <1>1, <1>4, <1>5, <1>6

\* Before counts the pieces that precede one.
LEMMA BeforeCounts ==
    ASSUME NEW a
    PROVE  Before(a) = Cardinality({b \in Spoken : Precedes(b, a)})
  BY DEF Before, Precedes

\* No two pieces have as many before them.
LEMMA BeforeIsInjective ==
    ASSUME source \in Sources, IsFiniteSet(Spoken),
           NEW a \in Spoken, NEW c \in Spoken, Before(a) = Before(c)
    PROVE  a = c
<1> DEFINE Ahead(x) == {b \in Spoken : Precedes(b, x)}
<1>1. ASSUME NEW x \in Spoken, NEW y \in Spoken, Precedes(x, y)
      PROVE  Before(x) # Before(y)
  <2>1. Ahead(x) \subseteq Ahead(y) /\ x \in Ahead(y) /\ x \notin Ahead(x)
    BY <1>1, PiecesAreOrdered, SpokenPieces
  <2>2. IsFiniteSet(Ahead(y))
    BY FS_Subset
  <2>3. Cardinality(Ahead(x)) # Cardinality(Ahead(y))
    BY <2>1, <2>2, FS_Subset
  <2> QED
    BY <2>3, BeforeCounts
<1> QED
  BY <1>1, PiecesAreOrdered

\* The document is not swapped while it is indexed.
LEMMA SameDocument ==
    ASSUME source' = source
    PROVE  /\ Pages' = Pages /\ Spoken' = Spoken
           /\ \A a : Before(a)' = Before(a)
           /\ \A a : ChunkOf(a)' = ChunkOf(a)
<1>1. Pages' = Pages
  BY DEF Pages
<1>2. Spoken' = Spoken
  BY <1>1 DEF Spoken
<1>3. ASSUME NEW a PROVE Before(a)' = Before(a)
  BY <1>2 DEF Before
<1>4. ASSUME NEW a PROVE ChunkOf(a)' = ChunkOf(a)
  BY <1>1, <1>3 DEF ChunkOf
<1> QED
  BY <1>1, <1>2, <1>3, <1>4

\* Behind the last page everything has been passed.
LEMMA AllPassed ==
    ASSUME source \in Sources, page \in Nat, page > Len(Pages)
    PROVE  Passed = Spoken
  BY SpokenPieces DEF Passed, Precedes

\* The chunk count is a number, and so is each number of preceding pieces
\* among those passed.
LEMMA PassedNumbers ==
    ASSUME IndexingTypeOK, CutInv
    PROVE  /\ position \in Nat /\ Len(chunks) \in Nat
           /\ \A i \in 1..Len(chunks) : chunks[i] \in Chunk
           /\ \A i \in 1..Len(chunks) : chunks[i].position = i - 1
           /\ \A a \in Passed : Before(a) \in 0..Len(chunks) - 1
<1>1. position \in Nat /\ Len(chunks) \in Nat
  BY FS_CardinalityType DEF CutInv
<1>2. \A i \in 1..Len(chunks) : chunks[i] \in Chunk
  BY DEF IndexingTypeOK
<1>3. ASSUME NEW i \in 1..Len(chunks) PROVE chunks[i].position = i - 1
  <2>1. PICK a \in Passed : Before(a) = i - 1 /\ chunks[i] = ChunkOf(a)
    BY DEF CutInv
  <2> QED
    BY <2>1 DEF ChunkOf
<1>4. ASSUME NEW a \in Passed PROVE Before(a) \in 0..Len(chunks) - 1
  <2>1. Before(a) + 1 \in 1..Len(chunks)
    BY DEF CutInv
  <2>2. Before(a) \in Nat
    <3>1. {b \in Spoken : Precedes(b, a)} \subseteq Passed
      BY SpokenPieces, PiecesAreOrdered DEF Passed, IndexingTypeOK
    <3> QED
      BY <3>1, FS_Subset, FS_CardinalityType, BeforeCounts DEF CutInv
  <2> QED
    BY <1>1, <2>1, <2>2
<1> QED
  BY <1>1, <1>2, <1>3, <1>4

-----------------------------------------------------------------------------
(* What a step leaves alone.                                               *)

LEMMA CutKept ==
    ASSUME CutInv, UNCHANGED <<source, page, piece, position, chunks>>,
           step' \in {"embed", "upsert", "done"} => page > Len(Pages),
           step' \in {"chunk", "embed", "upsert", "done"} => Spoken # {}
    PROVE  CutInv'
<1>1. Passed' = Passed
  BY SameDocument DEF Passed, Precedes
<1> QED
  BY <1>1, SameDocument DEF CutInv

LEMMA RowsKept ==
    ASSUME RowsInv, UNCHANGED <<source, rows>>,
           step' \in {"embed", "upsert", "done"} =>
             step \in {"embed", "upsert", "done"}
    PROVE  RowsInv'
  BY SameDocument DEF RowsInv

LEMMA VectorsKept ==
    ASSUME VectorsInv, UNCHANGED <<chunks, asked, vectors>>,
           step' = "upsert" => step = "upsert"
    PROVE  VectorsInv'
  BY DEF VectorsInv

LEMMA IndexKept ==
    ASSUME IndexInv, UNCHANGED <<source, chunks, rows, sent, index>>,
           step' \in {"load", "chunk", "embed"} => step \in {"load", "chunk", "embed"},
           step' = "upsert" => step = "upsert" \/ sent = 0,
           step' = "done" => step = "done"
    PROVE  IndexInv'
<1>1. \A p \in DOMAIN index : index'[p] = index[p]
  OBVIOUS
<1> QED
  BY <1>1, SameDocument DEF IndexInv

-----------------------------------------------------------------------------
(* Every step preserves the invariant.                                     *)

LEMMA InitInv == IndexingInit => IndexingInv
<1> SUFFICES ASSUME IndexingInit PROVE IndexingInv
  OBVIOUS
<1> USE DEF IndexingInit
<1>1. IndexingTypeOK
  BY DEF IndexingTypeOK, Steps
<1>2. CutInv
  <2>1. Passed = {}
    BY SpokenPieces DEF Passed, Precedes
  <2> QED
    BY <2>1, FS_EmptySet DEF CutInv
<1>3. RowsInv
  BY DEF RowsInv
<1>4. VectorsInv
  BY DEF VectorsInv
<1>5. IndexInv
  BY DEF IndexInv
<1> QED
  BY <1>1, <1>2, <1>3, <1>4, <1>5 DEF IndexingInv

LEMMA LoadInv == IndexingInv /\ LoadBytes => IndexingInv'
<1> SUFFICES ASSUME IndexingInv, LoadBytes PROVE IndexingInv'
  OBVIOUS
<1> USE DEF IndexingInv, LoadBytes
<1>1. IndexingTypeOK'
  BY DEF IndexingTypeOK, Steps
<1>2. CutInv'
  <2>1. Readable => Spoken # {}
    <3> SUFFICES ASSUME NEW n \in 1..Len(Pages), NEW i \in 1..Len(Pages[n]),
                        Pages[n][i] # Blank
                 PROVE  <<n, i>> \in Spoken
      BY DEF Readable
    <3> QED
      BY DEF Spoken
  <2> QED
    BY <2>1, CutKept
<1>3. RowsInv'
  BY RowsKept
<1>4. VectorsInv'
  BY VectorsKept
<1>5. IndexInv'
  BY IndexKept DEF IndexInv
<1> QED
  BY <1>1, <1>2, <1>3, <1>4, <1>5

LEMMA SkipInv == IndexingInv /\ SkipBlank => IndexingInv'
<1> SUFFICES ASSUME IndexingInv, SkipBlank PROVE IndexingInv'
  OBVIOUS
<1> USE DEF IndexingInv, SkipBlank
<1>1. IndexingTypeOK'
  BY DEF IndexingTypeOK
<1>2. CutInv'
  <2>1. Passed' = Passed
    BY SpokenPieces, SameDocument DEF Passed, Precedes, IndexingTypeOK
  <2> QED
    BY <2>1, SameDocument DEF CutInv, InPage
<1>3. RowsInv'
  BY RowsKept
<1>4. VectorsInv'
  BY VectorsKept
<1>5. IndexInv'
  BY IndexKept
<1> QED
  BY <1>1, <1>2, <1>3, <1>4, <1>5

LEMMA TurnInv == IndexingInv /\ TurnPage => IndexingInv'
<1> SUFFICES ASSUME IndexingInv, TurnPage PROVE IndexingInv'
  OBVIOUS
<1> USE DEF IndexingInv, TurnPage
<1>1. IndexingTypeOK'
  BY DEF IndexingTypeOK
<1>2. CutInv'
  <2>1. Passed' = Passed
    <3>1. \A b \in Spoken : b[1] \in Nat \ {0} /\ b[2] \in Nat \ {0}
                            /\ (b[1] = page => b[2] <= Len(Pages[page]))
      BY SpokenPieces DEF IndexingTypeOK
    <3>2. Len(Pages[page]) \in Nat
      BY SpokenPieces DEF IndexingTypeOK
    <3> QED
      BY <3>1, <3>2, SameDocument DEF Passed, Precedes, IndexingTypeOK
  <2> QED
    BY <2>1, SameDocument DEF CutInv
<1>3. RowsInv'
  BY RowsKept
<1>4. VectorsInv'
  BY VectorsKept
<1>5. IndexInv'
  BY IndexKept
<1> QED
  BY <1>1, <1>2, <1>3, <1>4, <1>5

\* A further piece comes after all those passed, so its position is the
\* number of pieces before it.
LEMMA AppendInv == IndexingInv /\ AppendChunk => IndexingInv'
<1> SUFFICES ASSUME IndexingInv, AppendChunk PROVE IndexingInv'
  OBVIOUS
<1> USE DEF IndexingInv, AppendChunk
<1> DEFINE here == <<page, piece>>
<1>1. here \in Spoken
  BY DEF InPage, Spoken, IndexingTypeOK
<1>2. position \in Nat /\ Len(chunks) = position
  BY PassedNumbers DEF CutInv
<1>3. Passed = {b \in Spoken : Precedes(b, here)}
  BY DEF Passed
<1>4. Before(here) = position
  BY <1>3, BeforeCounts DEF CutInv
<1>5. Passed' = Passed \cup {here}
  <2>1. Passed' = {b \in Spoken : b[1] < page \/ (b[1] = page /\ b[2] < piece + 1)}
    BY SameDocument DEF Passed, Precedes
  <2>2. Passed = {b \in Spoken : b[1] < page \/ (b[1] = page /\ b[2] < piece)}
    BY DEF Passed, Precedes
  <2>3. \A b \in Spoken : b \in (Nat \ {0}) \X (Nat \ {0})
    BY SpokenPieces DEF IndexingTypeOK
  <2>4. \A b \in Spoken : b[2] < piece + 1 <=> b[2] < piece \/ b[2] = piece
    BY <2>3 DEF IndexingTypeOK
  <2>5. \A b \in Spoken : b[1] = page /\ b[2] = piece <=> b = here
    BY <2>3
  <2> QED
    BY <2>1, <2>2, <2>4, <2>5, <1>1
<1>6. here \notin Passed
  BY <1>1, <1>3, PiecesAreOrdered DEF IndexingTypeOK
<1>7. chunks' = Append(chunks, ChunkOf(here))
  BY <1>4 DEF ChunkOf, PageNumber
<1>8. ChunkOf(here) \in Chunk
  BY <1>1, <1>2, <1>4, SpokenTexts DEF ChunkOf, Chunk, IndexingTypeOK
<1>9. chunks \in Seq(Chunk)
  BY DEF IndexingTypeOK
<1>10. /\ Len(chunks') = position + 1
       /\ chunks'[position + 1] = ChunkOf(here)
       /\ \A i \in 1..Len(chunks) : chunks'[i] = chunks[i]
  <2> HIDE DEF here
  <2> QED
    BY <1>2, <1>7, <1>8, <1>9
<1>11. IndexingTypeOK'
  <2>1. chunks' \in Seq(Chunk)
    <3> HIDE DEF here
    <3> QED
      BY <1>7, <1>8, <1>9
  <2> QED
    BY <2>1 DEF IndexingTypeOK
<1>12. CutInv'
  <2>1. IsFiniteSet(Passed') /\ Cardinality(Passed') = position + 1
    BY <1>5, <1>6, FS_AddElement DEF CutInv
  <2>2. ASSUME NEW i \in 1..(position + 1)
        PROVE  \E a \in Passed' : Before(a)' = i - 1 /\ chunks'[i] = ChunkOf(a)'
    <3>1. CASE i = position + 1
      BY <3>1, <1>2, <1>4, <1>5, <1>10, SameDocument
    <3>2. CASE i # position + 1
      <4>1. i \in 1..Len(chunks)
        BY <3>2, <1>2
      <4>2. PICK a \in Passed : Before(a) = i - 1 /\ chunks[i] = ChunkOf(a)
        BY <4>1 DEF CutInv
      <4> QED
        BY <4>1, <4>2, <1>5, <1>10, SameDocument
    <3> QED
      BY <3>1, <3>2
  <2>3. ASSUME NEW a \in Passed'
        PROVE  /\ Before(a)' + 1 \in 1..(position + 1)
               /\ chunks'[Before(a)' + 1] = ChunkOf(a)'
    <3>1. CASE a = here
      BY <3>1, <1>2, <1>4, <1>10, SameDocument
    <3>2. CASE a # here
      <4>1. a \in Passed
        BY <3>2, <1>5
      <4>2. Before(a) + 1 \in 1..Len(chunks) /\ chunks[Before(a) + 1] = ChunkOf(a)
        BY <4>1 DEF CutInv
      <4> QED
        BY <4>2, <1>2, <1>10, SameDocument
    <3> QED
      BY <3>1, <3>2
  <2>4. (step \in {"chunk", "embed", "upsert", "done"} => Spoken # {})'
    BY <1>1, SameDocument
  <2>5. step' = "chunk" /\ position' = position + 1
    BY DEF InPage
  <2> QED
    BY <2>1, <2>2, <2>3, <2>4, <2>5, <1>10 DEF CutInv
<1>13. RowsInv'
  BY RowsKept
<1>14. VectorsInv'
  <2>1. asked \in Nat /\ asked <= Len(chunks)
    BY DEF VectorsInv, IndexingTypeOK
  <2>2. \A i \in 1..asked : chunks'[i] = chunks[i]
    BY <2>1, <1>2, <1>10
  <2> QED
    BY <2>1, <2>2, <1>2, <1>10 DEF VectorsInv, InPage
<1>15. IndexInv'
  <2>1. sent <= Len(chunks')
    BY <1>2, <1>10 DEF IndexInv, IndexingTypeOK
  <2> QED
    BY <2>1, SameDocument DEF IndexInv, InPage
<1> QED
  BY <1>11, <1>12, <1>13, <1>14, <1>15

\* What is stored is the chunks as they were cut.
LEMMA StoredRows ==
    ASSUME IndexingTypeOK, CutInv
    PROVE  /\ Ids = {i - 1 : i \in 1..Len(chunks)}
           /\ \A p \in Ids : p + 1 \in 1..Len(chunks)
           /\ DOMAIN UpsertedRows = DOMAIN rows \cup Ids
           /\ \A p \in Ids : UpsertedRows[p] = chunks[p + 1]
           /\ \A p \in DOMAIN rows \ Ids : UpsertedRows[p] = rows[p]
<1>1. Len(chunks) \in Nat /\ \A i \in 1..Len(chunks) : chunks[i].position = i - 1
  BY PassedNumbers
<1>2. Ids = {i - 1 : i \in 1..Len(chunks)}
  BY <1>1 DEF Ids
<1>3. \A p \in Ids : p + 1 \in 1..Len(chunks)
  BY <1>1, <1>2
<1>4. ASSUME NEW p \in Ids PROVE LastWith(p) = p + 1
  <2>1. p + 1 \in 1..Len(chunks) /\ p \in Int
    BY <1>1, <1>2
  <2>2. \A i \in 1..Len(chunks) : chunks[i].position = p <=> i = p + 1
    BY <1>1, <2>1
  <2>3. \A k \in p + 2 .. Len(chunks) : chunks[k].position # p
    BY <1>1, <2>1, <2>2
  <2>4. p + 1 + 1 = p + 2
    BY <2>1
  <2> QED
    BY <2>1, <2>2, <2>3, <2>4 DEF LastWith
<1> QED
  BY <1>2, <1>3, <1>4 DEF UpsertedRows

LEMMA StoreInv == IndexingInv /\ StoreRows => IndexingInv'
<1> SUFFICES ASSUME IndexingInv, StoreRows PROVE IndexingInv'
  OBVIOUS
<1> USE DEF IndexingInv, StoreRows
<1>1. Passed = Spoken
  BY AllPassed DEF IndexingTypeOK
<1>2. IsFiniteSet(Spoken) /\ Spoken # {}
  BY <1>1 DEF CutInv
<1>3. step' = "embed"
  <2>1. PICK a \in Passed : TRUE
    BY <1>1, <1>2
  <2>2. Before(a) + 1 \in 1..Len(chunks)
    BY <2>1 DEF CutInv
  <2>3. Len(chunks) \in Nat /\ Before(a) \in 0..Len(chunks) - 1
    BY <2>1, PassedNumbers
  <2>4. chunks # <<>>
    BY <2>2, <2>3
  <2> QED
    BY <2>4
<1>4. IndexingTypeOK'
  BY DEF IndexingTypeOK, Steps
<1>5. CutInv'
  BY <1>2, CutKept
<1>6. RowsInv'
  <2>1. ASSUME NEW p \in DOMAIN rows'
        PROVE  \E a \in Spoken : Before(a) = p /\ rows'[p] = ChunkOf(a)
    <3>1. CASE p \in Ids
      <4>1. p + 1 \in 1..Len(chunks) /\ rows'[p] = chunks[p + 1]
        BY <3>1, StoredRows
      <4>2. PICK a \in Passed : Before(a) = (p + 1) - 1 /\ chunks[p + 1] = ChunkOf(a)
        BY <4>1 DEF CutInv
      <4>3. p \in Int
        BY <3>1, StoredRows, PassedNumbers
      <4> QED
        BY <4>1, <4>2, <4>3, <1>1
    <3>2. CASE p \notin Ids
      <4>1. p \in DOMAIN rows /\ rows'[p] = rows[p]
        BY <3>2, StoredRows
      <4> QED
        BY <4>1 DEF RowsInv
    <3> QED
      BY <3>1, <3>2
  <2>2. ASSUME NEW a \in Spoken PROVE Before(a) \in DOMAIN rows'
    <3>1. Before(a) \in 0..Len(chunks) - 1 /\ Len(chunks) \in Nat
      BY <1>1, PassedNumbers
    <3>2. Before(a) \in Ids
      <4>1. Before(a) + 1 \in 1..Len(chunks) /\ Before(a) = (Before(a) + 1) - 1
        BY <3>1
      <4> QED
        BY <4>1, StoredRows
    <3> QED
      BY <3>2, StoredRows
  <2> QED
    BY <2>1, <2>2, <1>2, SameDocument DEF RowsInv
<1>7. VectorsInv'
  BY <1>3, VectorsKept
<1>8. IndexInv'
  <2>1. \A p \in DOMAIN index : p \in DOMAIN rows'
    BY StoredRows DEF IndexInv
  <2> QED
    BY <2>1, <1>3, SameDocument DEF IndexInv
<1> QED
  BY <1>4, <1>5, <1>6, <1>7, <1>8

\* Two sequences strung together.
LEMMA Strung ==
    ASSUME NEW T, NEW s \in Seq(T), NEW t \in Seq(T)
    PROVE  /\ s \o t \in Seq(T) /\ Len(s \o t) = Len(s) + Len(t)
           /\ \A i \in 1..Len(s) : (s \o t)[i] = s[i]
           /\ \A i \in 1..Len(t) : (s \o t)[Len(s) + i] = t[i]
  OBVIOUS

\* The end of a batch, and the texts in it.
LEMMA BatchFacts ==
    ASSUME NEW n \in Nat, NEW size \in Nat \ {0}, Len(chunks) \in Nat,
           n <= Len(chunks)
    PROVE  /\ UpTo(n, size) \in Nat
           /\ n <= UpTo(n, size) /\ UpTo(n, size) <= Len(chunks)
  BY DEF UpTo

LEMMA BatchTextsAre ==
    ASSUME NEW from \in Nat, NEW to \in Nat, from <= to, chunks \in Seq(Chunk),
           to <= Len(chunks)
    PROVE  /\ BatchTexts(from, to) \in Seq(Texts)
           /\ Len(BatchTexts(from, to)) = to - from
           /\ \A i \in 1..(to - from) :
                BatchTexts(from, to)[i] = chunks[from + i].text
<1>1. \A i \in 1..(to - from) : chunks[from + i].text \in Texts
  <2>1. \A i \in 1..(to - from) : from + i \in 1..Len(chunks)
    OBVIOUS
  <2>2. \A i \in 1..Len(chunks) : chunks[i] \in Chunk
    OBVIOUS
  <2> QED
    BY <2>1, <2>2 DEF Chunk
<1>2. to - from \in Nat
  OBVIOUS
<1>3. BatchTexts(from, to) \in [1..(to - from) -> Texts]
  BY <1>1 DEF BatchTexts
<1>4. BatchTexts(from, to) \in Seq(Texts)
  BY <1>2, <1>3
<1>5. Len(BatchTexts(from, to)) = to - from
  BY <1>2, <1>3
<1> QED
  BY <1>4, <1>5 DEF BatchTexts

\* What becomes of everything but the vectors when a batch is embedded.
LEMMA EmbedKeeps ==
    ASSUME IndexingInv, step = "embed",
           UNCHANGED <<source, page, piece, position, chunks, rows, sent, index>>,
           step' \in {"embed", "upsert", "rejected"}
    PROVE  CutInv' /\ RowsInv' /\ IndexInv'
<1>1. CutInv'
  BY CutKept DEF IndexingInv, CutInv
<1>2. RowsInv'
  BY RowsKept DEF IndexingInv
<1>3. IndexInv'
  BY IndexKept DEF IndexingInv, IndexInv
<1> QED
  BY <1>1, <1>2, <1>3

LEMMA EmbedInv == IndexingInv /\ EmbedBatch => IndexingInv'
<1> SUFFICES ASSUME IndexingInv, EmbedBatch PROVE IndexingInv'
  OBVIOUS
<1> DEFINE to == UpTo(asked, EmbedBatchSize)
           texts == BatchTexts(asked, to)
<1>1. /\ step = "embed" /\ asked' = to /\ vectors' = vectors \o texts
      /\ step' = IF to = Len(chunks) THEN Aligned(vectors') ELSE step
      /\ UNCHANGED <<source, page, piece, position, chunks, rows, sent, index>>
  BY DEF EmbedBatch
<1>2. /\ asked \in Nat /\ Len(chunks) \in Nat /\ asked <= Len(chunks)
      /\ chunks \in Seq(Chunk) /\ vectors \in Seq(Texts)
      /\ Len(vectors) \in Nat /\ Len(vectors) <= asked
  BY DEF IndexingInv, IndexingTypeOK, VectorsInv
<1>3. to \in Nat /\ asked <= to /\ to <= Len(chunks)
  BY <1>2, BatchFacts, IndexingAssumption
<1> HIDE DEF to
<1>4. /\ texts \in Seq(Texts) /\ Len(texts) = to - asked
      /\ \A i \in 1..(to - asked) : texts[i] = chunks[asked + i].text
  BY <1>2, <1>3, BatchTextsAre
<1> HIDE DEF texts
<1>5. /\ vectors' \in Seq(Texts) /\ Len(vectors') = Len(vectors) + (to - asked)
      /\ \A i \in 1..Len(vectors) : vectors'[i] = vectors[i]
      /\ \A i \in 1..Len(texts) : vectors'[Len(vectors) + i] = texts[i]
  <2>1. /\ vectors \o texts \in Seq(Texts)
        /\ Len(vectors \o texts) = Len(vectors) + Len(texts)
        /\ \A i \in 1..Len(vectors) : (vectors \o texts)[i] = vectors[i]
        /\ \A i \in 1..Len(texts) : (vectors \o texts)[Len(vectors) + i] = texts[i]
    <3>1. vectors \in Seq(Texts) /\ texts \in Seq(Texts)
      BY <1>2, <1>4
    <3> QED
      BY <3>1
  <2>2. vectors' = vectors \o texts
    BY <1>1
  <2>3. Len(texts) = to - asked
    BY <1>4
  <2> QED
    BY <2>1, <2>2, <2>3
<1>6. /\ step' \in {"embed", "upsert", "rejected"}
      /\ step' = "upsert" => to = Len(chunks) /\ Len(vectors') = Len(chunks)
  BY <1>1 DEF Aligned
<1>7. IndexingTypeOK'
  BY <1>1, <1>3, <1>5, <1>6 DEF IndexingInv, IndexingTypeOK, Steps
<1>8. CutInv' /\ RowsInv' /\ IndexInv'
  BY <1>1, <1>6, EmbedKeeps
<1>9. VectorsInv'
  <2>1. Len(vectors') <= to
    BY <1>2, <1>3, <1>5
  <2>2. ASSUME Len(vectors') = to, NEW i \in 1..to
        PROVE  vectors'[i] = chunks[i].text
    <3>1. Len(vectors) = asked
      BY <2>2, <1>2, <1>3, <1>5
    <3>2. CASE i <= asked
      BY <3>1, <3>2, <1>2, <1>3, <1>5 DEF IndexingInv, VectorsInv
    <3>3. CASE i > asked
      <4>1. i - asked \in 1..(to - asked) /\ asked + (i - asked) = i
        BY <3>3, <1>2, <1>3
      <4>2. vectors'[Len(vectors) + (i - asked)] = texts[i - asked]
        BY <4>1, <1>4, <1>5
      <4>3. texts[i - asked] = chunks[asked + (i - asked)].text
        BY <4>1, <1>4
      <4> QED
        BY <3>1, <4>1, <4>2, <4>3
    <3> QED
      BY <3>2, <3>3, <1>2, <1>3
  <2> QED
    BY <2>1, <2>2, <1>1, <1>3, <1>6 DEF VectorsInv
<1> QED
  BY <1>7, <1>8, <1>9 DEF IndexingInv

\* With a text left out there are for good fewer vectors than texts asked
\* for, so the count no longer comes out right.
LEMMA EmbedShortInv == IndexingInv /\ EmbedBatchShort => IndexingInv'
<1> SUFFICES ASSUME IndexingInv, EmbedBatchShort PROVE IndexingInv'
  OBVIOUS
<1> DEFINE to == UpTo(asked, EmbedBatchSize)
<1>1. /\ step = "embed" /\ asked' = to
      /\ \E gap \in asked + 1 .. to :
           vectors' = vectors \o BatchTexts(asked, gap - 1) \o BatchTexts(gap, to)
      /\ step' = IF to = Len(chunks) THEN Aligned(vectors') ELSE step
      /\ UNCHANGED <<source, page, piece, position, chunks, rows, sent, index>>
  BY DEF EmbedBatchShort
<1>2. /\ asked \in Nat /\ Len(chunks) \in Nat /\ asked <= Len(chunks)
      /\ chunks \in Seq(Chunk) /\ vectors \in Seq(Texts)
      /\ Len(vectors) \in Nat /\ Len(vectors) <= asked
  BY DEF IndexingInv, IndexingTypeOK, VectorsInv
<1>3. to \in Nat /\ asked <= to /\ to <= Len(chunks)
  BY <1>2, BatchFacts, IndexingAssumption
<1> HIDE DEF to
<1>4. PICK gap \in asked + 1 .. to :
        vectors' = vectors \o BatchTexts(asked, gap - 1) \o BatchTexts(gap, to)
  BY <1>1
<1> DEFINE front == BatchTexts(asked, gap - 1)
           back == BatchTexts(gap, to)
<1>4a. /\ gap \in Nat /\ gap - 1 \in Nat
       /\ asked <= gap - 1 /\ gap - 1 <= Len(chunks) /\ gap <= to
  BY <1>2, <1>3
<1>5. front \in Seq(Texts) /\ Len(front) = (gap - 1) - asked
  BY <1>2, <1>4a, BatchTextsAre
<1>6. back \in Seq(Texts) /\ Len(back) = to - gap
  BY <1>2, <1>3, <1>4a, BatchTextsAre
<1>7. vectors' = vectors \o front \o back
  BY <1>4
<1> HIDE DEF front, back
<1>8. vectors' \in Seq(Texts) /\ Len(vectors') = Len(vectors) + Len(front) + Len(back)
  <2>1. vectors \o front \in Seq(Texts) /\ Len(vectors \o front) = Len(vectors) + Len(front)
    BY <1>2, <1>5, Strung, Zenon
  <2>2. /\ (vectors \o front) \o back \in Seq(Texts)
        /\ Len((vectors \o front) \o back) = Len(vectors \o front) + Len(back)
    BY <2>1, <1>6, Strung, Zenon
  <2> QED
    BY <2>1, <2>2, <1>7
<1>9. Len(vectors') < to
  BY <1>2, <1>3, <1>5, <1>6, <1>8
<1>10. step' \in {"embed", "rejected"}
  BY <1>1, <1>8, <1>9, <1>3 DEF Aligned
<1>11. IndexingTypeOK'
  BY <1>1, <1>3, <1>8, <1>10 DEF IndexingInv, IndexingTypeOK, Steps
<1>12. CutInv' /\ RowsInv' /\ IndexInv'
  BY <1>1, <1>10, EmbedKeeps
<1>13. VectorsInv'
  BY <1>1, <1>3, <1>8, <1>9, <1>10 DEF VectorsInv
<1> QED
  BY <1>11, <1>12, <1>13 DEF IndexingInv

\* Records meet their vectors batch by batch because batches are counted
\* over all chunks, not from the start of each.
LEMMA UpsertInv == IndexingInv /\ UpsertRecords => IndexingInv'
<1> SUFFICES ASSUME IndexingInv, UpsertRecords PROVE IndexingInv'
  OBVIOUS
<1> DEFINE to == UpTo(sent, UpsertBatchSize)
           batch == sent + 1 .. to
           ids == {chunks[i].position : i \in batch}
<1>1. /\ step = "upsert" /\ sent' = to
      /\ index' = [p \in DOMAIN index \cup ids |->
           IF p \in ids THEN Paired(CHOOSE i \in batch : chunks[i].position = p)
                        ELSE index[p]]
      /\ step' = IF to = Len(chunks) THEN "done" ELSE step
      /\ UNCHANGED <<source, page, piece, position, chunks, rows, asked, vectors>>
  BY DEF UpsertRecords
<1>2. sent \in Nat /\ Len(chunks) \in Nat /\ sent <= Len(chunks)
  BY PassedNumbers DEF IndexingInv, IndexingTypeOK, IndexInv
<1>3. to \in Nat /\ sent <= to /\ to <= Len(chunks)
  BY <1>2, BatchFacts, IndexingAssumption
<1> HIDE DEF to
<1>4. \A i \in batch : i \in 1..Len(chunks) /\ chunks[i].position = i - 1
  BY <1>2, <1>3, PassedNumbers DEF IndexingInv
<1>5. \A i \in batch : i - 1 \in ids
  BY <1>4
<1>6. ASSUME NEW p \in ids
      PROVE  /\ p + 1 \in batch /\ p = (p + 1) - 1
             /\ (CHOOSE i \in batch : chunks[i].position = p) = p + 1
  <2>1. PICK k \in batch : p = k - 1
    BY <1>4
  <2>2. k \in Int /\ p \in Int /\ k = p + 1
    BY <2>1, <1>2, <1>3
  <2>3. \A i \in batch : chunks[i].position = p <=> i = p + 1
    BY <2>2, <1>2, <1>3, <1>4
  <2> HIDE DEF batch, ids
  <2> QED
    BY <2>1, <2>2, <2>3
<1>7. \A i \in 1..Len(chunks) : vectors[i] = chunks[i].text
  BY <1>1, <1>2 DEF IndexingInv, VectorsInv
<1>8. IndexingTypeOK'
  BY <1>1, <1>3 DEF IndexingInv, IndexingTypeOK, Steps
<1>9. CutInv'
  BY <1>1, CutKept DEF IndexingInv, CutInv
<1>10. RowsInv'
  BY <1>1, RowsKept DEF IndexingInv
<1>11. VectorsInv'
  BY <1>1, VectorsKept DEF IndexingInv
<1>12. IndexInv'
  <2>1. ASSUME NEW p \in DOMAIN index'
        PROVE  p \in DOMAIN rows /\ \E a \in Spoken : Before(a) = p /\ index'[p] = ChunkOf(a).text
    <3>1. CASE p \in ids
      <4>1. p + 1 \in 1..Len(chunks) /\ p = (p + 1) - 1
        BY <3>1, <1>4, <1>6
      <4>2. index'[p] = vectors[p + 1]
        BY <3>1, <1>1, <1>6 DEF Paired
      <4>3. PICK a \in Passed : Before(a) = (p + 1) - 1 /\ chunks[p + 1] = ChunkOf(a)
        BY <4>1 DEF IndexingInv, CutInv
      <4>4. a \in Spoken
        BY DEF Passed
      <4>5. Before(a) \in DOMAIN rows
        BY <1>1, <4>4 DEF IndexingInv, RowsInv
      <4> QED
        BY <4>1, <4>2, <4>3, <4>4, <4>5, <1>7
    <3>2. CASE p \notin ids
      <4>1. p \in DOMAIN index /\ index'[p] = index[p]
        BY <3>2, <1>1
      <4> QED
        BY <4>1 DEF IndexingInv, IndexInv
    <3> QED
      BY <3>1, <3>2
  <2>2. ASSUME NEW i \in 1..to PROVE i - 1 \in DOMAIN index'
    <3>1. CASE i \in 1..sent
      BY <3>1, <1>1 DEF IndexingInv, IndexInv
    <3>2. CASE i \notin 1..sent
      <4>1. i \in batch
        BY <3>2, <1>2, <1>3
      <4>2. i - 1 \in ids
        BY <4>1, <1>5
      <4> QED
        BY <4>2, <1>1
    <3> QED
      BY <3>1, <3>2
  <2>3. step' \in {"upsert", "done"} /\ (step' = "done" => to = Len(chunks))
    BY <1>1
  <2>4. \A a : Before(a)' = Before(a) /\ ChunkOf(a)' = ChunkOf(a)
    BY <1>1, SameDocument
  <2>5. Spoken' = Spoken
    BY <1>1, SameDocument
  <2>6. \A p \in DOMAIN index' :
          /\ p \in DOMAIN rows'
          /\ \E a \in Spoken' : Before(a)' = p /\ index'[p] = ChunkOf(a)'.text
    <3>1. rows' = rows
      BY <1>1
    <3> TAKE p \in DOMAIN index'
    <3>2. PICK a \in Spoken : Before(a) = p /\ index'[p] = ChunkOf(a).text
      BY <2>1
    <3>3. Before(a)' = p /\ ChunkOf(a)' = ChunkOf(a) /\ a \in Spoken'
      BY <3>2, <2>4, <2>5
    <3>4. p \in DOMAIN rows'
      BY <3>1, <2>1
    <3> QED
      BY <3>2, <3>3, <3>4
  <2>7. /\ sent' <= Len(chunks')
        /\ step' = "upsert" => \A i \in 1..sent' : i - 1 \in DOMAIN index'
        /\ step' = "done" => \A i \in 1..Len(chunks') : i - 1 \in DOMAIN index'
    BY <2>2, <2>3, <1>1, <1>3
  <2> QED
    BY <2>3, <2>6, <2>7 DEF IndexInv
<1> QED
  BY <1>8, <1>9, <1>10, <1>11, <1>12 DEF IndexingInv

LEMMA FailInv == IndexingInv /\ ProviderFails => IndexingInv'
<1> SUFFICES ASSUME IndexingInv, ProviderFails PROVE IndexingInv'
  OBVIOUS
<1> USE DEF IndexingInv, ProviderFails
<1>1. IndexingTypeOK'
  BY DEF IndexingTypeOK, Steps
<1>2. CutInv'
  BY CutKept
<1>3. RowsInv'
  BY RowsKept
<1>4. VectorsInv'
  BY VectorsKept
<1>5. IndexInv'
  BY IndexKept
<1> QED
  BY <1>1, <1>2, <1>3, <1>4, <1>5

LEMMA AgainInv == IndexingInv /\ IndexAgain => IndexingInv'
<1> SUFFICES ASSUME IndexingInv, IndexAgain PROVE IndexingInv'
  OBVIOUS
<1> USE DEF IndexingInv, IndexAgain
<1>1. IndexingTypeOK'
  BY DEF IndexingTypeOK, Steps
<1>2. CutInv'
  <2>1. Passed' = {}
    <3>1. \A b \in Spoken : ~Precedes(b, <<1, 1>>)
      BY SpokenPieces DEF Precedes, IndexingTypeOK
    <3> QED
      BY <3>1, SameDocument DEF Passed, Precedes
  <2> QED
    BY <2>1, FS_EmptySet DEF CutInv
<1>3. RowsInv'
  BY RowsKept
<1>4. VectorsInv'
  BY DEF VectorsInv
<1>5. IndexInv'
  BY SameDocument DEF IndexInv
<1> QED
  BY <1>1, <1>2, <1>3, <1>4, <1>5

LEMMA NextInv == IndexingInv /\ [IndexingNext]_ivars => IndexingInv'
<1> SUFFICES ASSUME IndexingInv, [IndexingNext]_ivars PROVE IndexingInv'
  OBVIOUS
<1>1. CASE UNCHANGED ivars
  <2> USE <1>1 DEF IndexingInv, ivars
  <2>1. IndexingTypeOK'
    BY DEF IndexingTypeOK
  <2>2. CutInv'
    BY CutKept DEF CutInv
  <2>3. RowsInv' /\ VectorsInv' /\ IndexInv'
    BY RowsKept, VectorsKept, IndexKept
  <2> QED
    BY <2>1, <2>2, <2>3
<1>2. CASE IndexingNext
  BY <1>2, LoadInv, SkipInv, AppendInv, TurnInv, StoreInv, EmbedInv,
     EmbedShortInv, UpsertInv, FailInv, AgainInv DEF IndexingNext
<1> QED
  BY <1>1, <1>2

-----------------------------------------------------------------------------
(* The theorems.                                                           *)

\* Every variable keeps its type, and chunks, rows and vectors stay those of
\* the pieces of the document.
THEOREM IndexingInvariant == IndexingSpec => []IndexingInv
  BY InitInv, NextInv, PTL DEF IndexingSpec

\* chunk_document leaves out no position and uses none twice, however the
\* document is cut.
THEOREM PositionsSequential == IndexingSpec => []PositionsAreSequential
<1>1. IndexingInv => PositionsAreSequential
  BY PassedNumbers DEF IndexingInv, PositionsAreSequential
<1> QED
  BY <1>1, IndexingInvariant, PTL

\* Each vector is of the text in the row under its id, for every pair of
\* batch sizes, whichever batches fail or come back short.
THEOREM VectorsMatchRows == IndexingSpec => []VectorsBelongToRows
<1>1. IndexingInv => VectorsBelongToRows
  <2> SUFFICES ASSUME IndexingInv, NEW p \in DOMAIN index
               PROVE  p \in DOMAIN rows /\ index[p] = rows[p].text
    BY DEF VectorsBelongToRows
  <2>1. PICK a \in Spoken : Before(a) = p /\ index[p] = ChunkOf(a).text
    BY DEF IndexingInv, IndexInv
  <2>2. p \in DOMAIN rows
    BY DEF IndexingInv, IndexInv
  <2>3. IsFiniteSet(Spoken)
    BY <2>2 DEF IndexingInv, RowsInv
  <2>4. PICK c \in Spoken : Before(c) = p /\ rows[p] = ChunkOf(c)
    BY <2>2 DEF IndexingInv, RowsInv
  <2>5. a = c
    BY <2>1, <2>3, <2>4, BeforeIsInjective DEF IndexingInv, IndexingTypeOK
  <2> QED
    BY <2>1, <2>2, <2>4, <2>5
<1> QED
  BY <1>1, IndexingInvariant, PTL

\* A document that is done is there as a whole, piece by piece, with its
\* pages and in reading order.
THEOREM DoneIsWhole == IndexingSpec => []WholeWhenDone
<1>1. IndexingInv => WholeWhenDone
  <2> SUFFICES ASSUME IndexingInv, step = "done"
               PROVE  /\ Spoken # {}
                      /\ DOMAIN rows = 0..Cardinality(Spoken) - 1
                      /\ DOMAIN index = DOMAIN rows
                      /\ \A a \in Spoken : rows[Before(a)] = ChunkOf(a)
    BY DEF WholeWhenDone, ChunkOf
  <2> USE DEF IndexingInv
  <2>1. Spoken # {} /\ Passed = Spoken
    BY AllPassed DEF CutInv, IndexingTypeOK
  <2>2. Cardinality(Spoken) = Len(chunks) /\ Len(chunks) \in Nat /\ IsFiniteSet(Spoken)
    BY <2>1, PassedNumbers DEF CutInv
  <2>3. ASSUME NEW p \in DOMAIN rows PROVE p \in 0..Len(chunks) - 1
    <3>1. PICK a \in Spoken : Before(a) = p
      BY DEF RowsInv
    <3> QED
      BY <3>1, <2>1, PassedNumbers
  <2>4. ASSUME NEW p \in 0..Len(chunks) - 1 PROVE p \in DOMAIN index
    <3>1. p + 1 \in 1..Len(chunks) /\ (p + 1) - 1 = p
      BY <2>2
    <3>2. (p + 1) - 1 \in DOMAIN index
      BY <3>1 DEF IndexInv
    <3> QED
      BY <3>1, <3>2
  <2>5. DOMAIN index \subseteq DOMAIN rows
    BY DEF IndexInv
  <2>6. ASSUME NEW a \in Spoken PROVE rows[Before(a)] = ChunkOf(a)
    <3>1. Before(a) \in DOMAIN rows
      BY DEF RowsInv
    <3>2. PICK c \in Spoken : Before(c) = Before(a) /\ rows[Before(a)] = ChunkOf(c)
      BY <3>1 DEF RowsInv
    <3>3. c = a
      BY <3>2, <2>2, BeforeIsInjective DEF IndexingTypeOK
    <3> QED
      BY <3>2, <3>3
  <2> QED
    BY <2>1, <2>2, <2>3, <2>4, <2>5, <2>6
<1> QED
  BY <1>1, IndexingInvariant, PTL
=============================================================================
