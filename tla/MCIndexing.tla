------------------------------ MODULE MCIndexing ----------------------------
(***************************************************************************)
(* Small instances of Indexing.                                            *)
(***************************************************************************)
EXTENDS Indexing, SequencesExt

CONSTANT MaxPieces \* bound on the pieces of a page

\* A text of one page, or a PDF of up to two; blank and empty pages included.
MCPages == BoundedSeq(Texts \cup {Blank}, MaxPieces)
MCSources ==
    [pages : {<<a>> : a \in MCPages}, pdf : {FALSE}]
      \cup [pages : {<<a, b>> : a, b \in MCPages} \cup {<<a>> : a \in MCPages}, pdf : {TRUE}]
=============================================================================
