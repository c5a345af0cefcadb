SPECIFICATION FairServiceSpec
CONSTANTS
    d1 = d1
    d2 = d2
    pdf = pdf
    Docs = {d1, d2}
    Readings = {pdf}
    MaxPieces = 2
    PieceCount <- MCPieceCount
    None = None
    Workers = {w1, w2}
    Jobs = {j1}
    BatchSize = 1
    JobWritesMayFail = FALSE
    RrfK = 2
    IdOrder <- MCIdOrder
    Queries = {q1}
    DenseTopN = 2
    Bm25TopN = 2
    FusionTopN = 3
    RerankTopN = 2
PROPERTIES
    EveryQueryEnds
    SucceededIsForGood
INVARIANTS
    NoSkippedId
    SucceededIsDurable
