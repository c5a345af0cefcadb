SPECIFICATION ServiceSpec
CONSTANTS
    d1 = d1
    d2 = d2
    pdf = pdf
    Docs = {d1, d2}
    Readings = {pdf}
    MaxPieces = 2
    PieceCount <- MCPieceCount
    None = None
    Workers = {w1}
    Jobs = {j1, j2}
    BatchSize = 2
    JobWritesMayFail = FALSE
    RrfK = 2
    IdOrder <- MCIdOrder
    Queries = {q1}
    DenseTopN = 2
    Bm25TopN = 2
    FusionTopN = 3
    RerankTopN = 2
SYMMETRY Symmetry
INVARIANTS
    QueryTypeOK
    NoSkippedId
    NeverEmptyHanded
    DegradedInFusionOrder
    RelevantOrFlagged
    AnswersAreGrounded
