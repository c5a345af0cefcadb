SPECIFICATION Spec
CONSTANTS
    d1 = d1
    d2 = d2
    pdf = pdf
    text = text
    None = None
    Workers = {w1}
    Jobs = {j1, j2}
    Docs = {d1, d2}
    Readings = {pdf, text}
    MaxPieces = 3
    PieceCount <- MCPieceCount
    BatchSize = 2
    JobWritesMayFail = TRUE
INVARIANTS
    NoStrandedJob
