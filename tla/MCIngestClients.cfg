SPECIFICATION ClientSpec
CONSTANTS
    d1 = d1
    pdf = pdf
    text = text
    None = None
    Workers = {w1}
    Jobs = {j1, j2}
    Docs = {d1}
    Readings = {pdf, text}
    MaxPieces = 4
    PieceCount <- MCPieceCount
    BatchSize = 2
    JobWritesMayFail = FALSE
INVARIANTS
    NoStrandedJob
    ToldStaysTrue
    ResubmittingIsHarmless
PROPERTIES
    EventuallySettled
    PollerLearnsTheEnd
    ImplementsContract
