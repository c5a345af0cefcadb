SPECIFICATION IndexingSpec
CONSTANTS
    Texts = {a, b}
    Blank = Blank
    None = None
    MaxPieces = 3
    Sources <- MCSources
    EmbedBatchSize = 3
    UpsertBatchSize = 2
INVARIANTS
    PositionsAreSequential
    VectorsBelongToRows
    WholeWhenDone
