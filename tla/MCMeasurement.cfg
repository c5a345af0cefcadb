SPECIFICATION MeasurementSpec
CONSTANTS
    PerMinute = 10
    SdkRetries = 2
    Scores <- MCScores
    MaxBlips = 3
    None = None
INVARIANTS
    PacedUnderTheCeiling
    OneCohereBlipIsAbsorbed
    SuggestionSeparates
