SPECIFICATION SearchSpec
CONSTANTS
    BytesPerLine = 2
    MaxLen = 3
    Counts = {}
    Offsets = {}
    Widths = {}
    Byte = {0, 10}
    Newline = 10
    MaxPattern = 2
INVARIANTS
    
    MatchesAreLeftmost
    SplitsIntoRuns
    PanicsWithoutMain
PROPERTY
    SearchEnds
