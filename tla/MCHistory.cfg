SPECIFICATION Spec
CONSTANTS
    Byte = {b0, b1}
    MCMaxText = 2
    Text <- MCText
    Delta <- MCCoarseDelta
    Base <- MCCoarseBase
    Target <- MCCoarseTarget
    Apply <- MCCoarseApply
    Invert <- MCCoarseInvert
    Chain <- MCCoarseChain
    Sels = {s1, s2}
    Chunks <- MCChunks
    MaxUndo = 2
SYMMETRY Symmetry
INVARIANTS
    
    RedoRestores
    FailsOnlyAfterLoad
PROPERTY
    RefinesLog
