SPECIFICATION Spec
CONSTANTS
    Byte = {0, 1}
    MCMaxText = 2
    Text <- MCText
    Delta <- MCCoarseDelta
    Base <- MCCoarseBase
    Target <- MCCoarseTarget
    Apply <- MCCoarseApply
    Invert <- MCCoarseInvert
    Chain <- MCCoarseChain
    Sels = {s1}
    Chunks <- MCChunks
    MaxUndo = 2
INVARIANT
    UndoRedoIdentity
