SPECIFICATION Spec
CONSTANTS
    Names <- MCNames
    Files <- MCFiles
    Canon <- MCCanon
    Original <- MCOriginal
    Edited <- MCEdited
    NoPath = "none"
    MaxBuffers = 2
    MaxEdits = 1
INVARIANT SavingKeepsFile
