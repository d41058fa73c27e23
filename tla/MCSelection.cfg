SPECIFICATION Spec
CONSTANTS
    BytesPerLine = 2
    MaxLen = 3
    Counts <- MCCounts
    Offsets <- MCOffsets
    Widths <- MCWidths
INVARIANTS
    TypeOK
    RegionsSortedDisjoint
    MainIsFlagged
    OneMainFlag
    MergingKeepsBytes
    MainFollowsItsRegion
    
    
