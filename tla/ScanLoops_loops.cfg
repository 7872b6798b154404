SPECIFICATION FairSpec
CONSTANTS
    Row = {1, 2}
    Home <- HomeApart
    Slots = 1
    BatchLimit = 1
    Width = 1
    Permits = 1
    Old = Old
    Faults = {"query", "locked", "panic"}
INVARIANTS TypeOK OneOwner
PROPERTIES DueIsScanned StopsWhenTold

