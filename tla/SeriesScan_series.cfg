SPECIFICATION FairSpec
CONSTANTS
    Chapter = {c1, c2}
    Back = {c1}
    Fleeting = {c1}
    LoopScan = {s1}
    AdminScan = {s2}
    Faults = {"error", "cached", "locked", "broken", "crash"}
    Overrides = {"auto", "paused", "running"}
INVARIANTS BackCatalogueIsSilent NothingSwallowed AnnouncedOnce
PROPERTIES KeepsBeingScanned Converges
