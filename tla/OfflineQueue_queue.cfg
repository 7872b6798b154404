SPECIFICATION FairSpec
CONSTANTS
    User = {a, b}
    Target = {t1, t2}
    None = None
    MaxTries = 2
    MaxWrites = 2
    Drain = {d1, d2}
INVARIANTS OwnedByIdentity ReplayUnderStamp WritesArrive
PROPERTIES QueueDrains
