SPECIFICATION FairSpec
CONSTANTS
    Series = {"s"}
    MinSeries = 1
    MinStreak = 2
    Limit = 2
    Slots = 1
    Faults = {"infra", "persist", "listing", "db", "crash"}
INVARIANTS ParkedMeansOut ProbeIsSingle
PROPERTIES OutageFound SourceRecovers
