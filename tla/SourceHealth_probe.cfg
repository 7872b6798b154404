SPECIFICATION FairSpec
CONSTANTS
    Series = {"s"}
    MinSeries = 1
    MinStreak = 2
    Limit = 2
    Slots = 1
    Faults = {}
PROPERTIES OutageEndsAlone
