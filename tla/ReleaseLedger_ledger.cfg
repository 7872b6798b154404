SPECIFICATION FairSpec
CONSTANTS
    Series = {"s", "m"}
    Suwayomi = {"s"}
    Work = {1, 2}
    NoWork = NoWork
    Gone = Gone
    Key = {1}
    Date <- OneChapter
    MaxTime = 2
    Faults = {"spine", "ledger", "crash"}
INVARIANTS NoFutureEvents
PROPERTIES NeverReannounced KeepsTheBook EveryReleaseRecorded WorkerRests
