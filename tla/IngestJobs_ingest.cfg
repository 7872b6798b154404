SPECIFICATION JobsFairSpec
CONSTANTS
    Source = {s1}
    Manga = {"a", "b"}
    Answers <- ServedAnswers
    MaxPages = 3
    MaxEmpty = 1
    Attempts = 2
    FlushEvery = 2
    MaxJobs = 2
    Request = {r1, r2}
    JobFaults = {"site", "db", "dropped", "restart"}
INVARIANTS CompletedMeansAll
PROPERTIES CancelWins JobEnds
CHECK_DEADLOCK FALSE
