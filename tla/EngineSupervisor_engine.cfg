SPECIFICATION FairSpec
CONSTANTS
    App = {a, b}
    None = None
    Corpse = Corpse
    Faults = {"crash", "sleep", "exit", "boot", "io", "late"}
INVARIANTS OneEngine
PROPERTIES LockNotStolen EngineComesBack StopsWhenTold
