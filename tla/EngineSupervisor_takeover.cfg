SPECIFICATION Spec
CONSTANTS
    App = {a, b}
    None = None
    Corpse = Corpse
    Faults = {"crash"}
INVARIANT OneWinner
