SPECIFICATION Spec
CONSTANTS
    Source = {"m", "a"}
    Mirror = {"m"}
    Foreign = {"a"}
    UuidOf <- NoUuid
    Title = {"long"}
    Long = {"long"}
    TitleOf <- SameTitle
    Trait = {"x", "y"}
    TraitOf <- SameTrait
    Work = {w1, w2, w3}
    Row = {r1}
    None = None
    Adder = {p1, p2}
    Desk = {d1}
    MaxCalls = 2
SYMMETRY Symmetric
INVARIANTS RedirectsFlat AnchorAgrees LibraryKept
PROPERTIES Forwards SplitHonoured MergesAlike
