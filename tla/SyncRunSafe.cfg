SPECIFICATION Spec
SYMMETRY SlotSymmetry
CONSTANTS
    p1 = p1
    p2 = p2
    Paths = {p1, p2}
    MaxVersion = 2
    KindOf <- EditedAndConverted
    Slots = {i1, i2}
    NoDoc = NoDoc
    NoPath = NoPath
    NoIngest = NoIngest
    MaxStreak = 1
    Cap = 0
INVARIANTS
    EtagNeverAhead
    CountersAddUp
PROPERTIES
    SearchableUntilReplaced
    CompletedIsComplete
