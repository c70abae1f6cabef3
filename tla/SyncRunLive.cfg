SPECIFICATION Spec
CONSTANTS
    p1 = p1
    p2 = p2
    Paths = {p1}
    MaxVersion = 4
    KindOf <- Repaired
    Slots = {i1, i2}
    NoDoc = NoDoc
    NoPath = NoPath
    NoIngest = NoIngest
    MaxStreak = 2
    Cap = 2
PROPERTY EventuallyFresh
