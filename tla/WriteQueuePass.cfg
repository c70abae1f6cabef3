SPECIFICATION Spec
CONSTANTS
    Entries = {e1, e2}
    Corrupt = {e2}
    Names = {n1, n2}
    Databases = {d1, d2}
    Handlers = {h1, h2}
    NoDb = NoDb
    NoCall = NoCall
INVARIANTS
    SilentOnlyAfterCrash
    OnlyRepointedStray
PROPERTIES
    ImplementsGate
SYMMETRY Symmetry
