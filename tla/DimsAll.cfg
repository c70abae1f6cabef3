SPECIFICATION Spec
SYMMETRY SourceSymmetry
CONSTANTS
    Sources = {s1, s2, s3}
    Dims = {d1, d2}
    DefaultDim = d1
    NoDim = NoDim
    NoSource = NoSource
CHECK_DEADLOCK FALSE
INVARIANTS
    IndexIsUniform
    VectorsHaveChunks
    StoreFitsTable
PROPERTIES
    
    OnlyTheUncheckedDisagree
