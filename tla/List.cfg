SPECIFICATION Spec
CONSTANTS
    Items = {i1, i2, i3, i4}
    Lists = {a, b}
    Null = Null
    NoCursor = NoCursor
SYMMETRY ItemSymmetry
INVARIANTS ListInv
PROPERTY ImplementsListSpec
