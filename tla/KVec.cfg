SPECIFICATION Spec
CONSTANTS
    Elems = {e1, e2, e3, e4}
    Sizes = {0, 1, 2}
    UsizeMax = 9
    IsizeMax = 4
    MaxSlice = 3
    None = None
    Err = Err
SYMMETRY Symmetry
INVARIANTS VecInv
PROPERTY ImplementsVec
