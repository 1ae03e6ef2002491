SPECIFICATION Spec
CONSTANTS
    Nodes = {n1, n2, n3}
    Keys = {1, 2, 3}
    Values = {x, y}
    None = None
SYMMETRY Symmetry
INVARIANTS TreeInv
PROPERTY ImplementsMap
