SPECIFICATION Spec
CONSTANTS
    Session = {s1, s2}
    Book = {b1, b2}
    Cell = {k1, k2}
    Call = {c1, c2}
    Limit = 2
    MaxRuns = 2
    HasIPython = TRUE
    None = None
SYMMETRY Symmetry
INVARIANT OwnVariables
CHECK_DEADLOCK FALSE
