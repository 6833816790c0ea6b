SPECIFICATION Spec
CONSTANTS
    Name = {"workspace", ".canvas", "a"}
    Root = "workspace"
    Canvas = ".canvas"
    Depth = 3
    Raw <- RawPaths
    Session = {s1, s2}
    Request = {r1, r2}
    MaxFs = 2
    MaxOps = 6
    None = None
SYMMETRY Symmetry
CONSTRAINT OneOperates
INVARIANTS
    TreeShaped
    NamesAgree
    OneWorkspace
PROPERTIES
    LiveSessionsStay
CHECK_DEADLOCK FALSE
