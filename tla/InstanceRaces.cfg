SPECIFICATION Spec
CONSTANTS
    Insts = {i1, i2}
    LinkIds = {l1}
    Catalogs = {c1, c2}
    A = A
    B = B
    Types = {A, B}
    firstName = n1
    Names = {n1}
    Attrs = {}
    Values = {x1}
    Contains <- MCContains
    Assocs <- MCAssocs
    ListLimit = 3
    MaxDepth = 3
    MaxVersion = 2
    Reqs = {q1, q2}
    Ops = {"create", "contain", "update", "delete", "setParent", "link", "unlink"}
    Faults = {}
    NoRow = NoRow
    NoLink = NoLink
    NoInst = NoInst
    None = None
SYMMETRY Symmetry
VIEW WithoutTrouble
CONSTRAINT Bound
INVARIANTS StaysInCatalog LinksFit
