SPECIFICATION Spec
CONSTANTS
    Insts = {i1, i2, i3}
    LinkIds = {}
    Catalogs = {c1}
    A = A
    B = B
    Types = {A, B}
    firstName = n1
    Names = {n1, n2}
    Attrs = {}
    Values = {x1}
    Contains <- MCContains
    Assocs <- MCAssocs
    ListLimit = 1
    MaxDepth = 4
    MaxVersion = 2
    Reqs = {q1}
    Ops = {"create", "contain", "delete"}
    Faults = {}
    NoRow = NoRow
    NoLink = NoLink
    NoInst = NoInst
    None = None
SYMMETRY Symmetry
VIEW WithoutDeleted
CONSTRAINT Bound
INVARIANTS NoOrphans
