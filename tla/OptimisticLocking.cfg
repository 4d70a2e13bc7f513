SPECIFICATION Spec
CONSTANTS
    Insts = {i1}
    LinkIds = {}
    Catalogs = {c1}
    A = A
    B = B
    Types = {A, B}
    firstName = n1
    Names = {n1}
    Attrs = {a1, a2}
    Values = {x1}
    Contains <- MCContains
    Assocs <- MCAssocs
    ListLimit = 3
    MaxDepth = 2
    MaxVersion = 2
    Reqs = {q1, q2}
    Ops = {"create", "update"}
    Faults = {}
    NoRow = NoRow
    NoLink = NoLink
    NoInst = NoInst
    None = None
SYMMETRY Symmetry
VIEW WithoutTrouble
CONSTRAINT Bound
PROPERTIES UpdatesTheNamedVersion
