SPECIFICATION Spec
CONSTANTS
    Insts = {i1, i2, i3}
    LinkIds = {l1, l2}
    Catalogs = {c1}
    A = A
    B = B
    Types = {A, B}
    firstName = n1
    Names = {n1, n2}
    Attrs = {a1, a2}
    Values = {x1}
    Contains <- MCContains
    Assocs <- MCAssocs
    ListLimit = 3
    MaxDepth = 4
    MaxVersion = 2
    Reqs = {q1}
    Ops = {"create", "contain", "update", "delete", "setParent", "link", "unlink"}
    Faults = {"db", "badInput"}
    NoRow = NoRow
    NoLink = NoLink
    NoInst = NoInst
    None = None
SYMMETRY Symmetry
VIEW WithoutDeleted
CONSTRAINT Bound
INVARIANTS TypeOK NoOrphans NoDuplicateLinks CarriedForward
PROPERTIES HistoryRetained VersionsAdvance
