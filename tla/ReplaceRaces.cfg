SPECIFICATION Spec
CONSTANTS
    Cats = {c1, c2}
    Names = {n1, n2, n3}
    CVs = {v1}
    firstCV = v1
    empty = empty
    extended = extended
    Data <- MCData
    EmptyData = empty
    Conforming <- MCConforming
    Reqs = {q1, q2}
    Roles = {"SuperAdmin"}
    Ops = {"create", "validate", "publish", "replace"}
    Faults = {}
    NoRow = NoRow
    NoCR = NoCR
    NoSnap = NoSnap
    None = None
SYMMETRY Symmetry
VIEW WithoutTrouble
INVARIANT PublishedWasValidated
PROPERTY ImplementsBoard
