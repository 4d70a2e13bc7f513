SPECIFICATION Spec
CONSTANTS
    Cats = {c1}
    Names = {n1, n2}
    CVs = {v1}
    firstCV = v1
    empty = empty
    extended = extended
    Data <- MCData
    EmptyData = empty
    Conforming <- MCConforming
    Reqs = {q1, q2}
    Roles = {"SuperAdmin"}
    Ops = {"create", "validate", "mutate"}
    Faults = {}
    NoRow = NoRow
    NoCR = NoCR
    NoSnap = NoSnap
    None = None
INVARIANT ChangeResetsStatus
