SPECIFICATION Spec
CONSTANTS
    Cats = {c1}
    Names = {n1, n2}
    CVs = {v1}
    firstCV = v1
    empty = empty
    extended = extended
    Data <- MCData
    EmptyData = empty
    Conforming <- MCConforming
    Reqs = {q1}
    Roles = {"SuperAdmin"}
    Ops = {"create", "validate", "publish", "unpublish"}
    Faults = {"k8s"}
    NoRow = NoRow
    NoCR = NoCR
    NoSnap = NoSnap
    None = None
INVARIANT WithdrawnWhenUnpublished
