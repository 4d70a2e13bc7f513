SPECIFICATION Spec
CONSTANTS
    Cats = {c1, c2}
    Names = {n1, n2, n3}
    CVs = {v1, v2}
    firstCV = v1
    empty = empty
    extended = extended
    Data <- MCData
    EmptyData = empty
    Conforming <- MCConforming
    Reqs = {q1}
    Roles = {"Admin", "SuperAdmin"}
    Ops = {"create", "copy", "publish", "unpublish", "update", "delete", "validate", "mutate", "addInstance", "replace"}
    Faults = {"k8s", "badInput"}
    NoRow = NoRow
    NoCR = NoCR
    NoSnap = NoSnap
    None = None
SYMMETRY Symmetry
CONSTRAINT SequentialBound
INVARIANTS TypeOK ClusterMirrorsDatabase PublishedIsDiscoverable ValidMeansConforming
PROPERTIES PublishedIsProtected ServedUntilWithdrawn
