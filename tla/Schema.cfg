SPECIFICATION Spec
CONSTANTS
    A = A  B = B  C = C
    f1 = f1  f2 = f2
    n1 = n1  n2 = n2  n3 = n3
    string = string  custom = custom
    c1 = c1 c2 = c2 p1 = p1 p2 = p2 k1 = k1 q1 = q1 q2 = q2
    l1 = l1 l2 = l2 l3 = l3 r1 = r1
    Types = {A, B, C}
    TypeNames = {n1, n2, n3}
    Fields = {f1, f2}
    Defs = {string, custom}
    SystemDefs = {string}
    MaxVersions = 3
    MaxDefVersions = 2
    Born <- MCBorn
    Reqs = {q1, q2}
    Workloads <- MCWorkloads
    CVs = {c1, c2}
    Pins = {p1, p2}
    Labels = {l1, l2, l3}
    CRNames = {r1}
    CRName <- MCCRName
    Catalogs = {k1}
    MaxLog = 3
    Unborn = Unborn  Gone = Gone  None = None
SYMMETRY MCSymmetry
INVARIANTS SchemaTypeOK CarriedForward ContainmentTree AttributeTypesExist
           StageMatchesLog ClusterShowsStage ValidForPins ValuesFollowPins
PROPERTIES VersionsImmutable ProductionUnchanged
CHECK_DEADLOCK FALSE
