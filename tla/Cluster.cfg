SPECIFICATION Spec
CONSTANTS
    k1 = k1  v1 = v1
    gateway = gateway  p1 = p1
    b1 = b1  b2 = b2  q1 = q1  q2 = q2
    CatalogCRs = {k1}
    VersionCRs = {v1}
    Order <- MCOrder
    Plugins = {gateway, p1}
    BuiltIn = gateway
    Bindings = {b1, b2}
    Callers = {q1, q2}
    Workloads <- MCWorkloads
    NoObject = NoObject
INVARIANTS ClusterTypeOK QuietMeansDone DataVersionIdentifiesSpec BuiltInKept BindingsHaveCatalog
PROPERTIES Converges RegistryFollows PublishedAsPreviewed
CHECK_DEADLOCK FALSE
