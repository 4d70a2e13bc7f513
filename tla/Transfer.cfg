SPECIFICATION Spec
CONSTANTS
    home = home  away = away  q1 = q1  q2 = q2
    Sites = {home, away}
    System <- MCSystem
    Names = {"c", "k"}
    Labels = {"l1", "l2"}
    RenameMaps <- MCRenameMaps
    Requests = {q1, q2}
    Workloads <- MCWorkloads
    None = None
SYMMETRY MCSymmetry
INVARIANTS TransferTypeOK  CopyValidatesAlike ReadyImports
CHECK_DEADLOCK FALSE
