SPECIFICATION MCSpec
CONSTANTS
    Uid = {u1}
    Slot = {s1, s2}
    None = None
    Client = {c1}
    Sup = sup
    Pressure = prs
    CtrlCap = 1
    ScaleUpBatch = 1
    MaxTarget = 1
    Faults = {}
SYMMETRY SlotSymmetry
INVARIANTS
    UniqueDriver
    CalmNotReusable
PROPERTIES
    LedgerSpec
    LeaseHandover
