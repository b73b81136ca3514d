SPECIFICATION Spec
CONSTANTS
    Uid = {u1}
    Slot = {s1, s2}
    None = None
    Client = {c1}
    Sup = sup
    Pressure = prs
    CtrlCap = 1
    ScaleUpBatch = 1
    MaxTarget = 1
    Faults = {"panic"}
INVARIANT HeldNotReusable
