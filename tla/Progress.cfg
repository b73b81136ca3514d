SPECIFICATION MCSpec
CONSTANTS
    Vo = {v1, v2}
    None = None
    MaxReConn = 2
    MaxCalls = 2
    Env = {"force"}
    Uid = {u1}
    Slot = {s1}
    Client = {c1}
    Sup = sup
    Pressure = prs
    CtrlCap = 1
    ScaleUpBatch = 1
    MaxTarget = 1
CHECK_DEADLOCK FALSE
PROPERTIES WaitingIsDialed StoppedIsReaped
