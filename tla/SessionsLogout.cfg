SPECIFICATION Spec
CONSTANTS
    Vo = {v1, v2}
    None = None
    MaxReConn = 2
    MaxCalls = 2
    Env = {}
PROPERTY LogoutEnds
CHECK_DEADLOCK FALSE
