SPECIFICATION Spec
CONSTANTS
    Vo = {v1, v2, v3}
    None = None
    MaxReConn = 2
    MaxCalls = 2
    Env = {"disjoint", "force", "full", "shutdown"}
SYMMETRY VoSymmetry
INVARIANTS OneSession ShutdownCloses
PROPERTY EndedStaysEnded
CHECK_DEADLOCK FALSE
