SPECIFICATION Spec
CONSTANTS
    Client = {c1}
    Watcher = Watcher
    Rebuilder = Rebuilder
    Free = Free
    Ops = {"start", "stop"}
    MaxCommands = 2
    MaxEdits = 0
    MaxLoops = 6
CHECK_DEADLOCK FALSE

INVARIANT EnabledRuns
