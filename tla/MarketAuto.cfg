SPECIFICATION MCSpec
CONSTANTS
    Client = {c1, c2}
    Watcher = Watcher
    Rebuilder = Rebuilder
    Free = Free
    Ops = {"start", "stop", "update", "clear"}
    MaxCommands = 2
    MaxEdits = 0
    MaxLoops = 6
CHECK_DEADLOCK FALSE
SYMMETRY ClientSymmetry
INVARIANTS LoopObeys ReplacedStaysOut
PROPERTY ShutdownSettles
