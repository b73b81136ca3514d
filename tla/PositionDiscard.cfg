SPECIFICATION Spec
CONSTANTS
    Uid = {u1}
    Callback = {c1, c2}
    None = None
    MaxQueued = 2
PROPERTY DiscardedStaysOut
