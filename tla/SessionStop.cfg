SPECIFICATION Spec
CONSTANTS
    Starts = {s1}
    Kinds <- MCKinds
    Before = Before
    None = None
    Shutdown = Shutdown
    MaxLaunches = 1
    MaxEnds = 0
PROPERTY EverythingStopped
CHECK_DEADLOCK FALSE
