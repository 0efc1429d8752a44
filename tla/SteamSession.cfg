SPECIFICATION Spec
CONSTANTS
    Starts = {s1, s2}
    Kinds <- MCKinds
    Before = Before
    None = None
    Shutdown = Shutdown
    MaxLaunches = 2
    MaxEnds = 1
SYMMETRY Symmetry
INVARIANTS AcceptedIsOwn AskedOnce StopStops
CHECK_DEADLOCK FALSE
