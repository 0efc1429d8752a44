SPECIFICATION Spec
CONSTANTS
    Procs = {p1}
    Targets = 1
    Reviewed = "patched"
    MaxRuns = 2
    MaxUpdates = 1
    None = None
PROPERTY EndsPrepared
CHECK_DEADLOCK FALSE
