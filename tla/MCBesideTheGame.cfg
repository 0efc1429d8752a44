SPECIFICATION BesideSpec
CONSTANTS
    None = None
    Maps = {m1, m2, m3, m4}
    MaxMaps = 2
    MaxHistory = 2
    MaxFaults = 2
    MaxGames = 2
    MaxMaskChanges = 2
    Stable = 2
    Helpers = {"wine"}
    MaxPid = 3
    MaxStarts = 3
    MaxUpsets = 1
    StablePolls = 2
    IdlePolls = 2
    MaxThread = 3
    MaxTurns = 2
    MaxSessions = 2
    MaxFlips = 2
    Cap = 4
    MarkerSize = 2
    PipeSize = 3
    ReadSize = 2
    MaxPrinted = 6
    Launchers = {l1, l2}
    MaxLaunches = 3
    Modes = {"cef", "x11", "service"}
    Targets = {t1, t2, t3}
    MaxSignals = 2
    MaxChanges = 2
INVARIANTS CachesTell ToolTells LogsTell HoldTells
PROPERTIES HelpersGoOn GuardsTell GuardsReport HoldEnds
CHECK_DEADLOCK FALSE
