SPECIFICATION CommandsSpec
CONSTANTS
    Files = {d3d9, d3d11}
    Variants = {v1, v2}
    NoFile = NoFile
    Foreign = Foreign
    MaxDrawn = 3
    MaxOverlayFaults = 3
    InstallerProcs = {p1, p2}
    Versions = {v1, v2}
    FixedPath = FixedPath
    Missing = Missing
    Spoilt = Spoilt
    MaxInstallFaults = 2
    Total = 2
    Arguments <- Considered
    Stable = 2
    MaxPolls = 4
    Margin = 0
    Fixed = 0
    Top = 1
    MaxStrangers = 1
    MaxWriteFaults = 2
INVARIANTS OnRecord ReadyIsInstalled PassesCount FileTells
PROPERTIES NothingOverwritten IntactRestored ImplementsStore Installs
    SeriesComesToEnd
CHECK_DEADLOCK FALSE
