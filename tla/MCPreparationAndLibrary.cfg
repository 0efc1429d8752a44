SPECIFICATION BeforehandSpec
CONSTANTS
  Procs = {p1, p2}
  Values = {v1, v2}
  None = None
  Other = Other
  NoRender = NoRender
  Unsaid = Unsaid
  MaxEdits = 2
  MaxSessions = 1
  Targets = 2
  Reviewed = "patched"
  MaxRuns = 2
  MaxUpdates = 1
  OtherPackages = {libx11, vulkan}
  FirstPackage = repo
  MaxTurns = 3
  MaxFiles = 4
  MaxKills = 1
  Games = {raider}
  MaxVersion = 2
  CacheNames = {bin, lut}
  MaxSeedUpsets = 2
  ShmNames = {shm1}
  MaxNumber = 2
  MaxInode = 2
  Cards = {c1, c2}
  Home = c1
  NoCard = NoCard
  Files = {f1, f2}
  MaxFaults = 2
  MaxWrites = 1
SYMMETRY BeforehandSymmetry
INVARIANTS EditStands OriginalsKept PreparedWell OneView NothingHalfDone
PROPERTIES EndIsWhole GameKept
CHECK_DEADLOCK FALSE
