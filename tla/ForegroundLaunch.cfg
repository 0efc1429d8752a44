SPECIFICATION FairSpec
CONSTANTS
  Controllers = {a, b}
  Modes = {"full", "windowed", "plain"}
  Pairs = {"full"}
  MaxFaults = 2
INVARIANTS PropertyRestored
PROPERTIES ProbeIsOwn RunEnds
CHECK_DEADLOCK FALSE
