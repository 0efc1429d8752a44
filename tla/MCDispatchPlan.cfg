SPECIFICATION MCSpec
INVARIANTS ProfileReaches
CHECK_DEADLOCK FALSE
