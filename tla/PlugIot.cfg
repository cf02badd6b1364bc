CONSTANTS
  MaxQueue = 2
  MaxTurns = 2
SPECIFICATION Spec
INVARIANTS TypeOK NoStall FlagsHonest
PROPERTIES Reaches
CHECK_DEADLOCK FALSE
