SPECIFICATION FairSpec
CONSTANT MaxSignals = 2
PROPERTY Exits
CHECK_DEADLOCK FALSE
