SPECIFICATION FairSpec
CONSTANTS
  None = None
  Lines <- MCLines
INVARIANTS TypeOK ClearPrefixExact NothingInventedOrCut ImagesExact
PROPERTIES Terminates
CHECK_DEADLOCK FALSE
