SPECIFICATION Spec
CONSTANTS
  Null = Null
  Texts <- MCTexts
  EventSizes = {0, 2, 4, 6, 9, 12, 14, 16, 18, 26, 28}
  RestSizes = {1, 8, 14}
INVARIANTS TypeOK RoomForTerminator LongestFittingPrefix ReadsBack QueryNeverDrops
CHECK_DEADLOCK FALSE
