SPECIFICATION FairSpec
CONSTANTS
  Fields = {"pan", "cvv"}
  Values = {1, 2}
  Redacted = Redacted
  None = None
  GlobalPaths <- MCGlobalPaths
  Entries <- MCEntries
  InitialEntries <- MCInitial
INVARIANTS TypeOK
PROPERTIES ChangedFieldsRedacted TagTakesEffect
