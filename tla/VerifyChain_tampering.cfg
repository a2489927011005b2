SPECIFICATION Spec
CONSTANTS
  Null = Null
  Events <- MCEvents
  Forgeries <- MCForgeries
  MaxRows = 2
  MaxTampers = 1
  MaxRestarts = 1
INVARIANTS VerdictTellsTampering
