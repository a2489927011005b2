SPECIFICATION Spec
CONSTANTS
  Null = Null
  Events <- MCEvents
  Forgeries <- MCForgeries
  MaxRows = 3
  MaxTampers = 2
  MaxRestarts = 1
INVARIANTS TypeOK VerdictCorrect 
