\* A socket dies between two commands.
SPECIFICATION Spec
CONSTANTS
  Label = {"a", "b"}
  Moved = {"a"}
  Decided <- MCDecided
  MaxDeaths = 1
  MaxLate = 1
  MaxAsked = 2
CHECK_DEADLOCK FALSE
PROPERTIES
  DeadClientsGo
