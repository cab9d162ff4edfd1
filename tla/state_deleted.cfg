SPECIFICATION Spec
CONSTANTS
  StartStates = {"null"}
INVARIANTS
  StatesOutliveTheirUse
CHECK_DEADLOCK FALSE
