SPECIFICATION Spec
CONSTANTS
  StartStates = {"null"}
INVARIANTS
  ENetEnteredByOne
CHECK_DEADLOCK FALSE
