SPECIFICATION Spec
CONSTANTS
  Node = {n1, n2, n3}
  FailTypes = {"FAILURE", "PARTITION"}
  MaxCommands = 3
CONSTRAINT Followed
INVARIANTS CutAsAsked OthersUndisturbed
PROPERTY CommandsReturn
CHECK_DEADLOCK FALSE
