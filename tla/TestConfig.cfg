SPECIFICATION Spec
CONSTANTS
  Node = {n1, n2}
  Window = 1
  MaxLog = 4
  MaxTries = 2
PROPERTY ProposalsAnswered
CHECK_DEADLOCK FALSE
