SPECIFICATION Spec
CONSTANTS
  Client = {c1, c2}
  NoClient = NoClient
  MaxTerm = 3
  MaxLog = 2
PROPERTY SuccessMeansCommitted
CHECK_DEADLOCK FALSE
