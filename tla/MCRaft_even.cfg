SPECIFICATION Spec
CONSTANTS
  Server = {s1, s2, s3, s4}
  Command = {}
  None = None
  MaxTerm = 1
  MaxLog = 0
  MaxReply = 0
  MaxThreads = 4
  Rerun = {}
SYMMETRY Symmetry
INVARIANT ElectionSafety
CHECK_DEADLOCK FALSE
