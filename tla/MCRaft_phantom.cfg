SPECIFICATION Spec
CONSTANTS
  Server = {s1, s2, s3}
  Command = {c1}
  None = None
  MaxTerm = 2
  MaxLog = 1
  MaxReply = 1
  MaxThreads = 3
  Rerun = {}
SYMMETRY Symmetry
INVARIANT AppliedMatchesLog
CHECK_DEADLOCK FALSE
