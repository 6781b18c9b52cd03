SPECIFICATION Spec
CONSTANTS
  Server = {s1, s2, s3}
  Command = {}
  None = None
  MaxTerm = 2
  MaxLog = 0
  MaxReply = 1
  MaxThreads = 3
  Rerun = {}
SYMMETRY Symmetry
INVARIANTS TypeOK ElectionSafety OneVotePerTerm
PROPERTY TermAndVoteStable
CHECK_DEADLOCK FALSE
