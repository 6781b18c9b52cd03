SPECIFICATION SpecPrompt
CONSTANTS
  Server = {s1, s2, s3}
  Command = {c1}
  None = None
  MaxTerm = 1
  MaxLog = 2
  MaxReply = 1
  MaxThreads = 3
  Rerun = {s1, s2, s3}
SYMMETRY Symmetry
INVARIANTS MatchIndexSound
PROPERTY CommitForward
CHECK_DEADLOCK FALSE
