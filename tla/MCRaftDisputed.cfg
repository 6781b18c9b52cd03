SPECIFICATION DisputedSpec
CONSTANTS
  Server = {s1, s2, s3}
  Command = {c1}
  None = None
  First = s1
  Second = s2
  MaxTerm = 3
  MaxLog = 2
  MaxReply = 2
  MaxThreads = 2
  Rerun = {}
INVARIANTS LogMatching NextIndexInBounds AppliedMatchesLog LeaderCompleteness OnlyHoldersElectable
PROPERTIES DeposedByLaterTerm CommittedKept ImplementsReplicatedLog
CHECK_DEADLOCK FALSE
