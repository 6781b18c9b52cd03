SPECIFICATION Spec
CONSTANTS
  MaxLen = 5
  MaxLeader = 3
  MaxBatch = 3
  MaxTerm = 3
  Peers = {p1, p2, p3, p4}
  Logs <- MCLogs
  LeaderLogs <- MCLeaderLogs
  Batches <- MCBatches
  Terms <- MCTerms
INVARIANTS SearchCorrect MergeCorrect ConflictCorrect CommitCorrect NothingMissed
PROPERTY LoopsEnd
CHECK_DEADLOCK FALSE
