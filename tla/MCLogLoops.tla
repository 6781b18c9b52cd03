------------------------------ MODULE MCLogLoops ------------------------------
EXTENDS LogLoops

CONSTANTS MaxLen, MaxLeader, MaxBatch, MaxTerm      \* bounds on the inputs

SeqsUpTo(n, t) == UNION {[1..m -> [term : 1..t]] : m \in 0..n}
MCLogs == SeqsUpTo(MaxLen, MaxTerm)
MCLeaderLogs == SeqsUpTo(MaxLeader, 2)
MCBatches == SeqsUpTo(MaxBatch, MaxTerm)
MCTerms == 0..MaxTerm
==============================================================================
