------------------------------ MODULE RaftProofs ------------------------------
(***************************************************************************)
(* Type correctness and election safety of Raft, for every cluster, every    *)
(* set of commands and every value of the bounds.                            *)
(***************************************************************************)
EXTENDS RaftSafety, FiniteSetTheorems, SequenceTheorems, TLAPS

------------------------------------------------------------------------------
(* The bag of threads.                                                      *)

\* Forking threads adds them and nothing else.
LEMMA ForkFacts ==
  ASSUME NEW B, IsABag(B), NEW S
  PROVE  /\ IsABag(B (+) SetToBag(S))
         /\ DOMAIN (B (+) SetToBag(S)) = DOMAIN B \cup S
BY DEF IsABag, SetToBag, (+)

\* Ending a thread adds none.
LEMMA EndFacts ==
  ASSUME NEW B, IsABag(B), NEW f
  PROVE  /\ IsABag(B (-) SetToBag({f}))
         /\ DOMAIN (B (-) SetToBag({f})) \subseteq DOMAIN B
BY DEF IsABag, SetToBag, (-)

LEMMA ForkInFlight ==
  ASSUME IsABag(threads), NEW S, Fork(S)
  PROVE  IsABag(threads)' /\ InFlight' = InFlight \cup S
BY ForkFacts DEF Fork, InFlight, BagToSet

\* A thread that moves on leaves only its successors.
LEMMA ResumeFacts ==
  ASSUME IsABag(threads), NEW f, NEW S, Resume(f, S)
  PROVE  IsABag(threads)' /\ InFlight' \subseteq InFlight \cup S
<1>1. IsABag(threads (-) SetToBag({f}))
      /\ DOMAIN (threads (-) SetToBag({f})) \subseteq DOMAIN threads
  BY EndFacts
<1>2. IsABag((threads (-) SetToBag({f})) (+) SetToBag(S))
      /\ DOMAIN ((threads (-) SetToBag({f})) (+) SetToBag(S))
           = DOMAIN (threads (-) SetToBag({f})) \cup S
  BY <1>1, ForkFacts
<1> QED BY <1>1, <1>2 DEF Resume, InFlight, BagToSet

------------------------------------------------------------------------------
(* The decisions of RaftLog, on logs of entries of any kind.                *)

\* A merge after a successful consistency check is again a log.
LEMMA MergeType ==
  ASSUME NEW E, NEW l \in Seq(E), NEW entries \in Seq(E), NEW p \in 0..Len(l)
  PROVE  Merge(l, p, entries) \in Seq(E)
<1> DEFINE keep == Cardinality(Kept(l, p, entries))
           last == IF p + Len(entries) > keep THEN p + Len(entries) ELSE keep
<1>1. IsFiniteSet(1..Len(l)) /\ Cardinality(1..Len(l)) = Len(l)
      /\ IsFiniteSet(1..p) /\ Cardinality(1..p) = p
  BY FS_Interval
<1>2. Kept(l, p, entries) \subseteq 1..Len(l) /\ 1..p \subseteq Kept(l, p, entries)
  BY DEF Kept
<1>3. IsFiniteSet(Kept(l, p, entries)) /\ keep \in Nat /\ keep <= Len(l)
      /\ p <= keep
  BY <1>1, <1>2, FS_Subset, FS_CardinalityType
<1>4. last \in Nat
  BY <1>3
<1>5. \A k \in 1..last : (IF k <= keep THEN l[k] ELSE entries[k - p]) \in E
  <2> SUFFICES ASSUME NEW k \in 1..last
               PROVE  (IF k <= keep THEN l[k] ELSE entries[k - p]) \in E
    OBVIOUS
  <2>1. CASE k <= keep
    BY <1>3, <2>1
  <2>2. CASE k > keep
    <3>1. k - p \in 1..Len(entries)
      BY <1>3, <2>2
    <3> QED BY <1>3, <2>2, <3>1
  <2> QED BY <1>3, <2>1, <2>2
<1>6. Merge(l, p, entries) \in [1..last -> E]
  BY <1>5 DEF Merge
<1>7. \E n \in Nat : Merge(l, p, entries) \in [1..n -> E]
  BY <1>4, <1>6
<1> HIDE DEF last, keep
<1>8. Merge(l, p, entries) \in UNION {[1..n -> E] : n \in Nat}
  BY <1>7, Zenon
<1> QED BY <1>8, SeqDef, Zenon

\* A follower never reports index 0 together with a conflict.
LEMMA ConflictInfoType ==
  ASSUME NEW l \in Seq(Entry), NEW p \in Nat \ {0}
  PROVE  ConflictInfo(l, p) \in Conflict
<1>1. CASE p > Len(l)
  BY <1>1 DEF ConflictInfo, Conflict
<1>2. CASE p <= Len(l)
  <2>1. IsFiniteSet(1..p) /\ Cardinality(1..p) = p
    BY FS_Interval
  <2>2. TermRun(l, p) \subseteq 1..p
    BY DEF TermRun
  <2>3. Cardinality(TermRun(l, p)) \in Nat /\ Cardinality(TermRun(l, p)) <= p
    BY <2>1, <2>2, FS_Subset, FS_CardinalityType
  <2>4. l[p].term \in Nat
    <3>1. p \in 1..Len(l)
      BY <1>2
    <3>2. l[p] \in Entry
      BY <3>1, ElementOfSeq
    <3> QED BY <3>2 DEF Entry
  <2> QED BY <1>2, <2>3, <2>4 DEF ConflictInfo, Conflict
<1> QED BY <1>1, <1>2

\* What is applied is again a sequence of entries.
LEMMA ApplyType ==
  ASSUME NEW E, NEW l \in Seq(E), NEW done \in Seq(E), NEW commit \in Nat
  PROVE  ApplyEntries(done, l, commit) \in Seq(E)
BY DEF ApplyEntries

\* The search returns an index or 0.
LEMMA SearchType ==
  ASSUME NEW l, NEW left \in Nat, NEW right \in Int, NEW term
  PROVE  SearchResults(l, left, right, term) \subseteq Nat
BY DEF SearchResults

\* The commit index stays a natural number.
LEMMA NewCommitsType ==
  ASSUME NEW l, NEW commit \in Nat, NEW last \in Nat, NEW term, NEW match,
         NEW peers, NEW stale
  PROVE  NewCommits(l, commit, last, term, match, peers, stale) \subseteq Nat
BY DEF NewCommits, Committable

------------------------------------------------------------------------------
(* Type correctness.                                                        *)

\* The fields of a thread, by where it stands.
LEMMA ThreadFields ==
  ASSUME NEW f \in Thread
  PROVE  /\ f.from \in Server
         /\ f.pc \notin {"become_candidate", "request_votes"} => f.to \in Server
         /\ f.pc \in {"vote_call", "vote_request", "vote_reply"} =>
              f.election_term \in Nat
         /\ f.pc = "vote_request" => f.req \in VoteRequest
         /\ f.pc = "vote_reply" => f.reply \in VoteReply
         /\ f.pc \in {"ae_request", "ae_reply"} => f.sent \in Sent
         /\ f.pc = "ae_request" => f.req \in AppendRequest
         /\ f.pc = "ae_reply" => f.reply \in AppendReply
BY DEF Thread, CandidateThread, CallThread, VoteThread, AppendThread

\* A node that has led once has a nextIndex for every peer ever after, so a
\* thread of send_entries, however late, never reads an absent one.
Led(i) == \A j \in Peers(i) : nextIndex[i][j] # 0
NextPresent ==
  /\ \A i \in Server : Leading(i) => Led(i)
  /\ \A f \in At("ae_call") : f.to \in Peers(f.from) /\ Led(f.from)
TypeInv == TypeOK /\ NextPresent

LEMMA TypeInit == Init => TypeInv
<1> SUFFICES ASSUME Init PROVE TypeInv
  OBVIOUS
<1>1. IsABag(threads) /\ InFlight = {}
  BY DEF Init, EmptyBag, SetToBag, IsABag, InFlight, BagToSet
<1>2. <<>> \in Seq(Entry)
  BY EmptySeq
<1> QED BY <1>1, <1>2 DEF Init, TypeInv, TypeOK, NextPresent, Role, Leading, At

\* Steps that leave the leaders' variables alone and make no leader.
LEMMA NextKept ==
  ASSUME NextPresent, UNCHANGED nextIndex,
         At("ae_call")' \subseteq At("ae_call"),
         \A i \in Server : Leading(i)' => Leading(i)
  PROVE  NextPresent'
BY DEF NextPresent, Led, Peers

\* One step per action: the threads it leaves, then the variables it sets.
LEMMA TypeElection ==
  ASSUME TypeInv, NEW f \in InFlight,
         BecomeCandidate(f) \/ RequestVotes(f) \/ PrepareVote(f)
           \/ ReplyVote(f) \/ DropVote(f) \/ RpcFail(f)
  PROVE  TypeInv'
<1> USE DEF TypeInv
<1>0. f \in Thread /\ IsABag(threads) /\ f.from \in Server
  BY ThreadFields DEF TypeOK
<1>1. CASE BecomeCandidate(f)
  <2> DEFINE g == [pc |-> "request_votes", from |-> f.from]
  <2>1. IsABag(threads)' /\ InFlight' \subseteq InFlight \cup {g}
    BY <1>0, <1>1, ResumeFacts DEF BecomeCandidate
  <2>2. g \in Thread /\ g.pc # "ae_call"
    BY <1>0 DEF Thread, CandidateThread
  <2>3. TypeOK'
    BY <1>0, <1>1, <2>1, <2>2
    DEF TypeOK, BecomeCandidate, Role, logVars, leadVars
  <2>4. NextPresent'
    BY <1>0, <1>1, <2>1, <2>2, NextKept
    DEF TypeOK, BecomeCandidate, Leading, leadVars, At
  <2> QED BY <2>3, <2>4
<1>2. CASE RequestVotes(f)
  <2> DEFINE S == {[pc |-> "vote_call", from |-> f.from, to |-> j,
                    election_term |-> currentTerm[f.from]] : j \in Peers(f.from)}
  <2>1. IsABag(threads)' /\ InFlight' \subseteq InFlight \cup S
    BY <1>0, <1>2, ResumeFacts DEF RequestVotes
  <2>2. S \subseteq Thread /\ \A g \in S : g.pc # "ae_call"
    <3>1. currentTerm[f.from] \in Nat
      BY <1>0 DEF TypeOK
    <3>2. ASSUME NEW j \in Peers(f.from)
          PROVE  [pc |-> "vote_call", from |-> f.from, to |-> j,
                  election_term |-> currentTerm[f.from]] \in Thread
      BY <1>0, <3>1 DEF Thread, VoteThread, Peers
    <3> QED BY <3>2
  <2>3. TypeOK'
    BY <1>2, <2>1, <2>2 DEF TypeOK, RequestVotes, electVars, logVars, leadVars
  <2>4. NextPresent'
    BY <1>2, <2>1, <2>2, NextKept
    DEF RequestVotes, Leading, electVars, leadVars, At
  <2> QED BY <2>3, <2>4
<1>3. CASE PrepareVote(f)
  <2> DEFINE r == [term |-> currentTerm[f.from],
                   last_log_term |-> LastLogTerm(log[f.from]),
                   last_log_index |-> LastLogIndex(log[f.from])]
             g == [pc |-> "vote_request", from |-> f.from, to |-> f.to,
                   election_term |-> f.election_term, req |-> r]
  <2>1. IsABag(threads)' /\ InFlight' \subseteq InFlight \cup {g}
    BY <1>0, <1>3, ResumeFacts DEF PrepareVote
  <2>2. f.to \in Server /\ f.election_term \in Nat
    BY <1>0, <1>3, ThreadFields DEF PrepareVote
  <2>3. log[f.from] \in Seq(Entry) /\ Len(log[f.from]) \in Nat
    BY <1>0, LenProperties DEF TypeOK
  <2>4. LastLogTerm(log[f.from]) \in Nat
    <3>1. CASE Len(log[f.from]) = 0
      BY <3>1 DEF LastLogTerm
    <3>2. CASE Len(log[f.from]) # 0
      <4>1. log[f.from][Len(log[f.from])] \in Entry
        BY <2>3, <3>2, ElementOfSeq
      <4> QED BY <3>2, <4>1 DEF LastLogTerm, Entry
    <3> QED BY <3>1, <3>2
  <2>5. r \in VoteRequest
    BY <1>0, <2>3, <2>4 DEF VoteRequest, LastLogIndex, TypeOK
  <2>6. g \in Thread /\ g.pc # "ae_call"
    BY <1>0, <2>2, <2>5 DEF Thread, VoteThread
  <2>7. TypeOK'
    BY <1>3, <2>1, <2>6 DEF TypeOK, PrepareVote, electVars, logVars, leadVars
  <2>8. NextPresent'
    BY <1>3, <2>1, <2>6, NextKept
    DEF PrepareVote, Leading, electVars, leadVars, At
  <2> QED BY <2>7, <2>8
<1>4. CASE ReplyVote(f)
  <2> DEFINE i == f.to
             granted == Grants(i, f)
             term == IF active[i] THEN NewerTerm(i, f.req.term)
                     ELSE currentTerm[i]
             r == [term |-> IF active[i] THEN term ELSE 0,
                   vote_granted |-> granted]
             g == [pc |-> "vote_reply", from |-> f.from, to |-> i,
                   election_term |-> f.election_term, reply |-> r]
  <2>1. IsABag(threads)' /\ InFlight' \subseteq InFlight \cup {g}
    BY <1>0, <1>4, ResumeFacts DEF ReplyVote
  <2>2. i \in Server /\ f.election_term \in Nat /\ f.req.term \in Nat
    BY <1>0, <1>4, ThreadFields DEF ReplyVote, VoteRequest
  <2>3. term \in Nat /\ granted \in BOOLEAN
    BY <2>2 DEF TypeOK, NewerTerm, Grants
  <2>4. g \in Thread /\ g.pc # "ae_call"
    <3>1. r \in VoteReply
      BY <2>3 DEF VoteReply
    <3> QED BY <1>0, <2>2, <3>1 DEF Thread, VoteThread
  <2> HIDE DEF granted, term
  <2>5. currentTerm' = [currentTerm EXCEPT ![i] = term]
        /\ votedFor' = [votedFor EXCEPT ![i] =
             IF granted THEN f.from ELSE VoteAt(i, term)]
        /\ currentRole' = [currentRole EXCEPT ![i] =
             IF granted \/ term > currentTerm[i] THEN "Follower" ELSE @]
        /\ UNCHANGED <<votes, logVars, leadVars, active>>
    BY <1>4 DEF ReplyVote, granted, term
  <2>6. TypeOK'
    BY <1>0, <2>1, <2>2, <2>3, <2>4, <2>5
    DEF TypeOK, VoteAt, Role, logVars, leadVars
  <2>7. NextPresent'
    BY <2>1, <2>2, <2>4, <2>5, NextKept DEF TypeOK, Leading, leadVars, At
  <2> QED BY <2>6, <2>7
<1>5. CASE DropVote(f)
  <2> DEFINE i == f.from
             term == IF f.reply.vote_granted THEN currentTerm[i]
                     ELSE NewerTerm(i, f.reply.term)
  <2>1. IsABag(threads)' /\ InFlight' \subseteq InFlight
    BY <1>0, <1>5, ResumeFacts DEF DropVote
  <2>2. f.reply \in VoteReply
    BY <1>0, <1>5, ThreadFields DEF DropVote
  <2>3. term \in Nat
    BY <1>0, <2>2 DEF TypeOK, NewerTerm, VoteReply
  <2> HIDE DEF term
  <2>4. currentTerm' = [currentTerm EXCEPT ![i] = term]
        /\ votedFor' = [votedFor EXCEPT ![i] = VoteAt(i, term)]
        /\ currentRole' = [currentRole EXCEPT ![i] =
             IF term > currentTerm[i] THEN "Follower" ELSE @]
        /\ UNCHANGED <<votes, logVars, leadVars, active>>
    BY <1>5 DEF DropVote, term
  <2>5. TypeOK'
    BY <1>0, <2>1, <2>3, <2>4 DEF TypeOK, VoteAt, Role, logVars, leadVars
  <2>6. NextPresent'
    BY <1>0, <2>1, <2>4, NextKept DEF TypeOK, Leading, leadVars, At
  <2> QED BY <2>5, <2>6
<1>6. CASE RpcFail(f)
  <2>1. IsABag(threads)' /\ InFlight' \subseteq InFlight
    BY <1>0, <1>6, ResumeFacts DEF RpcFail
  <2>2. TypeOK'
    BY <1>6, <2>1 DEF RpcFail, TypeOK, electVars, logVars, leadVars
  <2>3. NextPresent'
    BY <1>6, <2>1, NextKept DEF RpcFail, Leading, electVars, leadVars, At
  <2> QED BY <2>2, <2>3
<1> QED BY <1>1, <1>2, <1>3, <1>4, <1>5, <1>6

\* Becoming leader gives every peer a nextIndex.
LEMMA TypeCountVote ==
  ASSUME TypeInv, NEW f \in InFlight, CountVote(f)
  PROVE  TypeInv'
<1> DEFINE i == f.from
           V == votes[i] \cup {f.to}
<1>1. f \in Thread /\ IsABag(threads) /\ i \in Server /\ f.to \in Server
  BY ThreadFields DEF TypeInv, TypeOK, CountVote
<1>2. IsABag(threads)' /\ InFlight' \subseteq InFlight
  BY <1>1, ResumeFacts DEF CountVote
<1>3. Len(log[i]) \in Nat
  BY <1>1, LenProperties DEF TypeInv, TypeOK
<1>4. CASE WinsElection(V)
  <2>1. /\ currentRole' = [currentRole EXCEPT ![i] = "Leader"]
        /\ nextIndex' = [nextIndex EXCEPT ![i] =
             [j \in Server |-> IF j = i THEN 0 ELSE Len(log[i]) + 1]]
        /\ matchIndex' = [matchIndex EXCEPT ![i] = [j \in Server |-> 0]]
        /\ replyCounter' = [replyCounter EXCEPT ![i] = [j \in Server |-> 0]]
    BY <1>4 DEF CountVote, BecomeLeader
  <2> DEFINE n == [j \in Server |-> IF j = i THEN 0 ELSE Len(log[i]) + 1]
             z == [j \in Server |-> 0]
  <2>a. n \in [Server -> Nat] /\ z \in [Server -> Nat]
        /\ \A j \in Peers(i) : n[j] # 0
    BY <1>3 DEF Peers
  <2>b. /\ nextIndex' = [nextIndex EXCEPT ![i] = n]
        /\ matchIndex' = [matchIndex EXCEPT ![i] = z]
        /\ replyCounter' = [replyCounter EXCEPT ![i] = z]
    BY <2>1
  <2> HIDE DEF n, z
  <2>c. /\ nextIndex' \in [Server -> [Server -> Nat]]
        /\ matchIndex' \in [Server -> [Server -> Nat]]
        /\ replyCounter' \in [Server -> [Server -> Nat]]
        /\ nextIndex'[i] = n
    BY <1>1, <2>a, <2>b DEF TypeInv, TypeOK
  <2>d. votes' \in [Server -> SUBSET Server]
    BY <1>1 DEF TypeInv, TypeOK, CountVote
  <2>e. currentRole' \in [Server -> Role]
    BY <1>1, <2>1 DEF TypeInv, TypeOK, Role
  <2>2. TypeOK'
    BY <1>2, <2>c, <2>d, <2>e DEF TypeInv, TypeOK, CountVote, logVars
  <2>3. Led(i)'
    BY <2>a, <2>c DEF Led, Peers
  <2>4. \A k \in Server : k # i => Led(k)' = Led(k)
    BY <1>1, <2>1 DEF TypeInv, TypeOK, Led, Peers
  <2>5. NextPresent'
    <3>1. \A k \in Server : Leading(k)' => Led(k)'
      BY <1>1, <2>1, <2>3, <2>4 DEF TypeInv, TypeOK, NextPresent, Leading
    <3>2. \A g \in At("ae_call")' : g.to \in Peers(g.from) /\ Led(g.from)'
      <4> SUFFICES ASSUME NEW g \in At("ae_call")'
                   PROVE  g.to \in Peers(g.from) /\ Led(g.from)'
        OBVIOUS
      <4>1. g \in At("ae_call") /\ g \in Thread
        BY <1>2 DEF At, TypeInv, TypeOK
      <4>2. g.from \in Server
        BY <4>1, ThreadFields
      <4> QED BY <2>3, <2>4, <4>1, <4>2 DEF TypeInv, NextPresent
    <3> QED BY <3>1, <3>2 DEF NextPresent, Peers
  <2> QED BY <2>2, <2>5 DEF TypeInv
<1>5. CASE ~WinsElection(V)
  <2>1. UNCHANGED <<currentRole, leadVars>>
    BY <1>5 DEF CountVote, BecomeLeader
  <2>2. TypeOK'
    BY <1>1, <1>2, <2>1 DEF TypeInv, TypeOK, CountVote, logVars, leadVars
  <2>3. NextPresent'
    BY <1>2, <2>1, NextKept DEF TypeInv, Leading, leadVars, At
  <2> QED BY <2>2, <2>3 DEF TypeInv
<1> QED BY <1>4, <1>5

LEMMA TypeNode ==
  ASSUME TypeInv, NEW i \in Server, NodeStep(i)
  PROVE  TypeInv'
<1> USE DEF TypeInv
<1>1. CASE Run(i)
  <2>1. TypeOK'
    BY <1>1 DEF Run, TypeOK, Role, InFlight, logVars, leadVars
  <2>2. NextPresent'
    BY <1>1, NextKept DEF Run, TypeOK, Leading, leadVars, At, InFlight
  <2> QED BY <2>1, <2>2
<1>2. CASE ElectionTimeout(i)
  <2> DEFINE g == [pc |-> "become_candidate", from |-> i]
  <2>1. IsABag(threads)' /\ InFlight' = InFlight \cup {g}
    BY <1>2, ForkInFlight DEF ElectionTimeout, TypeOK
  <2>2. g \in Thread /\ g.pc # "ae_call"
    BY DEF Thread, CandidateThread
  <2>3. TypeOK'
    BY <1>2, <2>1, <2>2
    DEF ElectionTimeout, TypeOK, electVars, logVars, leadVars
  <2>4. NextPresent'
    BY <1>2, <2>1, <2>2, NextKept
    DEF ElectionTimeout, Leading, electVars, leadVars, At
  <2> QED BY <2>3, <2>4
<1>3. CASE HeartbeatTimeout(i)
  <2> DEFINE S == {[pc |-> "ae_call", from |-> i, to |-> j] : j \in Peers(i)}
  <2>1. IsABag(threads)' /\ InFlight' = InFlight \cup S
    BY <1>3, ForkInFlight DEF HeartbeatTimeout, TypeOK
  <2>2. S \subseteq Thread
    BY DEF Thread, CallThread, Peers
  <2>3. TypeOK'
    BY <1>3, <2>1, <2>2
    DEF HeartbeatTimeout, TypeOK, electVars, logVars, leadVars
  <2>4. \A g \in S : g.to \in Peers(g.from) /\ g.from = i
    OBVIOUS
  <2>5. Leading(i) /\ UNCHANGED <<nextIndex, currentRole>>
    BY <1>3 DEF HeartbeatTimeout, Leading, electVars, leadVars
  <2> HIDE DEF S
  <2>6. NextPresent'
    BY <2>1, <2>4, <2>5 DEF NextPresent, Leading, Led, Peers, At
  <2> QED BY <2>3, <2>6
<1>4. CASE \E c \in Command : Propose(i, c)
  <2> PICK c \in Command : Propose(i, c)
    BY <1>4
  <2>1. [term |-> currentTerm[i], command |-> c] \in Entry
    BY DEF TypeOK, Entry
  <2>2. Append(log[i], [term |-> currentTerm[i], command |-> c]) \in Seq(Entry)
    BY <2>1 DEF TypeOK
  <2>3. TypeOK'
    BY <2>2 DEF Propose, TypeOK, InFlight, electVars, leadVars
  <2>4. NextPresent'
    BY NextKept DEF Propose, Leading, electVars, leadVars, At, InFlight
  <2> QED BY <2>3, <2>4
<1> QED BY <1>1, <1>2, <1>3, <1>4 DEF NodeStep

LEMMA TypePrepareEntries ==
  ASSUME TypeInv, NEW f \in InFlight, PrepareEntries(f)
  PROVE  TypeInv'
<1> DEFINE i == f.from
           next == nextIndex[i][f.to]
           new == SubSeq(log[i], next, Len(log[i]))
           sent == [term |-> currentTerm[i],
                    counter |-> replyCounter[i][f.to] + 1,
                    next |-> next, match |-> matchIndex[i][f.to],
                    logSize |-> Len(log[i]), entries |-> Len(new)]
           r(stale) == [term |-> currentTerm[i],
                    prev_log_index |-> IF next > 1 THEN next - 1 ELSE 0,
                    prev_log_term |-> IF next > 1
                                      THEN TermAt(log[i], next - 1, stale)
                                      ELSE 0,
                    entries |-> new,
                    leader_commit |-> commitIndex[i]]
           g(stale) == [pc |-> "ae_request", from |-> i, to |-> f.to,
                        sent |-> sent, req |-> r(stale)]
<1>1. f \in Thread /\ IsABag(threads) /\ i \in Server /\ f.to \in Server
      /\ f \in At("ae_call")
  BY ThreadFields DEF TypeInv, TypeOK, PrepareEntries, At
<1>2. f.to \in Peers(i) /\ next \in Nat \ {0}
  BY <1>1 DEF TypeInv, TypeOK, NextPresent, Led
<1>3. log[i] \in Seq(Entry) /\ Len(log[i]) \in Nat
  BY <1>1, LenProperties DEF TypeInv, TypeOK
<1>4. new \in Seq(Entry) /\ Len(new) \in Nat
  <2>1. \A k \in next..Len(log[i]) : log[i][k] \in Entry
    BY <1>2, <1>3, ElementOfSeq
  <2>2. new \in Seq(Entry)
    BY <1>2, <1>3, <2>1, SubSeqProperties
  <2> QED BY <2>2, LenProperties
<1>5. PICK stale \in 0..MaxTerm : Resume(f, {g(stale)})
  BY DEF PrepareEntries
<1>6. stale \in Nat
  BY <1>5, BoundAssumption
<1>7. TermAt(log[i], next - 1, stale) \in Nat
  <2>1. CASE next - 1 \in 1..Len(log[i])
    <3>1. log[i][next - 1] \in Entry
      BY <1>3, <2>1, ElementOfSeq
    <3> QED BY <2>1, <3>1 DEF TermAt, Entry
  <2>2. CASE next - 1 \notin 1..Len(log[i])
    BY <1>6, <2>2 DEF TermAt
  <2> QED BY <2>1, <2>2
<1>a. /\ currentTerm[i] \in Nat /\ commitIndex[i] \in Nat
      /\ replyCounter[i][f.to] \in Nat /\ matchIndex[i][f.to] \in Nat
  BY <1>1 DEF TypeInv, TypeOK
<1> HIDE DEF new, next
<1>8. sent \in Sent
  BY <1>a, <1>2, <1>3, <1>4 DEF Sent
<1>9. r(stale) \in AppendRequest
  <2>1. (IF next > 1 THEN next - 1 ELSE 0) \in Nat
        /\ (IF next > 1 THEN TermAt(log[i], next - 1, stale) ELSE 0) \in Nat
    BY <1>2, <1>7
  <2> QED BY <1>a, <1>4, <2>1 DEF AppendRequest
<1>10. g(stale) \in Thread /\ g(stale).pc # "ae_call"
  <2> HIDE DEF sent, r
  <2> QED BY <1>1, <1>8, <1>9 DEF Thread, AppendThread
<1>11. IsABag(threads)' /\ InFlight' \subseteq InFlight \cup {g(stale)}
  BY <1>1, <1>5, ResumeFacts
<1> HIDE DEF g
<1>12. TypeOK'
  BY <1>10, <1>11
  DEF TypeInv, TypeOK, PrepareEntries, electVars, logVars, leadVars
<1>13. NextPresent'
  BY <1>10, <1>11, NextKept
  DEF TypeInv, PrepareEntries, Leading, electVars, leadVars, At
<1> QED BY <1>12, <1>13 DEF TypeInv

LEMMA TypeAppendEntries ==
  ASSUME TypeInv, NEW f \in InFlight, AppendEntries(f)
  PROVE  TypeInv'
<1> DEFINE i == f.to
<1>0. /\ f \in Thread /\ IsABag(threads) /\ i \in Server /\ f.from \in Server
      /\ f.sent \in Sent /\ f.req \in AppendRequest
  BY ThreadFields
  DEF TypeInv, TypeOK, AppendEntries, RefuseEntries, AcceptEntries
<1>1. CASE RefuseEntries(f)
  <2> DEFINE r == [term |-> IF active[i] THEN currentTerm[i] ELSE 0,
                   success |-> FALSE, conflict_info |-> NoConflict]
             g == [pc |-> "ae_reply", from |-> f.from, to |-> i,
                   sent |-> f.sent, reply |-> r]
  <2>1. r \in AppendReply
    BY <1>0 DEF AppendReply, Conflict, TypeInv, TypeOK
  <2>2. IsABag(threads)' /\ InFlight' \subseteq InFlight \cup {g}
    BY <1>0, <1>1, ResumeFacts DEF RefuseEntries
  <2> HIDE DEF r
  <2>3. g \in Thread /\ g.pc # "ae_call"
    BY <1>0, <2>1 DEF Thread, AppendThread
  <2>4. TypeOK'
    BY <1>1, <2>2, <2>3
    DEF RefuseEntries, TypeInv, TypeOK, electVars, logVars, leadVars
  <2>5. NextPresent'
    BY <1>1, <2>2, <2>3, NextKept
    DEF RefuseEntries, TypeInv, Leading, electVars, leadVars, At
  <2> QED BY <2>4, <2>5 DEF TypeInv
<1>2. CASE AcceptEntries(f)
  <2> DEFINE term == NewerTerm(i, f.req.term)
             prev == f.req.prev_log_index
             miss == PrevMismatch(log[i], prev, f.req.prev_log_term)
             newLog == IF miss \/ f.req.entries = <<>> THEN log[i]
                       ELSE Merge(log[i], prev, f.req.entries)
             commit == IF miss THEN commitIndex[i]
                       ELSE CommitWithLeader(newLog, commitIndex[i],
                                             f.req.leader_commit)
             done == IF ~miss /\ f.req.leader_commit > commitIndex[i]
                     THEN ApplyEntries(applied[i], newLog, commit)
                     ELSE applied[i]
             r == [term |-> term, success |-> ~miss,
                   conflict_info |-> IF miss THEN ConflictInfo(log[i], prev)
                                     ELSE NoConflict]
             g == [pc |-> "ae_reply", from |-> f.from, to |-> i,
                   sent |-> f.sent, reply |-> r]
  <2>1. /\ f.req.term \in Nat /\ prev \in Nat /\ f.req.leader_commit \in Nat
        /\ f.req.entries \in Seq(Entry)
    BY <1>0 DEF AppendRequest
  <2>2. /\ log[i] \in Seq(Entry) /\ Len(log[i]) \in Nat
        /\ applied[i] \in Seq(Entry) /\ commitIndex[i] \in Nat
        /\ currentTerm[i] \in Nat
    BY <1>0, LenProperties DEF TypeInv, TypeOK
  <2>3. term \in Nat
    BY <2>1, <2>2 DEF NewerTerm
  <2>4. miss => prev \in Nat \ {0}
    BY <2>1 DEF PrevMismatch
  <2>5. ~miss => prev \in 0..Len(log[i])
    BY <2>1, <2>2 DEF PrevMismatch
  <2>6. newLog \in Seq(Entry) /\ Len(newLog) \in Nat
    <3>1. ~miss => Merge(log[i], prev, f.req.entries) \in Seq(Entry)
      BY <2>1, <2>2, <2>5, MergeType
    <3>2. newLog \in Seq(Entry)
      BY <2>2, <3>1
    <3> QED BY <3>2, LenProperties
  <2>7. r \in AppendReply
    <3>1. miss => ConflictInfo(log[i], prev) \in Conflict
      BY <2>2, <2>4, ConflictInfoType
    <3>2. NoConflict \in Conflict
      BY DEF Conflict
    <3>3. miss \in BOOLEAN
      BY DEF PrevMismatch
    <3> HIDE DEF miss
    <3> QED BY <2>3, <3>1, <3>2, <3>3 DEF AppendReply
  <2> HIDE DEF newLog, miss, term
  <2>8. commit \in Nat
    BY <2>1, <2>2, <2>6 DEF CommitWithLeader
  <2> HIDE DEF commit
  <2>9. done \in Seq(Entry)
    BY <2>2, <2>6, <2>8, ApplyType
  <2>10. /\ currentTerm' = [currentTerm EXCEPT ![i] = term]
         /\ votedFor' = [votedFor EXCEPT ![i] = VoteAt(i, term)]
         /\ currentRole' = [currentRole EXCEPT ![i] = "Follower"]
         /\ log' = [log EXCEPT ![i] = newLog]
         /\ commitIndex' = [commitIndex EXCEPT ![i] = commit]
         /\ applied' = [applied EXCEPT ![i] = done]
         /\ UNCHANGED <<votes, leadVars, active>>
         /\ Resume(f, {g})
    BY <1>2 DEF AcceptEntries, newLog, miss, term, commit
  <2> HIDE DEF done, r
  <2>11. IsABag(threads)' /\ InFlight' \subseteq InFlight \cup {g}
    BY <1>0, <2>10, ResumeFacts
  <2>12. g \in Thread /\ g.pc # "ae_call"
    BY <1>0, <2>7 DEF Thread, AppendThread
  <2>13. TypeOK'
    BY <1>0, <2>3, <2>6, <2>8, <2>9, <2>10, <2>11, <2>12
    DEF TypeInv, TypeOK, VoteAt, Role, leadVars
  <2>14. NextPresent'
    BY <1>0, <2>10, <2>11, <2>12, NextKept
    DEF TypeInv, TypeOK, Leading, leadVars, At
  <2> QED BY <2>13, <2>14 DEF TypeInv
<1> QED BY <1>1, <1>2 DEF AppendEntries

\* A reply that moves one nextIndex of a leader to a positive value.
LEMMA NextMoved ==
  ASSUME TypeInv, NEW i \in Server, NEW j \in Server, NEW n \in Nat \ {0},
         nextIndex' = [nextIndex EXCEPT ![i][j] = n],
         InFlight' \subseteq InFlight, UNCHANGED currentRole
  PROVE  NextPresent'
<1>1. \A k \in Server : Led(k) => Led(k)'
  BY DEF TypeInv, TypeOK, Led, Peers
<1>2. \A k \in Server : Leading(k)' => Led(k)'
  BY <1>1 DEF TypeInv, NextPresent, Leading
<1>3. \A g \in At("ae_call")' : g.to \in Peers(g.from) /\ Led(g.from)'
  <2> SUFFICES ASSUME NEW g \in At("ae_call")'
               PROVE  g.to \in Peers(g.from) /\ Led(g.from)'
    OBVIOUS
  <2>1. g \in At("ae_call") /\ g \in Thread
    BY DEF At, TypeInv, TypeOK
  <2>2. g.from \in Server
    BY <2>1, ThreadFields
  <2> QED BY <1>1, <2>1, <2>2 DEF TypeInv, NextPresent
<1> QED BY <1>2, <1>3 DEF NextPresent, Peers

LEMMA TypeAppendReply ==
  ASSUME TypeInv, NEW f \in InFlight, HandleAppendReply(f)
  PROVE  TypeInv'
<1> DEFINE i == f.from
           j == f.to
<1>0. /\ f \in Thread /\ IsABag(threads) /\ i \in Server /\ j \in Server
      /\ f.sent \in Sent /\ f.reply \in AppendReply /\ Resume(f, {})
  BY ThreadFields
  DEF TypeInv, TypeOK, HandleAppendReply, SkipReply, StepDown, IgnoreReply,
      BackUp, Acknowledge
<1>1. IsABag(threads)' /\ InFlight' \subseteq InFlight
  BY <1>0, ResumeFacts
<1>2. /\ f.sent.counter \in Nat /\ f.sent.next \in Nat \ {0}
      /\ f.sent.logSize \in Nat /\ f.sent.entries \in Nat
      /\ f.reply.term \in Nat /\ f.reply.conflict_info \in Conflict
  BY <1>0 DEF Sent, AppendReply
<1>3. ASSUME NoteReply(f) PROVE replyCounter' \in [Server -> [Server -> Nat]]
  BY <1>0, <1>2, <1>3 DEF TypeInv, TypeOK, NoteReply
<1>4. CASE SkipReply(f)
  <2>1. TypeOK'
    BY <1>1, <1>4 DEF SkipReply, TypeInv, TypeOK, electVars, logVars, leadVars
  <2>2. NextPresent'
    BY <1>1, <1>4, NextKept
    DEF SkipReply, TypeInv, Leading, electVars, leadVars, At
  <2> QED BY <2>1, <2>2 DEF TypeInv
<1>5. CASE StepDown(f)
  <2>1. TypeOK'
    BY <1>0, <1>1, <1>2, <1>3, <1>5 DEF StepDown, TypeInv, TypeOK, Role, logVars
  <2>2. NextPresent'
    BY <1>0, <1>1, <1>5, NextKept DEF StepDown, TypeInv, TypeOK, Leading, At
  <2> QED BY <2>1, <2>2 DEF TypeInv
<1>6. CASE IgnoreReply(f)
  <2>1. TypeOK'
    BY <1>1, <1>3, <1>6 DEF IgnoreReply, TypeInv, TypeOK, electVars, logVars
  <2>2. NextPresent'
    BY <1>1, <1>6, NextKept DEF IgnoreReply, TypeInv, Leading, electVars, At
  <2> QED BY <2>1, <2>2 DEF TypeInv
<1>7. CASE BackUp(f)
  <2>1. PICK found \in SearchResults(log[i], matchIndex[i][j],
                         SearchLast(f) - 1, f.reply.conflict_info.conflict_term) :
             nextIndex' = [nextIndex EXCEPT ![i][j] = RetryIndex(f, found)]
    BY <1>7 DEF BackUp
  <2>2. matchIndex[i][j] \in Nat /\ nextIndex[i][j] \in Nat
    BY <1>0 DEF TypeInv, TypeOK
  <2>3. SearchLast(f) - 1 \in Int
    BY <1>2 DEF SearchLast
  <2>4. found \in Nat
    BY <2>2, <2>3, SearchType
  <2>5. nextIndex[i][j] # 0
    BY <1>2, <1>7 DEF BackUp, Unmoved
  <2>6. RetryIndex(f, found) \in Nat \ {0}
    <3>1. CASE f.reply.conflict_info = NoConflict
      BY <2>2, <2>5, <3>1 DEF RetryIndex
    <3>2. CASE f.reply.conflict_info # NoConflict
      <4>1. f.reply.conflict_info.conflict_index \in Nat \ {0}
        BY <1>2, <3>2 DEF Conflict
      <4> QED BY <2>4, <3>2, <4>1 DEF RetryIndex
    <3> QED BY <3>1, <3>2
  <2>7. nextIndex' \in [Server -> [Server -> Nat]]
    BY <1>0, <2>1, <2>6 DEF TypeInv, TypeOK
  <2>8. TypeOK'
    BY <1>1, <1>3, <1>7, <2>7 DEF BackUp, TypeInv, TypeOK, electVars, logVars
  <2>9. NextPresent'
    BY <1>0, <1>1, <1>7, <2>1, <2>6, NextMoved DEF BackUp, electVars
  <2> QED BY <2>8, <2>9 DEF TypeInv
<1>8. CASE Acknowledge(f)
  <2> DEFINE last == Acked(f)
             match == [matchIndex[i] EXCEPT ![j] = last]
  <2>1. last \in Nat /\ last + 1 \in Nat \ {0}
    BY <1>2 DEF Acked
  <2> HIDE DEF last
  <2>2. match \in [Server -> Nat]
    BY <1>0, <2>1 DEF TypeInv, TypeOK
  <2> HIDE DEF match
  <2>3. /\ matchIndex' = [matchIndex EXCEPT ![i] = match]
        /\ nextIndex' = [nextIndex EXCEPT ![i][j] = last + 1]
    BY <1>8 DEF Acknowledge, last, match
  <2>4. PICK stale \in 0..MaxTerm :
        \E n \in NewCommits(log[i], commitIndex[i], last, currentTerm[i],
                            match, Peers(i), stale) :
          /\ commitIndex' = [commitIndex EXCEPT ![i] = n]
          /\ applied' = [applied EXCEPT ![i] =
               IF n > commitIndex[i] THEN ApplyEntries(@, log[i], n) ELSE @]
    BY <1>8 DEF Acknowledge, last, match
  <2>5. PICK n \in NewCommits(log[i], commitIndex[i], last, currentTerm[i],
                              match, Peers(i), stale) :
          /\ commitIndex' = [commitIndex EXCEPT ![i] = n]
          /\ applied' = [applied EXCEPT ![i] =
               IF n > commitIndex[i] THEN ApplyEntries(@, log[i], n) ELSE @]
    BY <2>4
  <2>6. commitIndex[i] \in Nat /\ log[i] \in Seq(Entry) /\ applied[i] \in Seq(Entry)
    BY <1>0 DEF TypeInv, TypeOK
  <2>7. n \in Nat
    BY <2>1, <2>6, NewCommitsType
  <2>8. ApplyEntries(applied[i], log[i], n) \in Seq(Entry)
    BY <2>6, <2>7, ApplyType
  <2>9. commitIndex' \in [Server -> Nat] /\ applied' \in [Server -> Seq(Entry)]
    BY <1>0, <2>5, <2>7, <2>8 DEF TypeInv, TypeOK
  <2>10. /\ matchIndex' \in [Server -> [Server -> Nat]]
         /\ nextIndex' \in [Server -> [Server -> Nat]]
    BY <1>0, <2>1, <2>2, <2>3 DEF TypeInv, TypeOK
  <2>11. TypeOK'
    BY <1>1, <1>3, <1>8, <2>9, <2>10 DEF Acknowledge, TypeInv, TypeOK, electVars
  <2>12. NextPresent'
    <3>1. PICK m \in Nat \ {0} : nextIndex' = [nextIndex EXCEPT ![i][j] = m]
      BY <2>1, <2>3
    <3>2. UNCHANGED currentRole
      BY <1>8 DEF Acknowledge, electVars
    <3> QED BY <1>0, <1>1, <3>1, <3>2, NextMoved
  <2> QED BY <2>11, <2>12 DEF TypeInv
<1> QED BY <1>4, <1>5, <1>6, <1>7, <1>8 DEF HandleAppendReply

LEMMA TypeStep == TypeInv /\ [Next]_vars => TypeInv'
<1> SUFFICES ASSUME TypeInv, [Next]_vars PROVE TypeInv'
  OBVIOUS
<1>1. ASSUME NEW i \in Server, NodeStep(i) PROVE TypeInv'
  BY <1>1, TypeNode
<1>2. ASSUME NEW f \in InFlight, ThreadStep(f) PROVE TypeInv'
  BY <1>2, TypeElection, TypeCountVote, TypePrepareEntries, TypeAppendEntries,
     TypeAppendReply DEF ThreadStep, HandleVoteReply
<1>3. CASE UNCHANGED vars
  BY <1>3 DEF vars, electVars, logVars, leadVars, TypeInv, TypeOK, NextPresent,
              Leading, Led, At, InFlight
<1> QED BY <1>1, <1>2, <1>3 DEF Next

\* Under every schedule, in every cluster, the state keeps its type: no
\* handler of raft.cpp computes a negative index or reads an absent nextIndex.
THEOREM TypeCorrect == Spec => []TypeOK
<1>1. TypeInv => TypeOK
  BY DEF TypeInv
<1> QED BY <1>1, TypeInit, TypeStep, PTL DEF Spec

------------------------------------------------------------------------------
(* Elections: votes are given once per term, and an odd cluster has at most  *)
(* one leader per term, under every schedule of the detached threads.        *)

\* votes.size() > peers_.size() / 2 is a majority only of an odd cluster.
OddCluster == Cardinality(Server) % 2 = 1

------------------------------------------------------------------------------
(* The inductive invariant.                                                 *)

\* A vote held by a candidate or leader of its current term, or on its way.
Holds(v, i, t) == /\ currentRole[i] \in {"Candidate", "Leader"}
                  /\ v \in votes[i]
                  /\ t = currentTerm[i]
Comes(v, i, t) == \E f \in At("vote_reply") : /\ f.reply.vote_granted
                                              /\ f.to = v /\ f.from = i
                                              /\ f.reply.term = t
Given(v, i, t) == Holds(v, i, t) \/ Comes(v, i, t)

\* A voter remembers the votes of its current term, and has given none of a
\* later one.
Backed == \A v, i \in Server : \A t \in Nat :
            Given(v, i, t) => /\ t <= currentTerm[v]
                              /\ t = currentTerm[v] => votedFor[v] = i
Unique == \A v, i, j \in Server : \A t \in Nat :
            Given(v, i, t) /\ Given(v, j, t) => i = j

\* A thread asks for votes of the election it belongs to or a later one.
TermOrder(f) ==
  /\ f.pc = "vote_call" => f.election_term <= currentTerm[f.from]
  /\ f.pc = "vote_request" => /\ f.election_term <= f.req.term
                              /\ f.req.term <= currentTerm[f.from]
  /\ f.pc = "vote_reply" /\ f.reply.vote_granted =>
       /\ f.election_term <= f.reply.term
       /\ f.reply.term <= currentTerm[f.from]
Ordered == \A f \in InFlight : TermOrder(f)

Won == \A i \in Server : Leading(i) => WinsElection(votes[i])

VoteInv == Backed /\ Unique /\ Ordered /\ Won

------------------------------------------------------------------------------
(* A node's term never falls and its vote never moves inside a term.        *)

Stable == \A i \in Server :
  /\ currentTerm'[i] >= currentTerm[i]
  /\ currentTerm'[i] = currentTerm[i] /\ votedFor[i] # None
       => votedFor'[i] = votedFor[i]

\* A vote is given in the voter's term of that moment: to itself when it begins
\* the term, or to one that asked for it with a log up to date.  A node becomes
\* a candidate only with a new term.
AskedFor(v, i, t) == \E f \in At("vote_request") :
  f.to = v /\ f.from = i /\ f.req.term = t /\ CandidateUpToDate(f.req, log[v])
GivenNow == \A v, i \in Server : \A t \in Nat :
  Given(v, i, t)' => \/ Given(v, i, t)
                     \/ /\ currentTerm'[v] = t
                        /\ (v = i /\ currentTerm[i] < t) \/ AskedFor(v, i, t)
CandidatesNew == \A i \in Server : currentRole'[i] = "Candidate" =>
  \/ currentRole[i] = "Candidate" /\ currentTerm'[i] = currentTerm[i]
  \/ currentTerm'[i] > currentTerm[i]
Moves == GivenNow /\ CandidatesNew

\* A step that makes no leader.
LeadersStay == \A i \in Server : Leading(i)' => /\ Leading(i)
                                               /\ currentTerm'[i] = currentTerm[i]

\* A handler that sets one node's term and vote.
LEMMA StableAt ==
  ASSUME TypeOK, NEW i \in Server, NEW t \in Nat, NEW w,
         currentTerm' = [currentTerm EXCEPT ![i] = t],
         votedFor' = [votedFor EXCEPT ![i] = w],
         t >= currentTerm[i],
         t = currentTerm[i] /\ votedFor[i] # None => w = votedFor[i]
  PROVE  Stable
<1>1. currentTerm \in [Server -> Nat] /\ DOMAIN votedFor = Server
  BY DEF TypeOK
<1>2. ASSUME NEW k \in Server, k # i
      PROVE  currentTerm'[k] = currentTerm[k] /\ votedFor'[k] = votedFor[k]
  BY <1>1, <1>2
<1>3. currentTerm'[i] = t /\ votedFor'[i] = w
  BY <1>1
<1>4. \A k \in Server : currentTerm[k] >= currentTerm[k]
  BY <1>1
<1> QED BY <1>2, <1>3, <1>4 DEF Stable

LEMMA StableStep == TypeInv /\ [Next]_vars => Stable
<1> SUFFICES ASSUME TypeInv, [Next]_vars PROVE Stable
  OBVIOUS
<1>0. TypeOK /\ currentTerm \in [Server -> Nat]
      /\ \A f \in InFlight : f \in Thread
  BY DEF TypeInv, TypeOK
<1>1. CASE UNCHANGED <<currentTerm, votedFor>>
  BY <1>0, <1>1 DEF Stable
<1>2. ASSUME NEW i \in Server, NodeStep(i) PROVE Stable
  BY <1>1, <1>2 DEF NodeStep, Run, ElectionTimeout, HeartbeatTimeout, Propose,
                    electVars
<1>3. ASSUME NEW f \in InFlight, ThreadStep(f) PROVE Stable
  <2>0. f \in Thread /\ f.from \in Server /\ currentTerm[f.from] \in Nat
    BY <1>0, ThreadFields
  <2>1. CASE BecomeCandidate(f)
    <3> DEFINE t == currentTerm[f.from] + 1
    <3>1. currentTerm' = [currentTerm EXCEPT ![f.from] = t]
          /\ votedFor' = [votedFor EXCEPT ![f.from] = f.from]
      BY <2>1 DEF BecomeCandidate
    <3>2. t \in Nat /\ t >= currentTerm[f.from] /\ t # currentTerm[f.from]
      BY <2>0
    <3> HIDE DEF t
    <3> QED BY <1>0, <2>0, <3>1, <3>2, StableAt
  <2>2. CASE ReplyVote(f)
    <3> DEFINE i == f.to
               t == IF active[i] THEN NewerTerm(i, f.req.term) ELSE currentTerm[i]
               w == IF Grants(i, f) THEN f.from ELSE VoteAt(i, t)
    <3>1. i \in Server /\ f.req.term \in Nat /\ currentTerm[i] \in Nat
      BY <1>0, <2>0, <2>2, ThreadFields DEF ReplyVote, VoteRequest
    <3>2. t \in Nat /\ t >= currentTerm[i]
      BY <3>1 DEF NewerTerm
    <3>3. t = currentTerm[i] /\ votedFor[i] # None => w = votedFor[i]
      BY <3>1 DEF NewerTerm, Grants, FreeToVote, VoteAt
    <3>4. currentTerm' = [currentTerm EXCEPT ![i] = t]
          /\ votedFor' = [votedFor EXCEPT ![i] = w]
      BY <2>2 DEF ReplyVote
    <3> HIDE DEF t, w
    <3> QED BY <1>0, <3>1, <3>2, <3>3, <3>4, StableAt
  <2>3. CASE DropVote(f)
    <3> DEFINE i == f.from
               t == IF f.reply.vote_granted THEN currentTerm[i]
                    ELSE NewerTerm(i, f.reply.term)
    <3>1. f.reply.term \in Nat
      BY <2>0, <2>3, ThreadFields DEF DropVote, VoteReply
    <3>2. t \in Nat /\ t >= currentTerm[i]
      BY <2>0, <3>1 DEF NewerTerm
    <3>3. t = currentTerm[i] => VoteAt(i, t) = votedFor[i]
      BY <2>0 DEF VoteAt
    <3>4. currentTerm' = [currentTerm EXCEPT ![i] = t]
          /\ votedFor' = [votedFor EXCEPT ![i] = VoteAt(i, t)]
      BY <2>3 DEF DropVote
    <3> HIDE DEF t
    <3> QED BY <1>0, <2>0, <3>2, <3>3, <3>4, StableAt
  <2>4. CASE AcceptEntries(f)
    <3> DEFINE i == f.to
               t == NewerTerm(i, f.req.term)
    <3>1. i \in Server /\ f.req.term \in Nat /\ currentTerm[i] \in Nat
      BY <1>0, <2>0, <2>4, ThreadFields DEF AcceptEntries, AppendRequest
    <3>2. t \in Nat /\ t >= currentTerm[i]
      BY <3>1 DEF NewerTerm
    <3>3. t = currentTerm[i] => VoteAt(i, t) = votedFor[i]
      BY <3>1 DEF VoteAt
    <3>4. currentTerm' = [currentTerm EXCEPT ![i] = t]
          /\ votedFor' = [votedFor EXCEPT ![i] = VoteAt(i, t)]
      BY <2>4 DEF AcceptEntries
    <3> HIDE DEF t
    <3> QED BY <1>0, <3>1, <3>2, <3>3, <3>4, StableAt
  <2>5. CASE StepDown(f)
    <3>1. f.reply.term \in Nat /\ f.reply.term > currentTerm[f.from]
      BY <2>0, <2>5, ThreadFields DEF StepDown, AppendReply
    <3>2. currentTerm' = [currentTerm EXCEPT ![f.from] = f.reply.term]
          /\ votedFor' = [votedFor EXCEPT ![f.from] = None]
      BY <2>5 DEF StepDown
    <3>3. f.reply.term >= currentTerm[f.from] /\ f.reply.term # currentTerm[f.from]
      BY <2>0, <3>1
    <3> QED BY <1>0, <2>0, <3>1, <3>2, <3>3, StableAt
  <2>6. CASE RequestVotes(f) \/ PrepareVote(f) \/ CountVote(f)
             \/ PrepareEntries(f) \/ RefuseEntries(f) \/ SkipReply(f)
             \/ IgnoreReply(f) \/ BackUp(f) \/ Acknowledge(f) \/ RpcFail(f)
    BY <1>1, <2>6 DEF RequestVotes, PrepareVote, CountVote, PrepareEntries,
       RefuseEntries, SkipReply, IgnoreReply, BackUp, Acknowledge, RpcFail,
       electVars
  <2> QED BY <1>3, <2>1, <2>2, <2>3, <2>4, <2>5, <2>6
    DEF ThreadStep, HandleVoteReply, AppendEntries, HandleAppendReply
<1> QED BY <1>1, <1>2, <1>3 DEF Next, vars, electVars

LEMMA TypeInvariant == Spec => []TypeInv
BY TypeInit, TypeStep, PTL DEF Spec

\* No handler of raft.cpp lowers a term or moves a vote inside a term.
THEOREM TermAndVoteStability == Spec => TermAndVoteStable
<1>1. TypeInv /\ [Next]_vars => [Stable]_vars
  BY StableStep
<1> QED BY <1>1, TypeInvariant, PTL DEF Spec, TermAndVoteStable, Stable

------------------------------------------------------------------------------
(* Steps and votes.                                                         *)

\* A step that gives no vote.
LEMMA NoVoteGiven ==
  ASSUME TypeOK, TypeOK', Stable, Backed, Unique,
         \A v, i \in Server : \A t \in Nat : Given(v, i, t)' => Given(v, i, t)
  PROVE  Backed' /\ Unique'
<1>1. ASSUME NEW v \in Server, NEW i \in Server, NEW t \in Nat, Given(v, i, t)'
      PROVE  t <= currentTerm'[v] /\ (t = currentTerm'[v] => votedFor'[v] = i)
  <2>1. Given(v, i, t)
    BY <1>1
  <2>2. t <= currentTerm[v] /\ (t = currentTerm[v] => votedFor[v] = i)
    BY <2>1 DEF Backed
  <2>3. currentTerm[v] \in Nat /\ currentTerm'[v] \in Nat /\ i # None
    BY ServerAssumption DEF TypeOK
  <2> QED BY <2>2, <2>3 DEF Stable
<1>2. Backed'
  BY <1>1 DEF Backed
<1>3. Unique'
  BY DEF Unique
<1> QED BY <1>2, <1>3

\* A step in which v gives its vote of term t to c, and only that.
LEMMA VoteGiven ==
  ASSUME TypeOK, TypeOK', Stable, Backed, Unique,
         NEW w \in Server, NEW c \in Server, NEW u \in Nat,
         \A v, i \in Server : \A t \in Nat :
           Given(v, i, t)' => Given(v, i, t) \/ (v = w /\ i = c /\ t = u),
         u > currentTerm[w] \/ (u = currentTerm[w] /\ votedFor[w] \in {None, c}),
         currentTerm'[w] = u, votedFor'[w] = c
  PROVE  Backed' /\ Unique'
<1>0. currentTerm[w] \in Nat /\ None \notin Server
  BY ServerAssumption DEF TypeOK
<1>1. ASSUME NEW v \in Server, NEW i \in Server, NEW t \in Nat, Given(v, i, t)'
      PROVE  t <= currentTerm'[v] /\ (t = currentTerm'[v] => votedFor'[v] = i)
  <2>1. CASE v = w /\ i = c /\ t = u
    BY <2>1
  <2>2. CASE Given(v, i, t)
    <3>1. t <= currentTerm[v] /\ (t = currentTerm[v] => votedFor[v] = i)
      BY <2>2 DEF Backed
    <3>2. currentTerm[v] \in Nat /\ currentTerm'[v] \in Nat /\ i # None
      BY ServerAssumption DEF TypeOK
    <3> QED BY <3>1, <3>2 DEF Stable
  <2> QED BY <1>1, <2>1, <2>2
<1>2. ASSUME NEW i \in Server, Given(w, i, u) PROVE i = c
  <2>1. u <= currentTerm[w] /\ (u = currentTerm[w] => votedFor[w] = i)
    BY <1>2 DEF Backed
  <2> QED BY <1>0, <2>1
<1>3. ASSUME NEW v \in Server, NEW i \in Server, NEW j \in Server, NEW t \in Nat,
             Given(v, i, t)', Given(v, j, t)'
      PROVE  i = j
  <2>1. CASE Given(v, i, t) /\ Given(v, j, t)
    BY <2>1 DEF Unique
  <2>2. CASE v = w /\ t = u
    BY <1>2, <1>3, <2>2
  <2> QED BY <1>3, <2>1, <2>2
<1> QED BY <1>1, <1>3 DEF Backed, Unique

\* Terms only grow, so the order of terms is kept for the threads there were.
LEMMA OrderKept ==
  ASSUME TypeOK, TypeOK', Stable, NEW f \in InFlight, TermOrder(f)
  PROVE  TermOrder(f)'
<1>1. f \in Thread /\ f.from \in Server
  BY ThreadFields DEF TypeOK
<1>2. currentTerm[f.from] \in Nat /\ currentTerm'[f.from] \in Nat
      /\ currentTerm'[f.from] >= currentTerm[f.from]
  BY <1>1 DEF TypeOK, Stable
<1>3. /\ f.pc \in {"vote_call", "vote_request", "vote_reply"} => f.election_term \in Nat
      /\ f.pc = "vote_request" => f.req.term \in Nat
      /\ f.pc = "vote_reply" => f.reply.term \in Nat
  BY <1>1, ThreadFields DEF VoteRequest, VoteReply
<1> QED BY <1>2, <1>3 DEF TermOrder

\* The new threads of a step respect the order of terms.
NewOrdered(S) == \A g \in S : TermOrder(g)'

LEMMA OrderKeptAll ==
  ASSUME TypeOK, TypeOK', Stable, Ordered, NEW S, InFlight' \subseteq InFlight \cup S,
         NewOrdered(S)
  PROVE  Ordered'
<1>1. ASSUME NEW g \in InFlight' PROVE TermOrder(g)'
  <2>1. CASE g \in InFlight
    BY <2>1, OrderKept DEF Ordered
  <2>2. CASE g \in S
    BY <2>2 DEF NewOrdered
  <2> QED BY <2>1, <2>2
<1> QED BY <1>1 DEF Ordered

\* Steps after which every candidate and leader is as before, and whose new
\* threads carry no vote.
Unaffected ==
  \A k \in Server : currentRole'[k] \in {"Candidate", "Leader"} =>
    /\ currentRole'[k] = currentRole[k] /\ votes'[k] = votes[k]
    /\ currentTerm'[k] = currentTerm[k]
NoVotes(S) == \A g \in S : g.pc = "vote_reply" => ~g.reply.vote_granted

LEMMA QuietStep ==
  ASSUME TypeOK, TypeOK', Stable, VoteInv,
         NEW S, InFlight' \subseteq InFlight \cup S,
         NewOrdered(S), NoVotes(S), Unaffected
  PROVE  VoteInv' /\ Moves /\ LeadersStay
<1>1. \A v, i \in Server : \A t \in Nat : Given(v, i, t)' => Given(v, i, t)
  <2> SUFFICES ASSUME NEW v \in Server, NEW i \in Server, NEW t \in Nat,
                      Given(v, i, t)'
               PROVE  Given(v, i, t)
    OBVIOUS
  <2>1. CASE Holds(v, i, t)'
    BY <2>1 DEF Holds, Given, Unaffected
  <2>2. CASE Comes(v, i, t)'
    BY <2>2 DEF Comes, Given, At, NoVotes
  <2> QED BY <2>1, <2>2 DEF Given
<1>2. Backed' /\ Unique'
  BY <1>1, NoVoteGiven DEF VoteInv
<1>3. Ordered'
  BY OrderKeptAll DEF VoteInv
<1>4. Won'
  BY DEF VoteInv, Won, Leading, WinsElection, Unaffected
<1>5. Moves /\ LeadersStay
  BY <1>1 DEF Moves, GivenNow, CandidatesNew, LeadersStay, Leading, Unaffected
<1> QED BY <1>2, <1>3, <1>4, <1>5 DEF VoteInv

\* Steps that leave the election alone.
LEMMA QuietUnchanged == UNCHANGED electVars => Unaffected
BY DEF electVars, Unaffected

\* No new thread.
LEMMA NoThreads == NewOrdered({}) /\ NoVotes({})
BY DEF NewOrdered, NoVotes

LEMMA VoteNode ==
  ASSUME TypeInv, TypeOK', Stable, VoteInv, NEW i \in Server, NodeStep(i)
  PROVE  VoteInv' /\ Moves /\ LeadersStay
<1>0. TypeOK /\ IsABag(threads)
  BY DEF TypeInv, TypeOK
<1>1. CASE Run(i)
  <2>1. InFlight' \subseteq InFlight \cup {}
    BY <1>1 DEF Run, InFlight
  <2>2. Unaffected
    BY <1>0, <1>1 DEF Run, TypeOK, Unaffected
  <2> QED BY <1>0, <2>1, <2>2, NoThreads, QuietStep
<1>2. CASE ElectionTimeout(i)
  <2> DEFINE S == {[pc |-> "become_candidate", from |-> i]}
  <2>1. InFlight' \subseteq InFlight \cup S
    BY <1>0, <1>2, ForkInFlight DEF ElectionTimeout
  <2>2. NewOrdered(S) /\ NoVotes(S)
    BY DEF NewOrdered, NoVotes, TermOrder
  <2>3. Unaffected
    BY <1>2, QuietUnchanged DEF ElectionTimeout
  <2> HIDE DEF S
  <2> QED BY <1>0, <2>1, <2>2, <2>3, QuietStep
<1>3. CASE HeartbeatTimeout(i)
  <2> DEFINE S == {[pc |-> "ae_call", from |-> i, to |-> j] : j \in Peers(i)}
  <2>1. InFlight' \subseteq InFlight \cup S
    BY <1>0, <1>3, ForkInFlight DEF HeartbeatTimeout
  <2>2. NewOrdered(S) /\ NoVotes(S)
    BY DEF NewOrdered, NoVotes, TermOrder
  <2>3. Unaffected
    BY <1>3, QuietUnchanged DEF HeartbeatTimeout
  <2> HIDE DEF S
  <2> QED BY <1>0, <2>1, <2>2, <2>3, QuietStep
<1>4. CASE \E c \in Command : Propose(i, c)
  <2>1. InFlight' \subseteq InFlight \cup {} /\ UNCHANGED electVars
    BY <1>4 DEF Propose, InFlight
  <2> QED BY <1>0, <2>1, NoThreads, QuietUnchanged, QuietStep
<1> QED BY <1>1, <1>2, <1>3, <1>4 DEF NodeStep

\* become_candidate: the node's own vote, in a term it has just begun.
LEMMA VoteCandidate ==
  ASSUME TypeInv, TypeOK', Stable, VoteInv, NEW f \in InFlight, BecomeCandidate(f)
  PROVE  VoteInv' /\ Moves /\ LeadersStay
<1> DEFINE i == f.from
           S == {[pc |-> "request_votes", from |-> i]}
           u == currentTerm[i] + 1
<1>1. TypeOK /\ IsABag(threads) /\ i \in Server /\ currentTerm[i] \in Nat
  BY ThreadFields DEF TypeInv, TypeOK
<1>2. InFlight' \subseteq InFlight \cup S
  BY <1>1, ResumeFacts DEF BecomeCandidate
<1>3. NewOrdered(S) /\ NoVotes(S)
  BY DEF NewOrdered, NoVotes, TermOrder
<1> HIDE DEF S
<1>4. /\ currentRole'[i] = "Candidate" /\ currentTerm'[i] = u
      /\ votedFor'[i] = i /\ votes'[i] = {i}
      /\ \A k \in Server : k # i =>
           /\ currentRole'[k] = currentRole[k] /\ votes'[k] = votes[k]
           /\ currentTerm'[k] = currentTerm[k]
  BY <1>1 DEF BecomeCandidate, TypeOK
<1>5. \A v, k \in Server : \A t \in Nat :
        Given(v, k, t)' => Given(v, k, t) \/ (v = i /\ k = i /\ t = u)
  <2> SUFFICES ASSUME NEW v \in Server, NEW k \in Server, NEW t \in Nat,
                      Given(v, k, t)'
               PROVE  Given(v, k, t) \/ (v = i /\ k = i /\ t = u)
    OBVIOUS
  <2>1. CASE Holds(v, k, t)'
    BY <1>4, <2>1 DEF Holds, Given
  <2>2. CASE Comes(v, k, t)'
    BY <1>2, <1>3, <2>2 DEF Comes, Given, At, NoVotes
  <2> QED BY <2>1, <2>2 DEF Given
<1>6. u \in Nat /\ u > currentTerm[i]
  BY <1>1
<1> HIDE DEF u
<1>7. Backed' /\ Unique'
  BY <1>1, <1>4, <1>5, <1>6, VoteGiven DEF VoteInv
<1>8. Ordered'
  BY <1>1, <1>2, <1>3, OrderKeptAll DEF VoteInv
<1>9. Won'
  BY <1>4 DEF VoteInv, Won, Leading, WinsElection
<1>10. GivenNow
  <2>1. currentTerm[i] < u
    BY <1>1, <1>6
  <2> QED BY <1>4, <1>5, <2>1 DEF GivenNow
<1>11. CandidatesNew /\ LeadersStay
  BY <1>4, <1>6 DEF CandidatesNew, LeadersStay, Leading
<1> QED BY <1>7, <1>8, <1>9, <1>10, <1>11 DEF VoteInv, Moves

\* reply_vote: a vote given in the request's term, or none.
LEMMA VoteReplied ==
  ASSUME TypeInv, TypeOK', Stable, VoteInv, NEW f \in InFlight, ReplyVote(f)
  PROVE  VoteInv' /\ Moves /\ LeadersStay
<1> DEFINE i == f.to
           granted == Grants(i, f)
           term == IF active[i] THEN NewerTerm(i, f.req.term) ELSE currentTerm[i]
           r == [term |-> IF active[i] THEN term ELSE 0, vote_granted |-> granted]
           g0 == [pc |-> "vote_reply", from |-> f.from, to |-> i,
                  election_term |-> f.election_term, reply |-> r]
<1>1. /\ TypeOK /\ IsABag(threads) /\ i \in Server /\ f.from \in Server
      /\ f.req.term \in Nat /\ currentTerm[i] \in Nat
      /\ f.election_term \in Nat /\ f.pc = "vote_request"
  BY ThreadFields DEF TypeInv, TypeOK, ReplyVote, VoteRequest
<1>2. PICK g : g = g0
  OBVIOUS
<1>3. InFlight' \subseteq InFlight \cup {g}
  BY <1>1, <1>2, ResumeFacts DEF ReplyVote
<1>4. /\ currentTerm'[i] = term
      /\ granted => votedFor'[i] = f.from /\ currentRole'[i] = "Follower"
      /\ term > currentTerm[i] => currentRole'[i] = "Follower"
      /\ ~granted /\ ~(term > currentTerm[i]) => currentRole'[i] = currentRole[i]
      /\ UNCHANGED votes
      /\ \A k \in Server : k # i => /\ currentRole'[k] = currentRole[k]
                                    /\ currentTerm'[k] = currentTerm[k]
  BY <1>1 DEF ReplyVote, TypeOK
<1>5. term \in Nat /\ term >= currentTerm[i]
  BY <1>1 DEF NewerTerm
<1>6. granted => r.term = f.req.term /\ term = f.req.term
  BY <1>1 DEF Grants, NewerTerm
<1>7. /\ g.pc = "vote_reply" /\ g.from = f.from /\ g.to = i
      /\ g.election_term = f.election_term
      /\ g.reply.vote_granted = granted
      /\ granted => g.reply.term = f.req.term
  BY <1>2, <1>6
<1> HIDE DEF granted, term, r, g0
<1>8. NewOrdered({g})
  <2>1. f.election_term <= f.req.term /\ f.req.term <= currentTerm[f.from]
    BY <1>1 DEF VoteInv, Ordered, TermOrder
  <2>2. currentTerm'[f.from] >= currentTerm[f.from]
        /\ currentTerm[f.from] \in Nat /\ currentTerm'[f.from] \in Nat
    BY <1>1 DEF Stable, TypeOK
  <2>3. TermOrder(g)'
    BY <1>1, <1>7, <2>1, <2>2 DEF TermOrder
  <2> QED BY <2>3 DEF NewOrdered
<1>9. Unaffected
  BY <1>1, <1>4, <1>5 DEF Unaffected
<1>10. CASE ~granted
  <2>1. NoVotes({g})
    BY <1>7, <1>10 DEF NoVotes
  <2> QED BY <1>1, <1>3, <1>8, <1>9, <2>1, QuietStep
<1>11. CASE granted
  <2>1. \A v, k \in Server : \A t \in Nat : Given(v, k, t)' =>
          Given(v, k, t) \/ (v = i /\ k = f.from /\ t = term)
    <3> SUFFICES ASSUME NEW v \in Server, NEW k \in Server, NEW t \in Nat,
                        Given(v, k, t)'
                 PROVE  Given(v, k, t) \/ (v = i /\ k = f.from /\ t = term)
      OBVIOUS
    <3>1. CASE Holds(v, k, t)'
      BY <1>9, <3>1 DEF Holds, Given, Unaffected
    <3>2. CASE Comes(v, k, t)'
      <4>1. PICK h \in InFlight' : /\ h.pc = "vote_reply" /\ h.reply.vote_granted
                                   /\ h.to = v /\ h.from = k /\ h.reply.term = t
        BY <3>2 DEF Comes, At
      <4>2. CASE h \in InFlight
        BY <4>1, <4>2 DEF Comes, Given, At
      <4>3. CASE h = g
        BY <1>6, <1>7, <1>11, <4>1, <4>3
      <4> QED BY <1>3, <4>2, <4>3
    <3> QED BY <3>1, <3>2 DEF Given
  <2>2. term > currentTerm[i]
        \/ (term = currentTerm[i] /\ votedFor[i] \in {None, f.from})
    BY <1>1, <1>5, <1>6, <1>11 DEF granted, Grants, FreeToVote
  <2>3. Backed' /\ Unique'
    BY <1>1, <1>4, <1>5, <1>11, <2>1, <2>2, VoteGiven DEF VoteInv
  <2>4. Ordered'
    BY <1>1, <1>3, <1>8, OrderKeptAll DEF VoteInv
  <2>5. Won'
    BY <1>9 DEF VoteInv, Won, Leading, WinsElection, Unaffected
  <2>6. GivenNow
    <3>1. AskedFor(i, f.from, term)
      BY <1>1, <1>6, <1>11 DEF AskedFor, At, granted, Grants
    <3> QED BY <1>4, <2>1, <3>1 DEF GivenNow
  <2>7. CandidatesNew /\ LeadersStay
    BY <1>9 DEF CandidatesNew, LeadersStay, Leading, Unaffected
  <2> QED BY <2>3, <2>4, <2>5, <2>6, <2>7 DEF VoteInv, Moves
<1> QED BY <1>10, <1>11

\* A vote that arrives for the election still going on: it was on its way for
\* just this term, so nothing new is given.
LEMMA VoteCounted ==
  ASSUME TypeInv, TypeOK', Stable, VoteInv, NEW f \in InFlight, CountVote(f)
  PROVE  VoteInv' /\ Moves
<1> DEFINE i == f.from
           V == votes[i] \cup {f.to}
<1>1. /\ TypeOK /\ IsABag(threads) /\ f \in Thread /\ i \in Server
      /\ f.to \in Server /\ f.pc = "vote_reply" /\ f.reply.vote_granted
      /\ f.reply.term \in Nat /\ f.election_term \in Nat /\ currentTerm[i] \in Nat
      /\ currentTerm[i] = f.election_term /\ currentRole[i] = "Candidate"
  BY ThreadFields DEF TypeInv, TypeOK, CountVote, VoteCounts, VoteReply
<1>2. InFlight' \subseteq InFlight \cup {}
  BY <1>1, ResumeFacts DEF CountVote
<1>3. f.reply.term = currentTerm[i]
  BY <1>1 DEF VoteInv, Ordered, TermOrder
<1>4. Comes(f.to, i, currentTerm[i])
  BY <1>1, <1>3 DEF Comes, At
<1>5. /\ UNCHANGED <<currentTerm, votedFor>>
      /\ votes'[i] = V
      /\ \A k \in Server : k # i => /\ votes'[k] = votes[k]
                                    /\ currentRole'[k] = currentRole[k]
      /\ Leading(i)' => WinsElection(V)
  <2>1. UNCHANGED <<currentTerm, votedFor>>
        /\ votes'[i] = V /\ \A k \in Server : k # i => votes'[k] = votes[k]
    BY <1>1 DEF CountVote, TypeOK
  <2>2. CASE WinsElection(V)
    <3>1. currentRole' = [currentRole EXCEPT ![i] = "Leader"]
      BY <2>2 DEF CountVote, BecomeLeader
    <3>2. \A k \in Server : k # i => currentRole'[k] = currentRole[k]
      BY <1>1, <3>1 DEF TypeOK
    <3> QED BY <2>1, <2>2, <3>2
  <2>3. CASE ~WinsElection(V)
    BY <1>1, <2>1, <2>3 DEF CountVote, BecomeLeader, Leading
  <2> QED BY <2>2, <2>3
<1>6. \A v, k \in Server : \A t \in Nat : Given(v, k, t)' => Given(v, k, t)
  <2> SUFFICES ASSUME NEW v \in Server, NEW k \in Server, NEW t \in Nat,
                      Given(v, k, t)'
               PROVE  Given(v, k, t)
    OBVIOUS
  <2>1. CASE Comes(v, k, t)'
    BY <1>2, <2>1 DEF Comes, Given, At
  <2>2. CASE Holds(v, k, t)' /\ k # i
    BY <1>5, <2>2 DEF Holds, Given
  <2>3. CASE Holds(v, k, t)' /\ k = i
    <3>1. v \in V /\ t = currentTerm[i]
      BY <1>5, <2>3 DEF Holds
    <3>2. CASE v = f.to
      BY <1>4, <2>3, <3>1, <3>2 DEF Given
    <3>3. CASE v \in votes[i]
      BY <1>1, <2>3, <3>1, <3>3 DEF Given, Holds
    <3> QED BY <3>1, <3>2, <3>3
  <2> QED BY <2>1, <2>2, <2>3 DEF Given
<1>7. Backed' /\ Unique'
  BY <1>1, <1>6, NoVoteGiven DEF VoteInv
<1>8. Ordered'
  BY <1>1, <1>2, NoThreads, OrderKeptAll DEF VoteInv
<1>9. Won'
  <2> HIDE DEF V
  <2>1. \A k \in Server : k # i /\ Leading(k)' => WinsElection(votes[k])
    BY <1>5 DEF VoteInv, Won, Leading
  <2> QED BY <1>5, <2>1 DEF Won, WinsElection
<1>10. GivenNow
  BY <1>6 DEF GivenNow
<1>11. CandidatesNew
  BY <1>1, <1>5 DEF CandidatesNew
<1> QED BY <1>7, <1>8, <1>9, <1>10, <1>11 DEF VoteInv, Moves

\* The calls for votes, and everything that is no part of an election.
LEMMA VoteOther ==
  ASSUME TypeInv, TypeOK', Stable, VoteInv, NEW f \in InFlight,
         RequestVotes(f) \/ PrepareVote(f) \/ DropVote(f) \/ PrepareEntries(f)
           \/ AppendEntries(f) \/ HandleAppendReply(f) \/ RpcFail(f)
  PROVE  VoteInv' /\ Moves /\ LeadersStay
<1>0. TypeOK /\ IsABag(threads) /\ f \in Thread /\ f.from \in Server
      /\ currentTerm[f.from] \in Nat
  BY ThreadFields DEF TypeInv, TypeOK
<1>1. CASE RequestVotes(f)
  <2> DEFINE S0 == {[pc |-> "vote_call", from |-> f.from, to |-> j,
                     election_term |-> currentTerm[f.from]] : j \in Peers(f.from)}
  <2>1. PICK S : S = S0
    OBVIOUS
  <2>2. InFlight' \subseteq InFlight \cup S
    BY <1>0, <1>1, <2>1, ResumeFacts DEF RequestVotes
  <2>3. UNCHANGED electVars
    BY <1>1 DEF RequestVotes
  <2>4. \A g \in S : g.pc = "vote_call" /\ g.from = f.from
                     /\ g.election_term = currentTerm[f.from]
    BY <2>1
  <2> HIDE DEF S0
  <2>5. NewOrdered(S) /\ NoVotes(S)
    BY <1>0, <2>3, <2>4 DEF NewOrdered, NoVotes, TermOrder, electVars
  <2> QED BY <1>0, <2>2, <2>3, <2>5, QuietUnchanged, QuietStep
<1>2. CASE PrepareVote(f)
  <2> DEFINE g0 == [pc |-> "vote_request", from |-> f.from, to |-> f.to,
                    election_term |-> f.election_term,
                    req |-> [term |-> currentTerm[f.from],
                             last_log_term |-> LastLogTerm(log[f.from]),
                             last_log_index |-> LastLogIndex(log[f.from])]]
  <2>1. PICK g : g = g0
    OBVIOUS
  <2>2. InFlight' \subseteq InFlight \cup {g}
    BY <1>0, <1>2, <2>1, ResumeFacts DEF PrepareVote
  <2>3. UNCHANGED electVars /\ f.pc = "vote_call"
    BY <1>2 DEF PrepareVote
  <2>4. g.pc = "vote_request" /\ g.from = f.from
        /\ g.election_term = f.election_term /\ g.req.term = currentTerm[f.from]
    BY <2>1
  <2> HIDE DEF g0
  <2>5. f.election_term <= currentTerm[f.from]
    BY <2>3 DEF VoteInv, Ordered, TermOrder
  <2>6. NewOrdered({g}) /\ NoVotes({g})
    BY <1>0, <2>3, <2>4, <2>5 DEF NewOrdered, NoVotes, TermOrder, electVars
  <2> QED BY <1>0, <2>2, <2>3, <2>6, QuietUnchanged, QuietStep
<1>3. CASE PrepareEntries(f) \/ AppendEntries(f)
  <2>1. PICK g : Resume(f, {g}) /\ g.pc \in {"ae_request", "ae_reply"}
    <3>1. CASE PrepareEntries(f)
      <4>1. PICK s, r : Resume(f, {[pc |-> "ae_request", from |-> f.from,
                                    to |-> f.to, sent |-> s, req |-> r]})
        BY <3>1, Zenon DEF PrepareEntries
      <4>2. [pc |-> "ae_request", from |-> f.from, to |-> f.to,
             sent |-> s, req |-> r].pc = "ae_request"
        OBVIOUS
      <4> QED BY <4>1, <4>2, Zenon
    <3>2. CASE AppendEntries(f)
      <4>1. PICK s, r : Resume(f, {[pc |-> "ae_reply", from |-> f.from,
                                    to |-> f.to, sent |-> s, reply |-> r]})
        BY <3>2, Zenon DEF AppendEntries, RefuseEntries, AcceptEntries
      <4>2. [pc |-> "ae_reply", from |-> f.from, to |-> f.to,
             sent |-> s, reply |-> r].pc = "ae_reply"
        OBVIOUS
      <4> QED BY <4>1, <4>2, Zenon
    <3> QED BY <1>3, <3>1, <3>2
  <2>2. InFlight' \subseteq InFlight \cup {g}
    BY <1>0, <2>1, ResumeFacts
  <2>3. NewOrdered({g}) /\ NoVotes({g})
    BY <2>1 DEF NewOrdered, NoVotes, TermOrder
  <2>4. Unaffected
    <3>1. CASE PrepareEntries(f) \/ RefuseEntries(f)
      BY <3>1, QuietUnchanged DEF PrepareEntries, RefuseEntries
    <3>2. CASE AcceptEntries(f)
      <4>1. f.to \in Server
        BY <1>0, <3>2, ThreadFields DEF AcceptEntries
      <4>2. /\ currentRole' = [currentRole EXCEPT ![f.to] = "Follower"]
            /\ currentTerm' = [currentTerm EXCEPT ![f.to] = NewerTerm(f.to, f.req.term)]
            /\ UNCHANGED votes
        BY <3>2 DEF AcceptEntries
      <4> QED BY <1>0, <4>1, <4>2 DEF TypeOK, Unaffected
    <3> QED BY <1>3, <3>1, <3>2 DEF AppendEntries
  <2> QED BY <1>0, <2>2, <2>3, <2>4, QuietStep
<1>4. CASE DropVote(f) \/ HandleAppendReply(f) \/ RpcFail(f)
  <2>1. Resume(f, {})
    BY <1>4 DEF DropVote, HandleAppendReply, SkipReply, StepDown, IgnoreReply,
                BackUp, Acknowledge, RpcFail
  <2>2. InFlight' \subseteq InFlight \cup {}
    BY <1>0, <2>1, ResumeFacts
  <2>3. Unaffected
    <3>1. CASE DropVote(f)
      <4> DEFINE t == IF f.reply.vote_granted THEN currentTerm[f.from]
                      ELSE NewerTerm(f.from, f.reply.term)
      <4>1. f.reply.term \in Nat
        BY <1>0, <3>1, ThreadFields DEF DropVote, VoteReply
      <4>2. t \in Nat /\ t >= currentTerm[f.from]
        BY <1>0, <4>1 DEF NewerTerm
      <4>3. /\ currentTerm' = [currentTerm EXCEPT ![f.from] = t]
            /\ currentRole' = [currentRole EXCEPT ![f.from] =
                 IF t > currentTerm[f.from] THEN "Follower" ELSE @]
            /\ UNCHANGED votes
        BY <3>1 DEF DropVote
      <4> HIDE DEF t
      <4>4. /\ currentTerm'[f.from] = t
            /\ currentRole'[f.from] = IF t > currentTerm[f.from] THEN "Follower"
                                      ELSE currentRole[f.from]
            /\ \A k \in Server : k # f.from => /\ currentTerm'[k] = currentTerm[k]
                                               /\ currentRole'[k] = currentRole[k]
        BY <1>0, <4>3 DEF TypeOK
      <4>5. t > currentTerm[f.from] \/ t = currentTerm[f.from]
        BY <1>0, <4>2
      <4> QED BY <4>3, <4>4, <4>5 DEF Unaffected
    <3>2. CASE StepDown(f)
      BY <1>0, <3>2 DEF StepDown, TypeOK, Unaffected
    <3>3. CASE SkipReply(f) \/ IgnoreReply(f) \/ BackUp(f) \/ Acknowledge(f)
               \/ RpcFail(f)
      BY <3>3, QuietUnchanged DEF SkipReply, IgnoreReply, BackUp, Acknowledge,
                                  RpcFail
    <3> QED BY <1>4, <3>1, <3>2, <3>3 DEF HandleAppendReply
  <2> QED BY <1>0, <2>2, <2>3, NoThreads, QuietStep
<1> QED BY <1>1, <1>2, <1>3, <1>4

LEMMA VoteInit == Init => VoteInv
<1> SUFFICES ASSUME Init PROVE VoteInv
  OBVIOUS
<1>1. InFlight = {} /\ At("vote_reply") = {}
  BY DEF Init, EmptyBag, SetToBag, InFlight, BagToSet, At
<1>2. \A i \in Server : currentRole[i] = "Unset"
  BY DEF Init
<1> QED BY <1>1, <1>2 DEF VoteInv, Backed, Unique, Ordered, Won, Given, Holds,
                          Comes, Leading

LEMMA VoteStep == TypeInv /\ VoteInv /\ [Next]_vars => VoteInv' /\ Moves
<1> SUFFICES ASSUME TypeInv, VoteInv, [Next]_vars PROVE VoteInv' /\ Moves
  OBVIOUS
<1>1. TypeOK' /\ Stable
  BY TypeStep, StableStep DEF TypeInv
<1>2. ASSUME NEW i \in Server, NodeStep(i) PROVE VoteInv' /\ Moves
  BY <1>1, <1>2, VoteNode
<1>3. ASSUME NEW f \in InFlight, ThreadStep(f) PROVE VoteInv' /\ Moves
  BY <1>1, <1>3, VoteCandidate, VoteReplied, VoteCounted, VoteOther
  DEF ThreadStep, HandleVoteReply
<1>4. CASE UNCHANGED vars
  <2>1. InFlight' \subseteq InFlight \cup {} /\ UNCHANGED electVars
    BY <1>4 DEF vars, InFlight
  <2>2. TypeOK
    BY DEF TypeInv
  <2> QED BY <1>1, <2>1, <2>2, NoThreads, QuietUnchanged, QuietStep
<1> QED BY <1>2, <1>3, <1>4 DEF Next

LEMMA VoteInvariant == Spec => [](TypeInv /\ VoteInv)
<1>1. Init => TypeInv /\ VoteInv
  BY TypeInit, VoteInit
<1>2. TypeInv /\ VoteInv /\ [Next]_vars => (TypeInv /\ VoteInv)'
  BY TypeStep, VoteStep
<1> QED BY <1>1, <1>2, PTL DEF Spec

------------------------------------------------------------------------------
\* Whatever the order of replies and however late the threads run, no vote of
\* one term is held by, or on its way to, two candidates.
THEOREM VotesUnique == Spec => []OneVotePerTerm
<1>1. TypeInv /\ VoteInv => OneVotePerTerm
  <2> SUFFICES ASSUME TypeInv, VoteInv,
                      NEW x \in Counted \cup Promised,
                      NEW y \in Counted \cup Promised,
                      x[1] = y[1], x[3] = y[3]
               PROVE  x[2] = y[2]
    BY DEF OneVotePerTerm
  <2>1. ASSUME NEW z \in Counted \cup Promised
        PROVE  /\ z[1] \in Server /\ z[2] \in Server /\ z[3] \in Nat
               /\ Given(z[1], z[2], z[3])
    <3>1. CASE z \in Counted
      <4>1. PICK p \in Server \X Server :
              /\ currentRole[p[2]] \in {"Candidate", "Leader"}
              /\ p[1] \in votes[p[2]]
              /\ z = <<p[1], p[2], currentTerm[p[2]]>>
        BY <3>1 DEF Counted
      <4>2. p[1] \in Server /\ p[2] \in Server
        BY <4>1
      <4>3. currentTerm[p[2]] \in Nat
        BY <4>2 DEF TypeInv, TypeOK
      <4>4. Holds(p[1], p[2], currentTerm[p[2]])
        BY <4>1 DEF Holds
      <4> QED BY <4>1, <4>2, <4>3, <4>4 DEF Given
    <3>2. CASE z \in Promised
      <4>1. PICK f \in At("vote_reply") : /\ f.reply.vote_granted
                                          /\ z = <<f.to, f.from, f.reply.term>>
        BY <3>2 DEF Promised
      <4>2. f \in Thread /\ f.pc = "vote_reply"
        BY <4>1 DEF At, TypeInv, TypeOK
      <4>3. f.to \in Server /\ f.from \in Server /\ f.reply.term \in Nat
        BY <4>2, ThreadFields DEF VoteReply
      <4>4. Comes(f.to, f.from, f.reply.term)
        BY <4>1 DEF Comes
      <4> QED BY <4>1, <4>3, <4>4 DEF Given
    <3> QED BY <3>1, <3>2
  <2> QED BY <2>1 DEF VoteInv, Unique
<1> QED BY <1>1, VoteInvariant, PTL

\* Two winning sets of an odd cluster share a voter.
LEMMA WinnersMeet ==
  ASSUME OddCluster, NEW V \in SUBSET Server, NEW W \in SUBSET Server,
         WinsElection(V), WinsElection(W)
  PROVE  V \cap W # {}
<1>1. Cardinality(Server) \in Nat /\ IsFiniteSet(V) /\ IsFiniteSet(W)
      /\ Cardinality(V) \in Nat /\ Cardinality(W) \in Nat
  BY ServerAssumption, FS_CardinalityType, FS_Subset
<1>2. Cardinality(V) + Cardinality(W) > Cardinality(Server)
  BY <1>1 DEF OddCluster, WinsElection
<1> QED BY <1>2, ServerAssumption, FS_MajoritiesIntersect

\* In every cluster of an odd number of nodes, under every schedule of the
\* detached threads, a term has at most one leader.
THEOREM ElectionIsSafe == OddCluster => (Spec => []ElectionSafety)
<1> SUFFICES ASSUME OddCluster PROVE Spec => []ElectionSafety
  OBVIOUS
<1>1. TypeInv /\ VoteInv => ElectionSafety
  <2> SUFFICES ASSUME TypeInv, VoteInv, NEW i \in Server, NEW j \in Server,
                      Leading(i), Leading(j), currentTerm[i] = currentTerm[j]
               PROVE  i = j
    BY DEF ElectionSafety
  <2>1. votes[i] \in SUBSET Server /\ votes[j] \in SUBSET Server
        /\ currentTerm[i] \in Nat
    BY DEF TypeInv, TypeOK
  <2>2. PICK v \in Server : v \in votes[i] /\ v \in votes[j]
    BY <2>1, WinnersMeet DEF VoteInv, Won
  <2>3. Given(v, i, currentTerm[i]) /\ Given(v, j, currentTerm[i])
    BY <2>2 DEF Given, Holds, Leading
  <2> QED BY <2>1, <2>3 DEF VoteInv, Unique
<1> QED BY <1>1, VoteInvariant, PTL
==============================================================================
