---------------------------- MODULE MCRaftDisputed ----------------------------
(***************************************************************************)
(* Raft from a state it reaches when two leaderships in a row end before     *)
(* anything was replicated: the node First led term 1 and the node Second    *)
(* term 2, each proposed one entry, and every AppendEntries of theirs was    *)
(* lost; all nodes have learnt of term 2.  From here on the logs conflict.   *)
(***************************************************************************)
EXTENDS RaftSafety

CONSTANTS First, Second      \* the two leaders of the past

\* First was elected with the votes of the cluster, Second with the votes of
\* the nodes without an entry: nextIndex and votes are what the elections and
\* the Propose after them left.
Disputed ==
  /\ currentTerm = [i \in Server |-> 2]
  /\ votedFor = [i \in Server |-> IF i = First THEN None ELSE Second]
  /\ log = [i \in Server |->
       CASE i = First -> << [term |-> 1, command |-> CHOOSE c \in Command : TRUE] >>
         [] i = Second -> << [term |-> 2, command |-> CHOOSE c \in Command : TRUE] >>
         [] OTHER -> <<>>]
  /\ commitIndex = [i \in Server |-> 0]
  /\ applied = [i \in Server |-> <<>>]
  /\ nextIndex = [i \in Server |-> [j \in Server |->
       IF i \in {First, Second} /\ i # j THEN 1 ELSE 0]]
  /\ matchIndex = [i \in Server |-> [j \in Server |-> 0]]
  /\ replyCounter = [i \in Server |-> [j \in Server |-> 0]]
  /\ currentRole = [i \in Server |-> IF i = Second THEN "Leader" ELSE "Follower"]
  /\ votes = [i \in Server |->
       CASE i = First -> {First, Second}
         [] i = Second -> Server \ {First}
         [] OTHER -> {}]
  /\ active = [i \in Server |-> TRUE]
  /\ threads = EmptyBag

DisputedSpec == Disputed /\ [][PromptNext]_vars
==============================================================================
