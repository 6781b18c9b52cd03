----------------------------- MODULE ReplicatedLog -----------------------------
(***************************************************************************)
(* What a cluster of src/src/raft.cpp promises to the state machines that    *)
(* read its ready queues: one sequence of entries, which only grows, and of  *)
(* which each node has been handed a prefix, entry by entry in order and     *)
(* none twice.                                                               *)
(***************************************************************************)
EXTENDS Integers, Sequences

CONSTANT Server
VARIABLES chosen,     \* the one sequence
          applied     \* the part of it each node has handed on

IsPrefix(s, t) == Len(s) <= Len(t) /\ \A n \in 1..Len(s) : s[n] = t[n]

Init == chosen = <<>> /\ applied = [i \in Server |-> <<>>]

\* A node is handed more of the sequence; the first node to be handed an
\* entry is the one that adds it.
Apply(i) ==
  /\ IsPrefix(chosen, chosen')
  /\ IsPrefix(applied[i], applied'[i])
  /\ IsPrefix(applied'[i], chosen')
  /\ Len(chosen') > Len(chosen) => chosen' = applied'[i]
  /\ \A j \in Server \ {i} : applied'[j] = applied[j]

Next == \E i \in Server : Apply(i)
Spec == Init /\ [][Next]_<<chosen, applied>>
==============================================================================
