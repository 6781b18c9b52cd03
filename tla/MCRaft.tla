-------------------------------- MODULE MCRaft --------------------------------
(* Raft on small clusters. *)
EXTENDS RaftSafety

\* Nothing tells servers, or commands, apart but the sets they belong to.
Symmetry == Permutations(Server) \cup Permutations(Command)
==============================================================================
