-------------------------------- MODULE MCHarness --------------------------------
(***************************************************************************)
(* Harness on three nodes.  Once a node was told of a cut too early, which    *)
(* both invariants except for good, the test is followed to the end of its   *)
(* first command only, and only if that names one node.                      *)
(***************************************************************************)
EXTENDS Harness

Followed == early => commands = 1 /\ Cardinality(ids) <= 1
==============================================================================
