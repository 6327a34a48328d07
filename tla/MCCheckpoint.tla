---------------------------- MODULE MCCheckpoint ----------------------------
(* Instances of Checkpoint for TLC: symmetry of the data that is only      *)
(* compared for equality.                                                  *)
EXTENDS ReadModel, TLC

Symmetry == Permutations(Facts) \cup Permutations(Values)
               \cup Permutations(Contents) \cup Permutations(Agents)
=============================================================================
