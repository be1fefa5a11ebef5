------------------------- MODULE MCHealthAggregates -------------------------
(* Instances of HealthAggregates and HealthHistory for TLC. *)
EXTENDS HealthHistory, TLC

RunSymmetry == Permutations(Runs)
=============================================================================
