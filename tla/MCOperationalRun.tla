--------------------------- MODULE MCOperationalRun ---------------------------
(* Instances of OperationalRun for TLC. *)
EXTENDS OperationalRun, TLC

MCSymmetry == Permutations(Incidents) \cup Permutations(Actions)
=============================================================================
