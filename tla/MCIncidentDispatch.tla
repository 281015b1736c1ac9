------------------------ MODULE MCIncidentDispatch ------------------------
(* Small instances of IncidentDispatch. *)
EXTENDS IncidentDispatch, TLC

Symmetry == Permutations(Procs) \cup Permutations(Keys) \cup Permutations(Incidents)
=============================================================================
