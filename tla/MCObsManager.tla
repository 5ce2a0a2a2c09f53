---------------------------- MODULE MCObsManager ----------------------------
(* Instances of ObsManager for TLC. *)
EXTENDS ObsManager, TLC

Symmetry == Permutations(Callers) \cup Permutations(IDs) \cup Permutations(Configs)
              \cup Permutations(Listeners)
=============================================================================
