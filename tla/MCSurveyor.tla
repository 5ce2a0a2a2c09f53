----------------------------- MODULE MCSurveyor -----------------------------
(* An instance of Surveyor for TLC. *)
EXTENDS Surveyor, TLC

CONSTANTS a1, a2, g1, g2

CallersOf == {a1, a2, g1, g2}

Symmetry == Permutations(Walkers) \cup Permutations(Goroutines) \cup Permutations(Configs)
              \cup Permutations(Listeners)
=============================================================================
