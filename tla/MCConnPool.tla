----------------------------- MODULE MCConnPool -----------------------------
(* Instances of ConnPool for TLC. *)
EXTENDS ConnPool, TLC

Symmetry == Permutations(Users) \cup Permutations(Keys) \cup Permutations(Conns)
OnlyForced == {TRUE}
NotForced == {FALSE}
=============================================================================
