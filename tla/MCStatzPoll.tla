---------------------------- MODULE MCStatzPoll -----------------------------
(* Instances of StatzPoll for TLC. *)
EXTENDS StatzPoll

\* As many as there are, fewer, and any number.
Expectations == {2, 1, -1}
=============================================================================
