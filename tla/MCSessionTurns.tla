--------------------------- MODULE MCSessionTurns ---------------------------
(* Model values for SessionTurns. *)
EXTENDS SessionTurns, TLC

Interchangeable == Permutations(Input)
=============================================================================
