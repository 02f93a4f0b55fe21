------------------------------- MODULE MCTsh -------------------------------
(* The shell with a table of two slots and three process IDs, so that the     *)
(* table can be full and process IDs come back.                               *)
EXTENDS Tsh, TLC

Symmetry == Permutations(Pids)

=============================================================================
