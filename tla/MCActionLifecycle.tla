------------------------- MODULE MCActionLifecycle -------------------------
(* Small instances of ActionLifecycle for TLC.                             *)
EXTENDS ActionInvariant, TLC

Symmetry == Permutations(Workers)
=============================================================================
