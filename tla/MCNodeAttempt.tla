--------------------------- MODULE MCNodeAttempt ---------------------------
(* Small instances of NodeAttempt for TLC.                                 *)
EXTENDS NodeAttempt, TLC

Symmetry == Permutations(Workers)

=============================================================================
