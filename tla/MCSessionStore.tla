--------------------------- MODULE MCSessionStore ---------------------------
(* One log, one store that reads it, and forks of forks.                     *)
EXTENDS SessionStore, TLC

Symmetry == Permutations(Child)
=============================================================================
