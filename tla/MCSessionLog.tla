---------------------------- MODULE MCSessionLog ----------------------------
(* SessionLog on two processes, two line widths and a few ids.               *)
EXTENDS SessionLog, TLC

Symmetry == Permutations(Proc)
=============================================================================
