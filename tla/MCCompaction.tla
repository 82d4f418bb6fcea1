---------------------------- MODULE MCCompaction ----------------------------
(* Short logs of every form.                                                 *)
EXTENDS Compaction, TLC

Shapes == {[text |-> TRUE, calls |-> 0], [text |-> FALSE, calls |-> 1], [text |-> TRUE, calls |-> 2]}
=============================================================================
