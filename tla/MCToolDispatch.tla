--------------------------- MODULE MCToolDispatch ---------------------------
(* One call of each kind, three of them in one batch for two permits.        *)
EXTENDS ToolDispatch, TLC

Rules == [c \in 1..Count |-> IF c = 3 THEN "ask" ELSE IF c = 4 THEN "allow" ELSE "none"]
=============================================================================
