---------------------------- MODULE MCWorkflow ----------------------------
(* A few tasks and agents, two of them at a time.                            *)
EXTENDS Workflow, TLC
=============================================================================
