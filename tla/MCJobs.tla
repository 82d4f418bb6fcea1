------------------------------- MODULE MCJobs -------------------------------
(* Three runs of the program, two at a time, one job, one fault.             *)
EXTENDS Jobs, TLC

Jobs == Permutations(Job)
=============================================================================
