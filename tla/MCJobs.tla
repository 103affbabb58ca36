-------------------------------- MODULE MCJobs --------------------------------
(* A small instance of Jobs for TLC.                                       *)
EXTENDS Jobs, TLC

Symmetry == Permutations(Thread)
=============================================================================
