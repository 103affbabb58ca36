------------------------------- MODULE MCAuth -------------------------------
(* Small instances of AuthProps for TLC.                                   *)
EXTENDS AuthProps, TLC

ThreadSymmetry == Permutations(Thread)
TokenSymmetry == Permutations(Token)
Symmetry == ThreadSymmetry \cup TokenSymmetry
=============================================================================
