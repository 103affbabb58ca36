--------------------------- MODULE MCCustomerStore ---------------------------
(* A small instance of CustomerStore for TLC.                              *)
EXTENDS CustomerStore, TLC

Symmetry == Permutations(Thread) \cup Permutations(Word)
SomeWords == (SUBSET Word) \ {{}}
=============================================================================
