------------------------------ MODULE MCWebClient ------------------------------
(* Small instances of WebClient for TLC; the tasks are strings, as "init"  *)
(* and "halt" are.                                                         *)
EXTENDS WebClient

Attempts == {"a1"}
SignOffs == {"o1", "o2"}
Tokens == {"k1", "k2"}
=============================================================================
