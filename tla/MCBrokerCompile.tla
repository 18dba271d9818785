--------------------------- MODULE MCBrokerCompile ---------------------------
(* Threads and heap cells are interchangeable.                              *)
EXTENDS BrokerCompile, TLC

Symmetric == Permutations(Threads) \cup Permutations(Cells)
=============================================================================
