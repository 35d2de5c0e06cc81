------------------------------ MODULE MCQxcLog ------------------------------
(* Model of QxcLog for TLC: packets and threads are interchangeable. *)
EXTENDS QxcLog, TLC

Symmetry == Permutations(Threads) \cup Permutations(Packets)
=============================================================================
