------------------------------ MODULE MCQavird ------------------------------
(* Model of Qavird for TLC: threads and engines are interchangeable. *)
EXTENDS Qavird, TLC

Symmetry == Permutations(Threads) \cup Permutations(Engines)
=============================================================================
