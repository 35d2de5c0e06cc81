------------------------------ MODULE MCQxVpn ------------------------------
(* Model of QxVpn for TLC: calls that are cleared and made again, GRE       *)
(* packets of one call, and connections that follow one another.            *)
EXTENDS QxVpn, TLC

MCSetups == {[accepts |-> 1, messages |-> 6, packets |-> 1],
             [accepts |-> 1, messages |-> 3, packets |-> 4],
             [accepts |-> 3, messages |-> 4, packets |-> 1]}

Symmetry == Permutations(Threads) \cup Permutations(Blocks)
=============================================================================
