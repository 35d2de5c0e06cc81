--------------------------- MODULE MCQbaseCatalog ---------------------------
(* Model of QbaseCatalog for TLC: three connections with a table each, so   *)
(* that one in the middle of the list can leave; and two connections and    *)
(* two tables with a creation that is refused and a crash.                  *)
EXTENDS QbaseCatalog, TLC

Bounds(cs, ns, w, r, x) == [clients |-> cs, names |-> ns, rows |-> w, refused |-> r, deaths |-> x]
MCSetups ==
    {Bounds(Connections, Names, 1, 0, 0)}
    \cup {Bounds(Connections \ {c}, Names \ {n}, 2, 1, 1) : c \in Connections, n \in Names}

Symmetry == Permutations(Connections) \cup Permutations(Names)
=============================================================================
