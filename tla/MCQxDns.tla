------------------------------ MODULE MCQxDns -------------------------------
(* Model of QxDns for TLC: threads, buffers and queries are interchangeable. *)
(* Two hosts of one zone, one with an alias, share an address; "far" and     *)
(* "away" are names elsewhere.                                               *)
EXTENDS QxDns, TLC

Symmetry == Permutations(Pool) \cup Permutations(Buffers) \cup Permutations(Queries)

Label(l) == [labels |-> <<l>>, rel |-> TRUE]
MCHosts == << [zone |-> <<"net">>, cname |-> Label("www"), aliases |-> <<Label("ftp"), Label("mail")>>,
               addrs |-> <<"ip1", "ip2">>],
              [zone |-> <<"net">>, cname |-> [labels |-> <<"ns", "org">>, rel |-> FALSE], aliases |-> <<>>,
               addrs |-> <<"ip2", "ip3", "ip4">>] >>

Ask(t, n) == [type |-> t, name |-> n]
Far == Ask("A", <<"far">>)
Away == Ask("MX", <<"away">>)
Ours == {Ask("A", <<"www", "net">>), Ask("A", <<"mail", "net">>), Ask("A", <<"ns", "org">>),
         Ask("PTR", Arpa("ip1")), Ask("PTR", Arpa("ip2")), Ask("NS", <<"net">>), Ask("many", <<"two">>)}

(* Caches of two records of other names, and the empty one *)
Kept(n, e, h) == [question |-> Ask("A", <<n>>), expires |-> e, hits |-> h]
Caches == {<<Kept("x", e, h), Kept("y", f, k)>> : e, f \in 1 .. 2, h, k \in 1 .. 2}

Setup(n, q, i, sh, r, cs, qs, c) ==
    [servers |-> n, queries |-> q, ids |-> i, shorts |-> sh, replies |-> r, rcodes |-> cs,
     questions |-> qs, caches |-> c]
(* Two clients whose numbers differ, and two that get the same one; two     *)
(* clients and two servers, the second asked by the scan alone; a cache     *)
(* with records in it; three servers that may fail; datagrams too short;    *)
(* and questions for the zones without any server                           *)
MCSetups == {Setup(1, 2, 3, 0, 2, {"ok"}, {Far, Away}, {<<>>}),
             Setup(1, 2, 1, 0, 2, {"ok"}, {Far, Away}, {<<>>}),
             Setup(2, 2, 2, 0, 1, {"ok"}, {Far}, {<<>>}),
             Setup(1, 1, 2, 0, 1, {"ok", "format", "failed"}, {Far, Ask("A", <<"x">>)}, Caches),
             Setup(3, 1, 2, 0, 3, {"failed"}, {Far}, {<<>>}),
             Setup(3, 1, 2, 1, 2, {"ok", "failed"}, {Far}, {<<>>}),
             Setup(0, 1, 1, 0, 0, {}, Ours \cup {Far}, {<<>>})}
MCCycle == {Setup(2, 2, 4, 0, 2, {"failed"}, {Far}, {<<>>})}
=============================================================================
