------------------------------ MODULE DnsZones ------------------------------
(***************************************************************************)
(* The master zones of QX-dns (master.c): the hosts the configuration      *)
(* names, and how a question is answered from them.                        *)
(*                                                                         *)
(* A name is a sequence of labels.  One that ends in a dot in the          *)
(* configuration has the name of its zone appended (rcpy_string marks it   *)
(* with 0xC0, rcmp_names and rprt_name append it).  Case, compression      *)
(* pointers and the lengths of names are left out; Room says how many      *)
(* records fit behind the question.                                        *)
(***************************************************************************)
EXTENDS Integers, Sequences
LOCAL INSTANCE FiniteSetsExt
LOCAL INSTANCE SequencesExt

CONSTANTS Hosts,  \* the hosts of all zones, in the order of the configuration
          Room    \* records that fit into an answer

(* The whole name: rel says that it is to be completed by the zone *)
Full(h, n) == IF n.rel THEN n.labels \o h.zone ELSE n.labels
CName(h) == Full(h, h.cname)
Names(h) == {CName(h)} \cup {Full(h, h.aliases[i]) : i \in DOMAIN h.aliases}
Arpa(d) == <<d, "IN-ADDR", "ARPA">>
Arpas(h) == {Arpa(h.addrs[i]) : i \in DOMAIN h.addrs}

(* A host bears every name once, and no two hosts share one; they may share *)
(* an address.                                                              *)
ASSUME ZonesAssumption ==
    /\ Room \in Nat \ {0}
    /\ \A i, j \in DOMAIN Hosts : i # j => Names(Hosts[i]) \cap Names(Hosts[j]) = {}

(* Zones, hosts, aliases and addresses are linked at the head of their      *)
(* lists, so that the one configured last is found first.                   *)
FirstFound(ks) == Max(ks)

NothingFound == [cname |-> <<>>, addrs |-> <<>>]

(* DNS_T_A: the canonical name first if the question was for an alias, then *)
(* the addresses as long as there is room                                   *)
LookupA(name) ==
    LET ks == {k \in DOMAIN Hosts : name \in Names(Hosts[k])}
        h == Hosts[FirstFound(ks)]
        cname == IF name = CName(h) THEN <<>> ELSE CName(h)
        room == IF cname = <<>> THEN Room ELSE Room - 1
        addrs == Reverse(h.addrs)
    IN IF ks = {} THEN NothingFound
       ELSE [cname |-> cname, addrs |-> SubSeq(addrs, 1, Min({room, Len(addrs)}))]

(* DNS_T_PTR: the canonical name of the host that has the address *)
LookupPtr(name) ==
    LET ks == {k \in DOMAIN Hosts : name \in Arpas(Hosts[k])}
    IN IF ks = {} THEN NothingFound ELSE [cname |-> CName(Hosts[FirstFound(ks)]), addrs |-> <<>>]

(* qxdns_master_lookup: other types are not answered from the zones *)
MasterLookup(x) ==
    CASE x.type = "A" -> LookupA(x.name)
      [] x.type = "PTR" -> LookupPtr(x.name)
      [] OTHER -> NothingFound

(* What the zones say of a question, whatever the order of the lists: the   *)
(* addresses of the one host of that name, or a host with that address      *)
MasterRight(x, a) ==
    IF x.type = "PTR" THEN \E k \in DOMAIN Hosts : a.cname = CName(Hosts[k]) /\ x.name \in Arpas(Hosts[k])
    ELSE \E k \in DOMAIN Hosts :
           /\ x.name \in Names(Hosts[k])
           /\ a.cname = IF x.name = CName(Hosts[k]) THEN <<>> ELSE CName(Hosts[k])
           /\ ToSet(a.addrs) \subseteq ToSet(Hosts[k].addrs)
           /\ Len(a.addrs) = Min({Len(Hosts[k].addrs), IF a.cname = <<>> THEN Room ELSE Room - 1})
=============================================================================
