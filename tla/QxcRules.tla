------------------------------ MODULE QxcRules ------------------------------
(***************************************************************************)
(* The rules of nfm-qxc (QX-billing/qxc_rules.c): the list of exempted     *)
(* destinations and the search tree of the clients' cards, each in two     *)
(* arrays.  The resource manager thread fills the shadow arrays and swaps  *)
(* (QXC_ADD_TE, QXC_ADD_NIC, QXC_SWAP_GET_LOG); the io-net threads look up *)
(* every packet in the active ones, one rule or node per step, holding     *)
(* ex_rwlock or nc_rwlock for reading (qxc_rx_up, qxc_rx_down).            *)
(*                                                                         *)
(* A destination stands for what an exemption is compared with: protocol,  *)
(* masked address and port range.                                          *)
(*                                                                         *)
(* No name is shared with QxcLog, the other part of the filter: QxcProofs  *)
(* extends both.                                                           *)
(***************************************************************************)
EXTENDS Integers, Sequences

CONSTANTS IoThreads,      \* io-net threads
          Macs,         \* hardware addresses: integers, ordered like memcmp orders them
          Ips,          \* addresses of clients
          Hosts,        \* destinations
          ExemptRules,  \* exemptions the logger may add: hosts and the active code
          NicRules,     \* mac/ip pairs the logger may add
          ExLimit,      \* ex_limit
          NcLimit,      \* nc_limit
          MaxAdds       \* bound on the rules added

ASSUME RulesAssumption ==
    /\ Macs \subseteq Int /\ Macs # {} /\ Ips # {} /\ Hosts # {}
    /\ ExemptRules \subseteq [hosts : SUBSET Hosts, active : {1, 2}]
    /\ NicRules \subseteq [mac : Macs, ip : Ips]
    /\ ExLimit \in Nat /\ NcLimit \in Nat \ {0} /\ MaxAdds \in Nat

Arrays == {0, 1}
NULL == NcLimit           \* no node: the indices of an array are 0 .. NcLimit - 1
Nodes == 0 .. (NcLimit - 1)
Links == Nodes \cup {NULL}
Headers == [mac : Macs, ip : Ips, host : Hosts]

VARIABLES
    ex,               \* the two arrays of exemptions, as far as they were filled
    ex_rul_active,    \* the array in use; the other one is ex_rul_shadow
    ex_active_count,  \* rules in use
    ex_count,         \* rules in the shadow array
    nc,               \* the two arrays of tree nodes
    nc_rul_active, nc_rul_shadow,
    nc_rul_list,      \* root of the tree in use: array and node
    nc_count,         \* nodes of the shadow array
    ex_readers, nc_readers,  \* threads holding ex_rwlock and nc_rwlock for reading
    swap_pc,          \* resource manager thread: place in rule_swap_lists
    match_pc, match_pkt,  \* packet threads: place in the filter and the packet
    match_i,          \* local variable i of rule_match_exempt
    pkt_exmpt,        \* its result
    list,             \* local variable of rule_match_client: array and node
    verdict,          \* what the filter decides
    exInUse, ncInUse, \* history: the rules the logger put in use with its last swap
    exNext, ncNext,   \* history: the rules it has added since
    adds              \* rules added so far

exVars == <<ex, ex_rul_active, ex_active_count, ex_count, exInUse, exNext>>
ncVars == <<nc, nc_rul_active, nc_rul_shadow, nc_rul_list, nc_count, ncInUse, ncNext>>
matchVars == <<ex_readers, nc_readers, match_pc, match_pkt, match_i, pkt_exmpt, list, verdict>>
rulesVars == <<exVars, ncVars, matchVars, swap_pc, adds>>

NoNode == [arr |-> 0, node |-> NULL]
Blank == [rule |-> CHOOSE r \in [mac : Macs, ip : Ips] : TRUE, left |-> NULL, right |-> NULL]

RulesInit ==
    /\ ex = [a \in Arrays |-> <<>>] /\ ex_rul_active = 0
    /\ ex_active_count = 0 /\ ex_count = 0
    /\ nc = [a \in Arrays |-> [n \in Nodes |-> Blank]]
    /\ nc_rul_active = 0 /\ nc_rul_shadow = 1 /\ nc_rul_list = NoNode /\ nc_count = 0
    /\ ex_readers = {} /\ nc_readers = {} /\ swap_pc = "idle"
    /\ match_pc = [t \in IoThreads |-> "idle"]
    /\ match_pkt = [t \in IoThreads |-> CHOOSE p \in Headers : TRUE]
    /\ match_i = [t \in IoThreads |-> 0] /\ pkt_exmpt = [t \in IoThreads |-> 0]
    /\ list = [t \in IoThreads |-> NoNode] /\ verdict = [t \in IoThreads |-> "none"]
    /\ exInUse = <<>> /\ ncInUse = {} /\ exNext = <<>> /\ ncNext = {}
    /\ adds = 0

----------------------------------------------------------------------------
(* The pieces of the operations with the slips the properties should catch  *)

ex_rul_shadow == 1 - ex_rul_active

(* memcmp( nic->rule.mac, mac, 6 ) < 0: where a new rule goes, and where    *)
(* rule_match_client looks for a packet                                     *)
GoesLeft(mac, n) == n.rule.mac < mac

LooksLeft_slip(mac, n) == n.rule.mac <= mac
LooksLeft(mac, n) == n.rule.mac < mac

(* The node of a new rule *)
NewNode(r) == [rule |-> r, left |-> NULL, right |-> NULL]

(* The array the next rules go to after a swap *)
ShadowAfterSwap_slip == nc_rul_shadow
ShadowAfterSwap == nc_rul_active

(* pthread_rwlock_wrlock succeeds *)
NcWrLockFree == nc_readers = {}

(* There is room for one more exemption *)
ExRoom_slip == ex_count <= ExLimit
ExRoom == ex_count # ExLimit

(* ex_active_count after a swap *)
ActiveCount_slip == ex_active_count
ActiveCount == ex_count

(* The node under which rule_add_nic links the new one: it walks from node  *)
(* 0 to the left or to the right until there is nothing on that side.       *)
Parent(tree, mac) ==
    LET down[k \in 0 .. NcLimit] ==
          IF k = 0 THEN 0
          ELSE LET n == tree[down[k - 1]]
                   next == IF GoesLeft(mac, n) THEN n.left ELSE n.right
               IN IF next = NULL THEN down[k - 1] ELSE next
    IN down[NcLimit]

(* The first rule of a period has no parent *)
IsFirst_slip(n) == FALSE
IsFirst(n) == n = 0

Linked(tree, n, r) ==
    LET new == [tree EXCEPT ![n] = NewNode(r)]
        p == Parent(new, r.mac)
    IN IF IsFirst(n) THEN new
       ELSE IF GoesLeft(r.mac, new[p]) THEN [new EXCEPT ![p].left = n]
       ELSE [new EXCEPT ![p].right = n]

----------------------------------------------------------------------------
(* The resource manager thread.  At the limit a rule is refused and nothing *)
(* changes.                                                                 *)
rule_add_exempt(r) ==
    /\ swap_pc = "idle" /\ adds < MaxAdds
    /\ adds' = adds + 1
    /\ ExRoom
    /\ ex' = [ex EXCEPT ![ex_rul_shadow] = Append(SubSeq(@, 1, ex_count), r)]
    /\ ex_count' = ex_count + 1
    /\ exNext' = Append(exNext, r)
    /\ UNCHANGED <<ex_rul_active, ex_active_count, exInUse, ncVars, matchVars, swap_pc>>

rule_add_nic(r) ==
    /\ swap_pc = "idle" /\ adds < MaxAdds
    /\ adds' = adds + 1
    /\ nc_count # NcLimit
    /\ nc' = [nc EXCEPT ![nc_rul_shadow] = Linked(@, nc_count, r)]
    /\ nc_count' = nc_count + 1
    /\ ncNext' = ncNext \cup {r}
    /\ UNCHANGED <<nc_rul_active, nc_rul_shadow, nc_rul_list, ncInUse, exVars, matchVars, swap_pc>>

(* rule_swap_lists, the exemptions and then the cards *)
SwapExempts ==
    /\ swap_pc = "idle"
    /\ ex_readers = {}
    /\ ex_rul_active' = ex_rul_shadow
    /\ ex_active_count' = ActiveCount
    /\ ex_count' = 0
    /\ exInUse' = exNext /\ exNext' = <<>>
    /\ swap_pc' = "nics"
    /\ UNCHANGED <<ex, ncVars, matchVars, adds>>

SwapNics ==
    /\ swap_pc = "nics"
    /\ NcWrLockFree
    /\ nc_rul_list' = IF nc_count = 0 THEN NoNode ELSE [arr |-> nc_rul_shadow, node |-> 0]
    /\ nc_count' = 0
    /\ nc_rul_active' = nc_rul_shadow
    /\ nc_rul_shadow' = ShadowAfterSwap
    /\ ncInUse' = ncNext /\ ncNext' = {}
    /\ swap_pc' = "idle"
    /\ UNCHANGED <<nc, exVars, matchVars, adds>>

----------------------------------------------------------------------------
(* A packet of the watched interface: rule_match_exempt takes the lock ...  *)
PacketArrives(t, p) ==
    /\ match_pc[t] = "idle"
    /\ match_pkt' = [match_pkt EXCEPT ![t] = p]
    /\ ex_readers' = ex_readers \cup {t}
    /\ match_i' = [match_i EXCEPT ![t] = 0]
    /\ match_pc' = [match_pc EXCEPT ![t] = "exempt"]
    /\ UNCHANGED <<exVars, ncVars, nc_readers, pkt_exmpt, list, verdict, swap_pc, adds>>

(* ... and compares rule by rule until one matches or none is left          *)
Matches(t) == match_pkt[t].host \in ex[ex_rul_active][match_i[t] + 1].hosts

ExemptStep(t) ==
    /\ match_pc[t] = "exempt" /\ match_i[t] < ex_active_count
    /\ ~Matches(t)
    /\ match_i' = [match_i EXCEPT ![t] = @ + 1]
    /\ UNCHANGED <<exVars, ncVars, ex_readers, nc_readers, match_pc, match_pkt, pkt_exmpt,
                   list, verdict, swap_pc, adds>>

(* RET_RME_EVERYONE (2) passes at once *)
ExemptDone(t) ==
    /\ match_pc[t] = "exempt"
    /\ match_i[t] < ex_active_count => Matches(t)
    /\ LET r == IF match_i[t] < ex_active_count THEN ex[ex_rul_active][match_i[t] + 1].active ELSE 0
       IN /\ pkt_exmpt' = [pkt_exmpt EXCEPT ![t] = r]
          /\ verdict' = [verdict EXCEPT ![t] = IF r = 2 THEN "pass" ELSE "none"]
          /\ match_pc' = [match_pc EXCEPT ![t] = IF r = 2 THEN "idle" ELSE "client"]
    /\ ex_readers' = ex_readers \ {t}
    /\ UNCHANGED <<exVars, ncVars, nc_readers, match_pkt, match_i, list, swap_pc, adds>>

(* rule_match_client takes nc_rwlock and starts at the root *)
ClientBegin(t) ==
    /\ match_pc[t] = "client"
    /\ nc_readers' = nc_readers \cup {t}
    /\ list' = [list EXCEPT ![t] = nc_rul_list]
    /\ match_pc' = [match_pc EXCEPT ![t] = "walk"]
    /\ UNCHANGED <<exVars, ncVars, ex_readers, match_pkt, match_i, pkt_exmpt, verdict, swap_pc, adds>>

Node(t) == nc[list[t].arr][list[t].node]

Hit(t) == list[t].node # NULL /\ Node(t).rule = [mac |-> match_pkt[t].mac, ip |-> match_pkt[t].ip]

ClientStep(t) ==
    /\ match_pc[t] = "walk" /\ list[t].node # NULL /\ ~Hit(t)
    /\ list' = [list EXCEPT ![t].node =
                    IF LooksLeft(match_pkt[t].mac, Node(t)) THEN Node(t).left ELSE Node(t).right]
    /\ UNCHANGED <<exVars, ncVars, ex_readers, nc_readers, match_pc, match_pkt, match_i, pkt_exmpt,
                   verdict, swap_pc, adds>>

(* An unknown client is blocked, RET_RME_ACTIVEONLY (1) passes, the rest is *)
(* written to the log.                                                      *)
ClientDone(t) ==
    /\ match_pc[t] = "walk"
    /\ list[t].node = NULL \/ Hit(t)
    /\ nc_readers' = nc_readers \ {t}
    /\ list' = [list EXCEPT ![t] = NoNode]
    /\ verdict' = [verdict EXCEPT ![t] =
                      CASE ~Hit(t) -> "block"
                        [] Hit(t) /\ pkt_exmpt[t] = 1 -> "pass"
                        [] Hit(t) /\ pkt_exmpt[t] = 0 -> "log"]
    /\ match_pc' = [match_pc EXCEPT ![t] = "idle"]
    /\ UNCHANGED <<exVars, ncVars, ex_readers, match_pkt, match_i, pkt_exmpt, swap_pc, adds>>

Filter(t) == ExemptStep(t) \/ ExemptDone(t) \/ ClientBegin(t) \/ ClientStep(t) \/ ClientDone(t)

RulesNext ==
    \/ \E r \in ExemptRules : rule_add_exempt(r)
    \/ \E r \in NicRules : rule_add_nic(r)
    \/ SwapExempts \/ SwapNics
    \/ \E t \in IoThreads : Filter(t) \/ \E p \in Headers : PacketArrives(t, p)

RulesSpec == RulesInit /\ [][RulesNext]_rulesVars

(* A thread inside the filter is scheduled; nothing makes packets arrive *)
RulesFairSpec == RulesSpec /\ \A t \in IoThreads : WF_rulesVars(Filter(t))

----------------------------------------------------------------------------
RulesTypeOK ==
    /\ ex \in [Arrays -> Seq(ExemptRules)] /\ ex_rul_active \in Arrays
    /\ ex_active_count \in 0 .. ExLimit /\ ex_count \in 0 .. ExLimit
    /\ nc \in [Arrays -> [Nodes -> [rule : [mac : Macs, ip : Ips], left : Links, right : Links]]]
    /\ nc_rul_active \in Arrays /\ nc_rul_shadow \in Arrays
    /\ nc_rul_list \in [arr : Arrays, node : Links] /\ nc_count \in 0 .. NcLimit
    /\ ex_readers \subseteq IoThreads /\ nc_readers \subseteq IoThreads
    /\ swap_pc \in {"idle", "nics"}
    /\ match_pc \in [IoThreads -> {"idle", "exempt", "client", "walk"}]
    /\ match_pkt \in [IoThreads -> Headers] /\ match_i \in [IoThreads -> Nat]
    /\ pkt_exmpt \in [IoThreads -> 0 .. 2]
    /\ list \in [IoThreads -> [arr : Arrays, node : Links]]
    /\ verdict \in [IoThreads -> {"none", "pass", "block", "log"}]

(* rule_add_nic writes into the shadow array without a lock: no packet      *)
(* thread is ever at a node of that array.  Every variable has its type.    *)
ShadowIsPrivate == RulesTypeOK /\
    \A t \in IoThreads : (match_pc[t] = "walk" /\ list[t].node # NULL) => list[t].arr # nc_rul_shadow

(* The search of rule_match_exempt finds what the first matching exemption  *)
(* in use says, and 0 if none matches, while rules are added and swapped.   *)
FirstExempt(p) ==
    LET hits == {k \in DOMAIN exInUse : p.host \in exInUse[k].hosts}
    IN IF hits = {} THEN 0 ELSE exInUse[CHOOSE k \in hits : \A l \in hits : k <= l].active

ExemptIsRight ==
    [][\A t \in IoThreads : ExemptDone(t) => pkt_exmpt'[t] = FirstExempt(match_pkt[t])]_rulesVars

(* The walk down the tree finds a card exactly if its mac/ip pair is among  *)
(* the rules in use, whatever the order in which they were added and        *)
(* whether or not several cards share a mac.                                *)
ClientIsRight ==
    [][\A t \in IoThreads : ClientDone(t) =>
         (verdict'[t] # "block" <=>
              [mac |-> match_pkt[t].mac, ip |-> match_pkt[t].ip] \in ncInUse)]_rulesVars

(* No packet stays in the filter: the tree has no cycle.                    *)
FilterReturns == \A t \in IoThreads : match_pc[t] # "idle" ~> match_pc[t] = "idle"
=============================================================================
