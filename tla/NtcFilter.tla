----------------------------- MODULE NtcFilter -----------------------------
(***************************************************************************)
(* The filter nfm-ntc: io-net's threads bring it frames and the messages   *)
(* of the adapters (main.c), and one thread of its own serves the device   *)
(* /dev/ntc (ntc_rm.c), from which the log of the frames is read.          *)
(*                                                                         *)
(* A frame is a source, a destination and an identity of its own; its      *)
(* addresses are compared as a whole.  A stretch of code under one of the  *)
(* reader-writer locks is one step, for nothing it reads changes inside.   *)
(***************************************************************************)
EXTENDS Integers, Sequences, FiniteSets, SequencesExt

CONSTANTS Threads,     \* io-net threads
          Clients,     \* addresses of the stations on the network
          Names,       \* names of the adapters
          MaxPktRead,  \* MAX_PKT_READ: most packets in one reply
          Setups       \* a behaviour has one of them: the slots of the queue, and bounds on frames,
                       \* messages of adapters, changes by the administrator and exits of the reader

Server == "server"
NoOne == "no one"
ASSUME FilterAssumption ==
    /\ MaxPktRead \in Nat \ {0}
    /\ Setups \subseteq [slots : Nat \ {0}, frames : Nat, ads : Nat, admin : Nat, exits : Nat]
    /\ Server \notin Clients /\ NoOne \notin Threads

VARIABLES
    ntc_ifs,      \* list of interfaces, the head first
    blocklist,    \* list of the addresses that are let through, the head first
    pktq,         \* the slots of the queue
    num_packets, num_pkt_missed, num_pkt_blocked,
    pkt_mutex,    \* the thread that holds it, or NoOne
    pc,           \* io-net threads: place in rx_up and rx_down
    msg,          \* io-net threads: the frame or message in hand
    ifs,          \* io-net threads: how much of the list the head read before the lock leads to
    reply,        \* resource manager: the slots still to be copied to the client
    budget,       \* the setup, less what has been used of its bounds
    sent,         \* (history) frames so far; they are numbered
    stored,       \* (history) frames that went into the queue
    flushed,      \* (history) frames NTC_FLUSH threw away
    clobbered,    \* (history) a slot was written while a reply was still to copy it
    twin,         \* (history) two threads announced an interface at the same time
    asked,        \* (history) names of the interfaces NTC_ADDIF found and marked, until they die
    allowed       \* (history) how often an address was allowed and not forbidden again

queueVars == <<pktq, num_packets, num_pkt_missed, pkt_mutex>>
listVars == <<ntc_ifs, blocklist>>
threadVars == <<pc, msg, ifs>>
askVars == <<asked, allowed>>
historyVars == <<sent, stored, flushed, clobbered, twin>>
filterVars == <<queueVars, listVars, threadVars, askVars, historyVars, num_pkt_blocked, reply, budget>>

pkt_log_limit == budget.slots

Cells == 1 .. Cardinality(Names)   \* the numbers of an adapter, as one
NoCell == 0
NoMsg == [kind |-> "none"]
Empty == [id |-> 0, src |-> Server, dst |-> Server, dir |-> "in"]
NoReply == [next |-> 0, left |-> 0]

FilterInit ==
    /\ budget \in Setups
    /\ ntc_ifs = <<>> /\ blocklist = <<>>
    /\ pktq = [k \in 0 .. pkt_log_limit - 1 |-> Empty]
    /\ num_packets = 0 /\ num_pkt_missed = 0 /\ num_pkt_blocked = 0 /\ pkt_mutex = NoOne
    /\ pc = [t \in Threads |-> "idle"] /\ msg = [t \in Threads |-> NoMsg] /\ ifs = [t \in Threads |-> 0]
    /\ reply = NoReply
    /\ sent = 0 /\ stored = 0 /\ flushed = 0 /\ clobbered = FALSE /\ twin = FALSE
    /\ asked = {} /\ allowed = [c \in Clients |-> 0]

----------------------------------------------------------------------------
(* The station a frame is from or to                                        *)
Station(p) == IF p.dir = "in" THEN p.src ELSE p.dst

(* The part of the list a thread sees: what has been added at its head      *)
(* since it read ntc_ifs is missing.                                        *)
Seen(t) == SubSeq(ntc_ifs, Len(ntc_ifs) - ifs[t] + 1, Len(ntc_ifs))

CellAt(list, cell) == SelectInSeq(list, LAMBDA i : i.cell = cell)
NameAt(list, name) == SelectInSeq(list, LAMBDA i : i.name = name)

(* The queue takes no more packets than it has slots                        *)
QueueFull_slip == num_packets > pkt_log_limit
QueueFull == num_packets + 1 > pkt_log_limit

(* Slots that a reply has still to copy                                     *)
InReply == reply.next .. (reply.next + reply.left - 1)

Spend(item) == budget[item] > 0 /\ budget' = [budget EXCEPT ![item] = @ - 1]

Done(t) == /\ pc' = [pc EXCEPT ![t] = "idle"]
           /\ msg' = [msg EXCEPT ![t] = NoMsg]
           /\ ifs' = [ifs EXCEPT ![t] = 0]

----------------------------------------------------------------------------
(* rx_up or rx_down is called with a frame: the thread has the frame and    *)
(* the head of the list of interfaces, and waits for its lock.              *)
Frame(t, c, dir) ==
    /\ pc[t] = "idle" /\ Spend("frames")
    /\ sent' = sent + 1
    /\ msg' = [msg EXCEPT ![t] =
                 [kind |-> "frame", id |-> sent', dir |-> dir,
                  src |-> IF dir = "in" THEN c ELSE Server, dst |-> IF dir = "in" THEN Server ELSE c]]
    /\ ifs' = [ifs EXCEPT ![t] = Len(ntc_ifs)]
    /\ pc' = [pc EXCEPT ![t] = "iface"]
    /\ UNCHANGED <<queueVars, listVars, askVars, num_pkt_blocked, reply, stored, flushed, clobbered, twin>>

(* A frame of an interface that is not of interest passes, and so does ARP; *)
(* the frames of an interface that is not in the list do not.  What a frame *)
(* is and which interface it is of matters here only, and is chosen here.   *)
NotOfInterest(t, cell) ==
    LET k == CellAt(Seen(t), cell)
    IN k # 0 /\ ~Seen(t)[k].ofinterest

CheckIface(t, cell, arp) ==
    /\ pc[t] = "iface"
    /\ IF NotOfInterest(t, cell) \/ arp
          THEN Done(t)
          ELSE pc' = [pc EXCEPT ![t] = "scan"] /\ UNCHANGED <<msg, ifs>>
    /\ UNCHANGED <<queueVars, listVars, askVars, historyVars, budget, num_pkt_blocked, reply>>

(* A frame of a station that is not in the list is dropped                  *)
Scan(t) ==
    /\ pc[t] = "scan"
    /\ IF Station(msg[t]) \in ToSet(blocklist)
          THEN pc' = [pc EXCEPT ![t] = "log"] /\ UNCHANGED <<msg, ifs, num_pkt_blocked>>
          ELSE num_pkt_blocked' = num_pkt_blocked + 1 /\ Done(t)
    /\ UNCHANGED <<queueVars, listVars, askVars, historyVars, budget, reply>>

(* The queue is locked and the headers copied to its next slot, or the      *)
(* packet counted as missed; ...                                            *)
LogFrame(t) ==
    /\ pc[t] = "log" /\ pkt_mutex = NoOne
    /\ IF QueueFull
          THEN /\ num_pkt_missed' = num_pkt_missed + 1
               /\ Done(t)
               /\ UNCHANGED <<pktq, pkt_mutex, stored, clobbered>>
          ELSE /\ pktq' = [pktq EXCEPT ![num_packets] =
                             [@ EXCEPT !.id = msg[t].id, !.src = msg[t].src, !.dst = msg[t].dst]]
               /\ clobbered' = (clobbered \/ num_packets \in InReply)
               /\ pkt_mutex' = t
               /\ stored' = stored + 1
               /\ pc' = [pc EXCEPT ![t] = "length"]
               /\ UNCHANGED <<num_pkt_missed, msg, ifs>>
    /\ UNCHANGED <<num_packets, listVars, askVars, num_pkt_blocked, reply, sent, flushed, twin, budget>>

(* ... then its length and direction, and the packet counted.               *)
LogDir_slip(p) == "in"
LogDir(p) == p.dir

LogLength(t) ==
    /\ pc[t] = "length"
    /\ pktq' = [pktq EXCEPT ![num_packets].dir = LogDir(msg[t])]
    /\ clobbered' = (clobbered \/ num_packets \in InReply)
    /\ num_packets' = num_packets + 1
    /\ pkt_mutex' = NoOne
    /\ Done(t)
    /\ UNCHANGED <<num_pkt_missed, listVars, askVars, num_pkt_blocked, reply, sent, stored, flushed, twin, budget>>

----------------------------------------------------------------------------
(* An adapter dies: the thread has the head of the list, ...                *)
Dying(t, cell) ==
    /\ pc[t] = "idle" /\ Spend("ads")
    /\ msg' = [msg EXCEPT ![t] = [kind |-> "dying", cell |-> cell]]
    /\ ifs' = [ifs EXCEPT ![t] = Len(ntc_ifs)]
    /\ pc' = [pc EXCEPT ![t] = "dying"]
    /\ UNCHANGED <<queueVars, listVars, askVars, num_pkt_blocked, reply, sent, stored, flushed, clobbered, twin>>

(* ... and marks the first interface with its numbers under the write lock. *)
(* Nothing looks at the mark, and ofinterest stays as it is.                *)
MarkDead(t) ==
    /\ pc[t] = "dying" /\ \A u \in Threads : pc[u] # "cell"
    /\ LET k == CellAt(Seen(t), msg[t].cell)
           n == Len(ntc_ifs) - ifs[t] + k
       IN IF k = 0
             THEN UNCHANGED <<ntc_ifs, asked>>
             ELSE /\ ntc_ifs' = [ntc_ifs EXCEPT ![n].dead = TRUE]
                  /\ asked' = asked \ {ntc_ifs[n].name}
    /\ Done(t)
    /\ UNCHANGED <<queueVars, blocklist, allowed, historyVars, budget, num_pkt_blocked, reply>>

(* An adapter announces itself, under numbers that no other live one has:   *)
(* the thread has the head of the list, ...                                 *)
Advert(t, name, cell) ==
    /\ pc[t] = "idle" /\ Spend("ads")
    /\ \A k \in DOMAIN ntc_ifs : ntc_ifs[k].cell = cell /\ ~ntc_ifs[k].dead => ntc_ifs[k].name = name
    /\ msg' = [msg EXCEPT ![t] = [kind |-> "advert", name |-> name, cell |-> cell]]
    /\ ifs' = [ifs EXCEPT ![t] = Len(ntc_ifs)]
    /\ pc' = [pc EXCEPT ![t] = "advert"]
    /\ UNCHANGED <<queueVars, listVars, askVars, num_pkt_blocked, reply, sent, stored, flushed, clobbered, twin>>

(* ... looks for the name under the read lock and updates what it finds:   *)
(* the three numbers of the adapter one by one, so that a reader of the     *)
(* list may meet a mixture that is nobody's; ...                            *)
Renewed_slip(i) == [i EXCEPT !.dead = FALSE, !.ofinterest = FALSE]
Renewed(i) == [i EXCEPT !.dead = FALSE]

SearchName(t) ==
    /\ pc[t] = "advert"
    /\ LET k == NameAt(Seen(t), msg[t].name)
           n == Len(ntc_ifs) - ifs[t] + k
       IN IF k = 0
             THEN pc' = [pc EXCEPT ![t] = "link"] /\ UNCHANGED <<ntc_ifs, msg, ifs>>
             ELSE IF ntc_ifs[n].cell = msg[t].cell
             THEN ntc_ifs' = [ntc_ifs EXCEPT ![n] = Renewed(@)] /\ Done(t)
             ELSE /\ ntc_ifs' = [ntc_ifs EXCEPT ![n].cell = NoCell]
                  /\ pc' = [pc EXCEPT ![t] = "cell"]
                  /\ ifs' = [ifs EXCEPT ![t] = n]
                  /\ UNCHANGED msg
    /\ UNCHANGED <<queueVars, blocklist, askVars, historyVars, budget, num_pkt_blocked, reply>>

SetCell(t) ==
    /\ pc[t] = "cell"
    /\ ntc_ifs' = [ntc_ifs EXCEPT ![ifs[t]] = [Renewed(@) EXCEPT !.cell = msg[t].cell]]
    /\ Done(t)
    /\ UNCHANGED <<queueVars, blocklist, askVars, historyVars, budget, num_pkt_blocked, reply>>

(* ... and if there is none, adds the interface under the write lock, not   *)
(* of interest.                                                             *)
LinkName(t) ==
    /\ pc[t] = "link" /\ \A u \in Threads : pc[u] # "cell"
    /\ ntc_ifs' = <<[name |-> msg[t].name, cell |-> msg[t].cell, dead |-> FALSE, ofinterest |-> FALSE]>>
                  \o ntc_ifs
    /\ twin' = (twin \/ Len(ntc_ifs) # ifs[t])
    /\ Done(t)
    /\ UNCHANGED <<queueVars, blocklist, askVars, num_pkt_blocked, reply, sent, stored, flushed, clobbered, budget>>

Thread(t) == \/ \E cell \in Cells, arp \in BOOLEAN : CheckIface(t, cell, arp)
             \/ Scan(t) \/ LogFrame(t) \/ LogLength(t)
             \/ MarkDead(t) \/ SearchName(t) \/ SetCell(t) \/ LinkName(t)

----------------------------------------------------------------------------
(* The resource manager thread serves one request at a time; a reply is     *)
(* copied to the client slot by slot, after the handler has returned and    *)
(* without the mutex.  The commands say nothing of the budget: that is for  *)
(* whoever gives them.                                                      *)
Serving == reply.left > 0

(* _IO_READ by a client with room for MAX_PKT_READ packets                  *)
Npkts_slip == IF num_packets > MaxPktRead THEN MaxPktRead ELSE num_packets - 1
Npkts == IF num_packets > MaxPktRead THEN MaxPktRead ELSE num_packets

NtcRead ==
    /\ ~Serving /\ pkt_mutex = NoOne
    /\ num_packets' = num_packets - Npkts
    /\ reply' = [next |-> num_packets', left |-> Npkts]
    /\ UNCHANGED <<pktq, num_pkt_missed, pkt_mutex, listVars, threadVars, askVars, historyVars, budget, num_pkt_blocked>>

CopySlot ==
    /\ Serving
    /\ reply' = [next |-> reply.next + 1, left |-> reply.left - 1]
    /\ UNCHANGED <<queueVars, listVars, threadVars, askVars, historyVars, budget, num_pkt_blocked>>

Flush ==
    /\ ~Serving /\ pkt_mutex = NoOne
    /\ num_packets' = 0
    /\ flushed' = flushed + num_packets
    /\ UNCHANGED <<pktq, num_pkt_missed, pkt_mutex, listVars, threadVars, askVars, num_pkt_blocked, reply,
                   sent, stored, clobbered, twin>>

AddBlock(c) ==
    /\ ~Serving
    /\ blocklist' = <<c>> \o blocklist
    /\ allowed' = [allowed EXCEPT ![c] = @ + 1]
    /\ UNCHANGED <<queueVars, ntc_ifs, threadVars, asked, historyVars, num_pkt_blocked, reply>>

(* prev is NULL in every node, whatever its place: to delete a node is to   *)
(* make its successor the head, and the nodes before it are gone too.       *)
AfterDel(k) == SubSeq(blocklist, k + 1, Len(blocklist))

DelBlock(c) ==
    /\ ~Serving
    /\ LET k == SelectInSeq(blocklist, LAMBDA b : b = c)
       IN blocklist' = IF k = 0 THEN blocklist ELSE AfterDel(k)
    /\ allowed' = [allowed EXCEPT ![c] = IF @ = 0 THEN 0 ELSE @ - 1]
    /\ UNCHANGED <<queueVars, ntc_ifs, threadVars, asked, historyVars, num_pkt_blocked, reply>>

(* NTC_ADDIF, NTC_DELIF: only the first interface of the name is marked     *)
SetInterest(name, interest) ==
    /\ ~Serving
    /\ LET k == NameAt(ntc_ifs, name)
       IN IF k = 0
             THEN UNCHANGED <<ntc_ifs, asked>>
             ELSE /\ ntc_ifs' = [ntc_ifs EXCEPT ![k].ofinterest = interest]
                  /\ asked' = IF interest THEN asked \cup {name} ELSE asked \ {name}
    /\ UNCHANGED <<queueVars, blocklist, threadVars, allowed, historyVars, num_pkt_blocked, reply>>
=============================================================================
