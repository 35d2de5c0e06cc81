-------------------------- MODULE NtcReaderProofs --------------------------
(***************************************************************************)
(* Proofs about NtcReader and the filter it reads from, for any number of  *)
(* io-net threads, stations, adapters, slots of the queue and frames.      *)
(***************************************************************************)
EXTENDS NtcReader, SumLemmas, SequenceTheorems

(* The types of all variables, and what a place of a thread says of the     *)
(* thread's message and of the mutex.                                       *)
Address == Clients \cup {Server}
PacketType == [id : Nat, src : Address, dst : Address, dir : {"in", "out"}]
FrameType == [kind : {"frame"}, id : Nat \ {0}, src : Address, dst : Address, dir : {"in", "out"}]
AdvertType == [kind : {"advert"}, name : Names, cell : Cells]
DyingType == [kind : {"dying"}, cell : Cells]
IfaceType == [name : Names, cell : Cells \cup {NoCell}, dead : BOOLEAN, ofinterest : BOOLEAN]
BudgetType == [slots : Nat \ {0}, frames : Nat, ads : Nat, admin : Nat, exits : Nat]
Slots == 0 .. pkt_log_limit - 1

HasFrame(t) == pc[t] \in {"iface", "scan", "log", "length"}
HasAdvert(t) == pc[t] \in {"advert", "link", "cell"}

(* A packet that is locked for its second half is in the queue already      *)
Storing == IF pkt_mutex = NoOne THEN 0 ELSE 1
Taken == num_packets + Storing

QueueTypes ==
    /\ budget \in BudgetType
    /\ pktq \in [Slots -> PacketType]
    /\ num_packets \in Nat /\ num_pkt_missed \in Nat /\ num_pkt_blocked \in Nat
    /\ Taken =< pkt_log_limit
    /\ reply \in [next : Nat, left : 0 .. MaxPktRead]
    /\ reply.left > 0 => reply.next + reply.left =< pkt_log_limit
    /\ sent \in Nat /\ stored \in Nat /\ flushed \in Nat
    /\ clobbered \in BOOLEAN

ThreadTypes ==
    /\ pkt_mutex \in Threads \cup {NoOne}
    /\ pc \in [Threads -> {"idle", "iface", "scan", "log", "length", "dying", "advert", "link", "cell"}]
    /\ msg \in [Threads -> FrameType \cup AdvertType \cup DyingType \cup {NoMsg}]
    /\ ifs \in [Threads -> 0 .. Len(ntc_ifs)]
    /\ \A t \in Threads : /\ HasFrame(t) => msg[t] \in FrameType
                          /\ HasAdvert(t) => msg[t] \in AdvertType
                          /\ pkt_mutex = t <=> pc[t] = "length"
                          /\ pc[t] = "cell" => ifs[t] # 0

ListTypes ==
    /\ ntc_ifs \in Seq(IfaceType)
    /\ blocklist \in Seq(Clients)
    /\ asked \subseteq Names /\ allowed \in [Clients -> Nat]
    /\ twin \in BOOLEAN

ReaderTypes ==
    /\ known \subseteq Clients /\ open \subseteq nics /\ nics \subseteq Clients /\ toAllow \subseteq Clients
    /\ place \in {"off", "addif", "allow", "read", "reply", "count", "save"}
    /\ LOG \in [Clients -> Nat] /\ tlog \in [Clients -> Nat]
    /\ ItIsTimeToLog \in 0 .. LogPeriod
    /\ place \in {"addif", "allow", "read", "reply", "count"} => ItIsTimeToLog < LogPeriod
    /\ packet \in Seq(PacketType)
    /\ lost \in Nat /\ got \in [Frames -> Nat]

Types == QueueTypes /\ ThreadTypes /\ ListTypes /\ ReaderTypes

(* A reply is copied while ntcread waits for it; it has no packets but      *)
(* those of the round, and no log before it starts.                         *)
Places ==
    /\ Serving => place = "reply"
    /\ place \notin {"reply", "count"} => packet = <<>>
    /\ place = "off" => LOG = None

(* The frames are numbered as they come, and no more of them than Frames.   *)
(* The one a thread has in hand is in no slot of the queue and in nobody    *)
(* else's hand, and no two slots hold the same; ...                         *)
Fresh(t) == pc[t] \in {"iface", "scan", "log"}
InUse == {k \in Slots : k < Taken \/ k \in InReply}

MaxFrames == Max({s.frames : s \in Setups})

Numbered ==
    /\ MaxFrames \in Nat /\ sent + budget.frames =< MaxFrames
    /\ \A k \in Slots : pktq[k].id =< sent
    /\ \A k \in InUse : pktq[k].id # 0
    /\ \A f \in Frames : f > sent => got[f] = 0
    /\ \A t \in Threads : HasFrame(t) => msg[t].id =< sent
    /\ \A t \in Threads : Fresh(t) =>
          /\ got[msg[t].id] = 0
          /\ \A k \in Slots : pktq[k].id # msg[t].id
          /\ \A u \in Threads : Fresh(u) /\ msg[u].id = msg[t].id => u = t
    /\ \A j, k \in Slots : pktq[j].id = pktq[k].id /\ pktq[j].id # 0 => j = k

(* ... and how often it has been handed to ntcread depends on whether its   *)
(* slot waits to be read, to be copied, or both: then it was overwritten.   *)
Handed(k) == got[pktq[k].id]

Handing ==
    /\ ~clobbered /\ Serving => Taken =< reply.next
    /\ \A k \in InUse : /\ Handed(k) =< 1
                        /\ k < Taken /\ k \in InReply => Handed(k) = 0
                        /\ ~clobbered => Handed(k) = 0
    /\ \A f \in Frames : /\ got[f] =< 2
                         /\ ~clobbered => got[f] =< 1

(* The packets that have come in are where they are said to be, ...         *)
TakenOut == MapThenSumSet(LAMBDA f : got[f], Frames)
OfTheDay == MapThenSumSet(LAMBDA c : tlog[c], Clients)

Counted ==
    /\ stored = flushed + Taken + reply.left + TakenOut
    /\ TakenOut = Len(packet) + Logged + OfTheDay + lost

(* ... and those that are complete are from or to a station: of a card that *)
(* is in the table or was taken out of it, ...                              *)
CardsKnown ==
    /\ nics \cup removed = Clients
    /\ place # "off" => known \cup removed = Clients

(* ... as is the frame a thread has in hand and of which it has written the *)
(* first half, ...                                                          *)
HandsKnown ==
    /\ \A t \in Threads : HasFrame(t) => Station(msg[t]) \in Clients
    /\ \A t \in Threads : pc[t] = "length" =>
          pktq[num_packets].src = msg[t].src /\ pktq[num_packets].dst = msg[t].dst

(* ... and what waits or has been read, unless a reply was overwritten.     *)
SlotsKnown ==
    ~clobbered => \A k \in Slots : k < num_packets \/ k \in InReply => Station(pktq[k]) \in Clients
PacketsKnown ==
    ~clobbered => \A k \in DOMAIN packet : Station(packet[k]) \in Clients

Known == CardsKnown /\ HandsKnown /\ SlotsKnown /\ PacketsKnown

(* A thread that is to add an interface has not seen its name.  As long as  *)
(* no two threads announced one at the same time, the names in the list are *)
(* distinct; those that were asked for are in it, and of interest unless    *)
(* there are two entries of the name.                                       *)
NotSeen ==
    \A t \in Threads :
       pc[t] = "link" =>
          \A k \in DOMAIN ntc_ifs : k > Len(ntc_ifs) - ifs[t] => ntc_ifs[k].name # msg[t].name

NamesDistinct == \A j, k \in DOMAIN ntc_ifs : ntc_ifs[j].name = ntc_ifs[k].name => j = k
AskedAreThere == \A name \in asked : \E k \in DOMAIN ntc_ifs : ntc_ifs[k].name = name
AskedAreOfInterest == \A k \in DOMAIN ntc_ifs : ntc_ifs[k].name \in asked /\ OwnName(k) => ntc_ifs[k].ofinterest

Named == NotSeen /\ (~twin => NamesDistinct) /\ AskedAreThere /\ AskedAreOfInterest

(* Nobody is in the list of stations more often than he was allowed.        *)
OccursIn(list, c) == {k \in DOMAIN list : list[k] = c}
Occurs(c) == OccursIn(blocklist, c)
LetThrough == \A c \in Clients : Cardinality(Occurs(c)) =< allowed[c]

IInv ==
    /\ Types
    /\ Places
    /\ Numbered
    /\ Handing
    /\ Counted
    /\ Known
    /\ AlertIsExplained
    /\ Named
    /\ LetThrough

----------------------------------------------------------------------------
(* What is spent of a budget is taken from one of its bounds.               *)
LEMMA Spending ==
    ASSUME budget \in BudgetType, NEW item \in {"frames", "ads", "admin", "exits"}, Spend(item)
    PROVE  /\ budget' \in BudgetType /\ budget'.slots = budget.slots
           /\ budget'.frames = IF item = "frames" THEN budget.frames - 1 ELSE budget.frames
    BY DEF BudgetType, Spend

(* io-net hands a thread a frame of a station, in or out.                   *)
FrameComes(t) == \E c \in Clients, dir \in {"in", "out"} : Frame(t, c, dir)

(* The bounds of a setup are only spent, the slots of the queue stay, and   *)
(* what is spent of the frames are those that come in.                      *)
LEMMA BudgetKept ==
    ASSUME budget \in BudgetType, [Next]_vars
    PROVE  /\ budget' \in BudgetType /\ budget'.slots = budget.slots
           /\ \/ budget'.frames = budget.frames /\ sent' = sent
              \/ budget'.frames = budget.frames - 1 /\ sent' = sent + 1 /\ \E t \in Threads : FrameComes(t)
<1>. USE DEF vars, filterVars, historyVars
<1>1. CASE Reader \/ Start \/ UNCHANGED vars
    <2>1. UNCHANGED <<budget, sent>>
        BY <1>1 DEF Reader, AddIf, SetInterest, Allow, AddBlock, Read, NtcRead, Reply, CopySlot, Alert, Count,
                    Save, SaveEnd, Start
    <2>. QED  BY <2>1
<1>2. CASE Exit
    <2>1. Spend("exits") /\ sent' = sent
        BY <1>2 DEF Exit
    <2>. QED  BY <2>1, Spending
<1>3. CASE Administrate
    <2>1. Spend("admin") /\ sent' = sent
        BY <1>3 DEF Administrate
    <2>. QED  BY <2>1, Spending
<1>4. CASE Network
    <2>1. PICK t \in Threads :
              \/ Thread(t)
              \/ FrameComes(t)
              \/ \E cell \in Cells : Dying(t, cell) \/ \E name \in Names : Advert(t, name, cell)
        BY <1>4 DEF Network, FrameComes
    <2>2. CASE Thread(t)
        <3>1. UNCHANGED <<budget, sent>>
            BY <2>2 DEF Thread, CheckIface, Scan, LogFrame, LogLength, MarkDead, SearchName, SetCell, LinkName
        <3>. QED  BY <3>1
    <2>3. CASE FrameComes(t)
        <3>1. Spend("frames") /\ sent' = sent + 1
            BY <2>3 DEF FrameComes, Frame
        <3>. QED  BY <2>3, <3>1, Spending
    <2>4. CASE \E cell \in Cells : Dying(t, cell) \/ \E name \in Names : Advert(t, name, cell)
        <3>1. Spend("ads") /\ sent' = sent
            BY <2>4 DEF Dying, Advert
        <3>. QED  BY <3>1, Spending
    <2>. QED  BY <2>1, <2>2, <2>3, <2>4
<1>. QED  BY <1>1, <1>2, <1>3, <1>4 DEF Next

(* A thread that has a message of an adapter or looks at the lists leaves   *)
(* the queue, the list of stations and the reader alone.                    *)
LooksOn(t) ==
    \/ \E cell \in Cells, arp \in BOOLEAN : CheckIface(t, cell, arp)
    \/ Scan(t) \/ MarkDead(t) \/ SearchName(t) \/ SetCell(t) \/ LinkName(t)
    \/ \E cell \in Cells : Dying(t, cell) \/ \E name \in Names : Advert(t, name, cell)

QueueAlone == UNCHANGED <<pktq, num_packets, pkt_mutex, reply, stored, flushed, clobbered>>
StationsAlone == UNCHANGED <<blocklist, allowed>>
ReaderAlone == UNCHANGED <<tableVars, readerVars, removed, lost, got>>

(* CheckIface, Scan and the steps of an adapter's message leave the queue,  *)
(* the list of stations and the count of frames alone.                      *)
LEMMA OnlyLooks ==
    ASSUME NEW t, LooksOn(t)
    PROVE  /\ QueueAlone /\ StationsAlone /\ sent' = sent /\ num_pkt_missed' = num_pkt_missed
           /\ num_pkt_blocked' \in {num_pkt_blocked, num_pkt_blocked + 1}
<1>. USE DEF QueueAlone, StationsAlone, queueVars, listVars, askVars, historyVars
<1>1. CASE \E cell \in Cells, arp \in BOOLEAN : CheckIface(t, cell, arp)
    BY <1>1 DEF CheckIface
<1>2. CASE Scan(t)
    BY <1>2 DEF Scan
<1>3. CASE MarkDead(t) \/ SearchName(t) \/ SetCell(t) \/ LinkName(t)
    BY <1>3 DEF MarkDead, SearchName, SetCell, LinkName
<1>4. CASE \E cell \in Cells : Dying(t, cell) \/ \E name \in Names : Advert(t, name, cell)
    BY <1>4 DEF Dying, Advert, listVars
<1>. QED  BY <1>1, <1>2, <1>3, <1>4 DEF LooksOn

(* Every step is one of these.                                              *)
Silent == Start \/ Alert \/ Count \/ SaveEnd \/ Exit \/ \E c \in Clients : Save(c)
Orders ==
    \/ AddIf
    \/ Allow
    \/ Administrate /\ \/ \E c \in Clients : DelBlock(c)
                       \/ SetInterest(Interest, FALSE)
                       \/ \E c \in nics : TakeOut(c)
Emptied == Administrate /\ Flush /\ UNCHANGED <<nics, open, removed>>

(* The steps of the system: ntcread's own, what it or the administrator     *)
(* orders, NTC_FLUSH, the two halves of a read, and those of io-net's       *)
(* threads, which leave ntcread alone.                                      *)
LEMMA Steps ==
    ASSUME [Next]_vars
    PROVE  \/ UNCHANGED vars
           \/ Silent \/ Orders \/ Emptied \/ Read \/ Reply
           \/ ReaderAlone /\ \E t \in Threads : FrameComes(t) \/ LogFrame(t) \/ LogLength(t) \/ LooksOn(t)
<1>1. Network => ReaderAlone /\ \E t \in Threads : FrameComes(t) \/ LogFrame(t) \/ LogLength(t) \/ LooksOn(t)
    BY DEF Network, Thread, FrameComes, LooksOn, ReaderAlone
<1>2. Administrate => Orders \/ Emptied
    BY DEF Administrate, Command, Orders, Emptied
<1>. QED  BY <1>1, <1>2 DEF Next, Reader, Silent, Orders

(* What ntcread does by itself (start, count, save, end) leaves the filter  *)
(* alone.                                                                   *)
LEMMA SilentLeaves ==
    Silent => /\ QueueAlone /\ StationsAlone /\ threadVars' = threadVars
              /\ UNCHANGED <<ntc_ifs, asked, num_pkt_missed, num_pkt_blocked, twin, sent, got, removed, nics>>
    BY DEF Silent, Start, Alert, Count, SaveEnd, Exit, Save, QueueAlone, StationsAlone,
           filterVars, queueVars, listVars, threadVars, askVars, historyVars, tableVars

(* What the filter is told about interfaces and stations, and a card that   *)
(* is closed, leave the queue and the packets that were read alone.         *)
LEMMA OrdersLeave ==
    Orders => /\ QueueAlone /\ threadVars' = threadVars
              /\ UNCHANGED <<num_pkt_missed, num_pkt_blocked, twin, sent, got, tlog, known, packet, LOG,
                             ItIsTimeToLog, alert, lost>>
<1>. USE DEF QueueAlone, filterVars, queueVars, threadVars, historyVars, tableVars, readerVars
<1>1. CASE AddIf
    BY <1>1 DEF AddIf, SetInterest
<1>2. CASE Allow
    BY <1>2 DEF Allow, AddBlock
<1>3. CASE Administrate /\ \E c \in Clients : DelBlock(c)
    BY <1>3 DEF Administrate, DelBlock
<1>4. CASE Administrate /\ SetInterest(Interest, FALSE)
    BY <1>4 DEF Administrate, SetInterest
<1>5. CASE Administrate /\ \E c \in nics : TakeOut(c)
    BY <1>5 DEF Administrate, TakeOut
<1>. QED  BY <1>1, <1>2, <1>3, <1>4, <1>5 DEF Orders

(* A frame that comes in leaves the queue and the lists alone.              *)
LEMMA FrameLeaves ==
    ASSUME NEW t, FrameComes(t)
    PROVE  /\ QueueAlone /\ StationsAlone /\ sent' = sent + 1
           /\ UNCHANGED <<ntc_ifs, asked, num_pkt_missed, num_pkt_blocked, twin>>
    BY DEF FrameComes, Frame, QueueAlone, StationsAlone, queueVars, listVars, askVars, historyVars

----------------------------------------------------------------------------
(* At the start nothing is in the queue and ntcread does not run.           *)
LEMMA InitTypes == Init => Types
<1>. SUFFICES ASSUME Init PROVE Types
    OBVIOUS
<1>. USE FilterAssumption, ReaderAssumption DEF Init, FilterInit
<1>1. budget \in BudgetType /\ pkt_log_limit \in Nat \ {0}
    BY DEF BudgetType, pkt_log_limit
<1>2. QueueTypes
    <2>1. pktq \in [Slots -> PacketType]
        BY <1>1 DEF Slots, PacketType, Empty, Address
    <2>2. reply.left = 0 /\ reply \in [next : Nat, left : 0 .. MaxPktRead]
        BY DEF NoReply
    <2>3. Taken = 0 /\ {sent, stored, flushed} \subseteq Nat
        BY DEF Taken, Storing
    <2>5. clobbered \in BOOLEAN
        BY Zenon
    <2>4. {num_packets, num_pkt_missed, num_pkt_blocked} \subseteq Nat
        OBVIOUS
    <2>. HIDE DEF Init, FilterInit
    <2>. QED  BY <1>1, <2>1, <2>2, <2>3, <2>4, <2>5 DEF QueueTypes
<1>3. ThreadTypes
    BY DEF ThreadTypes, HasFrame, HasAdvert, FrameType, AdvertType, DyingType, NoMsg
<1>4. ListTypes
    <2>1. ntc_ifs = <<>> /\ blocklist = <<>> /\ asked = {} /\ twin \in BOOLEAN
        OBVIOUS
    <2>2. allowed \in [Clients -> Nat]
        OBVIOUS
    <2>3. \A S : <<>> \in Seq(S)
        BY EmptySeq
    <2>. HIDE DEF Init, FilterInit
    <2>. QED  BY <2>1, <2>2, <2>3 DEF ListTypes
<1>5. ReaderTypes
    BY DEF ReaderTypes, None
<1>. QED  BY <1>2, <1>3, <1>4, <1>5 DEF Types

(* The types give TypeOK.                                                   *)
LEMMA TypesAreOK == Types => TypeOK
    BY DEF Types, QueueTypes, ThreadTypes, ListTypes, ReaderTypes, IfaceType, Taken, Storing, TypeOK,
           BudgetType, pkt_log_limit

(* A packet is written within the queue, and a reply copied from within.    *)
LEMMA QueueTypesKept == Types /\ [Next]_vars => QueueTypes'
<1>. SUFFICES ASSUME Types, [Next]_vars PROVE QueueTypes'
    OBVIOUS
<1>. USE FilterAssumption
<1>0. QueueTypes /\ ThreadTypes
    BY DEF Types
<1>1. budget' \in BudgetType /\ sent' \in Nat /\ pkt_log_limit' = pkt_log_limit /\ Slots' = Slots
    BY <1>0, BudgetKept DEF QueueTypes, pkt_log_limit, Slots
<1>2. pkt_log_limit \in Nat \ {0} /\ Slots = 0 .. pkt_log_limit - 1 /\ num_packets \in Nat
    BY <1>0 DEF QueueTypes, BudgetType, pkt_log_limit, Slots
<1>3. ASSUME QueueAlone, num_pkt_missed' \in Nat, num_pkt_blocked' \in Nat
      PROVE  QueueTypes'
    BY <1>0, <1>1, <1>3 DEF QueueTypes, QueueAlone, Taken, Storing, PacketType
<1>4. CASE Silent \/ Orders \/ UNCHANGED vars
    <2>1. QueueAlone /\ UNCHANGED <<num_pkt_missed, num_pkt_blocked>>
        BY <1>4, SilentLeaves, OrdersLeave DEF vars, filterVars, queueVars, historyVars, QueueAlone
    <2>. QED  BY <1>0, <1>3, <2>1 DEF QueueTypes
<1>5. CASE Emptied
    <2>1. /\ pkt_mutex = NoOne /\ num_packets' = 0 /\ flushed' = flushed + num_packets
          /\ UNCHANGED <<pktq, num_pkt_missed, num_pkt_blocked, pkt_mutex, reply, stored, clobbered>>
        BY <1>5 DEF Emptied, Flush, Administrate
    <2>. QED  BY <1>0, <1>1, <1>2, <2>1 DEF QueueTypes, Taken, Storing, PacketType
<1>6. CASE Read
    <2>1. /\ pkt_mutex = NoOne /\ num_packets' = num_packets - Npkts
          /\ reply' = [next |-> num_packets', left |-> Npkts]
          /\ UNCHANGED <<pktq, num_pkt_missed, num_pkt_blocked, pkt_mutex, stored, flushed, clobbered>>
        BY <1>6 DEF Read, NtcRead, historyVars
    <2>2. Npkts \in 0 .. MaxPktRead /\ Npkts =< num_packets
        BY <1>2 DEF Npkts
    <2>3. /\ num_packets' \in Nat /\ Taken' =< pkt_log_limit
          /\ reply' \in [next : Nat, left : 0 .. MaxPktRead]
          /\ reply'.next + reply'.left =< pkt_log_limit
        BY <1>0, <1>2, <2>1, <2>2 DEF QueueTypes, Taken, Storing
    <2>. QED  BY <1>0, <1>1, <2>1, <2>3 DEF QueueTypes, PacketType
<1>7. CASE Reply
    <2>1. CASE Serving
        BY <1>0, <1>1, <1>7, <2>1 DEF Reply, CopySlot, Serving, queueVars, historyVars, QueueTypes, Taken,
                                      Storing, PacketType
    <2>2. CASE ~Serving
        <3>1. QueueAlone /\ UNCHANGED <<num_pkt_missed, num_pkt_blocked>>
            BY <1>7, <2>2 DEF Reply, filterVars, queueVars, historyVars, QueueAlone
        <3>. QED  BY <1>0, <1>3, <3>1 DEF QueueTypes
    <2>. QED  BY <2>1, <2>2
<1>8. ASSUME NEW t \in Threads, LogFrame(t) PROVE QueueTypes'
    <2>1. /\ pkt_mutex = NoOne
          /\ msg[t] \in FrameType
          /\ UNCHANGED <<num_packets, num_pkt_blocked, reply, flushed>>
        BY <1>0, <1>8 DEF LogFrame, ThreadTypes, HasFrame
    <2>2. CASE QueueFull
        <3>1. QueueAlone /\ num_pkt_missed' = num_pkt_missed + 1
            BY <1>8, <2>1, <2>2 DEF LogFrame, QueueAlone
        <3>. QED  BY <1>0, <1>3, <2>1, <3>1 DEF QueueTypes
    <2>3. CASE ~QueueFull
        <3>1. /\ num_packets + 1 =< pkt_log_limit
              /\ num_packets \in Slots
            BY <1>2, <2>3 DEF QueueFull
        <3>2. /\ pktq' = [pktq EXCEPT ![num_packets] =
                            [@ EXCEPT !.id = msg[t].id, !.src = msg[t].src, !.dst = msg[t].dst]]
              /\ pkt_mutex' = t /\ stored' = stored + 1 /\ clobbered' \in BOOLEAN
              /\ num_pkt_missed' = num_pkt_missed
            BY <1>8, <2>3 DEF LogFrame
        <3>3. pktq' \in [Slots -> PacketType]
            BY <1>0, <2>1, <3>1, <3>2 DEF QueueTypes, PacketType, FrameType
        <3>. QED  BY <1>0, <1>1, <2>1, <3>1, <3>2, <3>3 DEF QueueTypes, Taken, Storing
    <2>. QED  BY <2>2, <2>3
<1>9. ASSUME NEW t \in Threads, LogLength(t) PROVE QueueTypes'
    <2>1. pkt_mutex = t /\ msg[t] \in FrameType
        BY <1>0, <1>9 DEF LogLength, ThreadTypes, HasFrame
    <2>2. /\ pktq' = [pktq EXCEPT ![num_packets].dir = msg[t].dir]
          /\ num_packets' = num_packets + 1 /\ pkt_mutex' = NoOne
          /\ clobbered' \in BOOLEAN
          /\ UNCHANGED <<num_pkt_missed, num_pkt_blocked, reply, stored, flushed>>
        BY <1>9 DEF LogLength, LogDir
    <2>3. num_packets + 1 =< pkt_log_limit /\ num_packets \in Slots
        BY <1>0, <1>2, <2>1 DEF QueueTypes, Taken, Storing
    <2>4. pktq' \in [Slots -> PacketType]
        BY <1>0, <2>1, <2>2, <2>3 DEF QueueTypes, PacketType, FrameType
    <2>. QED  BY <1>0, <1>1, <2>2, <2>3, <2>4 DEF QueueTypes, Taken, Storing
<1>10. ASSUME NEW t \in Threads, FrameComes(t) \/ LooksOn(t) PROVE QueueTypes'
    <2>1. QueueAlone /\ num_pkt_missed' = num_pkt_missed
          /\ num_pkt_blocked' \in {num_pkt_blocked, num_pkt_blocked + 1}
        BY <1>10, FrameLeaves, OnlyLooks
    <2>. QED  BY <1>0, <1>3, <2>1 DEF QueueTypes
<1>. QED  BY <1>4, <1>5, <1>6, <1>7, <1>8, <1>9, <1>10, Steps

(* The first interface of a name in a list, and 0 if there is none          *)
LEMMA FirstOfName ==
    ASSUME NEW list \in Seq(IfaceType), NEW name
    PROVE  LET k == NameAt(list, name)
           IN /\ k = 0 => \A i \in DOMAIN list : list[i].name # name
              /\ k # 0 => k \in DOMAIN list /\ list[k].name = name
<1>. DEFINE I == {i \in 1 .. Len(list) : list[i].name = name}
<1>1. NameAt(list, name) = IF I # {} THEN Min(I) ELSE 0
    BY DEF NameAt, SelectInSeq
<1>2. DOMAIN list = 1 .. Len(list) /\ Len(list) \in Nat
    BY LenProperties
<1>3. I \subseteq Nat /\ 0 \notin I
    BY <1>2
<1>4. I # {} => Min(I) \in I
    <2>. HIDE DEF I
    <2>. QED  BY <1>3, MinIn
<1>. QED  BY <1>1, <1>2, <1>3, <1>4

(* What a thread has seen of the list is its end                            *)
LEMMA SeenIs ==
    ASSUME ThreadTypes, ListTypes, NEW t \in Threads
    PROVE  /\ Seen(t) \in Seq(IfaceType) /\ Len(Seen(t)) = ifs[t]
           /\ \A k \in 1 .. ifs[t] : Seen(t)[k] = ntc_ifs[Len(ntc_ifs) - ifs[t] + k]
<1>1. ntc_ifs \in Seq(IfaceType) /\ Len(ntc_ifs) \in Nat /\ ifs[t] \in 0 .. Len(ntc_ifs)
    BY LenProperties DEF ThreadTypes, ListTypes
<1>. DEFINE m == Len(ntc_ifs) - ifs[t] + 1
<1>2. m \in 1 .. Len(ntc_ifs) + 1 /\ Len(ntc_ifs) \in m - 1 .. Len(ntc_ifs)
    BY <1>1
<1>3. Seen(t) = SubSeq(ntc_ifs, m, Len(ntc_ifs))
    BY DEF Seen
<1>. QED  BY <1>1, <1>2, <1>3

(* The same interface in the whole list                                     *)
LEMMA FoundAt ==
    ASSUME ThreadTypes, ListTypes, NEW t \in Threads, NEW name
    PROVE  LET k == NameAt(Seen(t), name)
               n == Len(ntc_ifs) - ifs[t] + k
           IN /\ k = 0 => \A i \in DOMAIN ntc_ifs : i > Len(ntc_ifs) - ifs[t] => ntc_ifs[i].name # name
              /\ k # 0 => n \in DOMAIN ntc_ifs /\ n > Len(ntc_ifs) - ifs[t] /\ ntc_ifs[n].name = name
<1>. DEFINE k == NameAt(Seen(t), name)
<1>1. /\ k = 0 => \A i \in DOMAIN Seen(t) : Seen(t)[i].name # name
      /\ k # 0 => k \in DOMAIN Seen(t) /\ Seen(t)[k].name = name
    BY SeenIs, FirstOfName
<1>2. DOMAIN Seen(t) = 1 .. ifs[t] /\ DOMAIN ntc_ifs = 1 .. Len(ntc_ifs)
    BY SeenIs, LenProperties DEF ListTypes
<1>3. Len(ntc_ifs) \in Nat /\ ifs[t] \in 0 .. Len(ntc_ifs)
    BY LenProperties DEF ThreadTypes, ListTypes
<1>4. \A i \in DOMAIN ntc_ifs : i > Len(ntc_ifs) - ifs[t] =>
         /\ i - (Len(ntc_ifs) - ifs[t]) \in 1 .. ifs[t]
         /\ Len(ntc_ifs) - ifs[t] + (i - (Len(ntc_ifs) - ifs[t])) = i
    BY <1>2, <1>3
<1>5. \A i \in DOMAIN ntc_ifs : i > Len(ntc_ifs) - ifs[t] =>
         ntc_ifs[i] = Seen(t)[i - (Len(ntc_ifs) - ifs[t])]
    BY <1>4, SeenIs
<1>. HIDE DEF k
<1>6. k = 0 => \A i \in DOMAIN ntc_ifs : i > Len(ntc_ifs) - ifs[t] => ntc_ifs[i].name # name
    BY <1>1, <1>2, <1>4, <1>5
<1>7. k # 0 => /\ Len(ntc_ifs) - ifs[t] + k \in DOMAIN ntc_ifs
               /\ Len(ntc_ifs) - ifs[t] + k > Len(ntc_ifs) - ifs[t]
               /\ ntc_ifs[Len(ntc_ifs) - ifs[t] + k].name = name
    BY <1>1, <1>2, <1>3, SeenIs
<1>. QED  BY <1>6, <1>7 DEF k

(* What a thread finds by its numbers is in the whole list too.             *)
LEMMA CellFoundAt ==
    ASSUME ThreadTypes, ListTypes, NEW t \in Threads, NEW cell, CellAt(Seen(t), cell) # 0
    PROVE  Len(ntc_ifs) - ifs[t] + CellAt(Seen(t), cell) \in DOMAIN ntc_ifs
<1>. DEFINE k == CellAt(Seen(t), cell)
            I == {i \in 1 .. Len(Seen(t)) : Seen(t)[i].cell = cell}
<1>1. k = IF I # {} THEN Min(I) ELSE 0
    BY DEF CellAt, SelectInSeq
<1>2. Len(Seen(t)) = ifs[t] /\ DOMAIN ntc_ifs = 1 .. Len(ntc_ifs)
    BY SeenIs, LenProperties DEF ListTypes
<1>3. Len(ntc_ifs) \in Nat /\ ifs[t] \in 0 .. Len(ntc_ifs)
    BY LenProperties DEF ThreadTypes, ListTypes
<1>4. I \subseteq Nat
    BY <1>2, <1>3
<1>5. I # {} => Min(I) \in I
    <2>. HIDE DEF I
    <2>. QED  BY <1>4, MinIn
<1>6. k \in 1 .. ifs[t]
    BY <1>1, <1>2, <1>5
<1>. HIDE DEF k
<1>7. Len(ntc_ifs) - ifs[t] + k \in DOMAIN ntc_ifs
    BY <1>2, <1>3, <1>6
<1>. QED  BY <1>7 DEF k

(* The list of interfaces changes in two ways: one of its elements is       *)
(* written, ...                                                             *)
Writes(n, i) ==
    /\ n \in DOMAIN ntc_ifs /\ ntc_ifs' = [ntc_ifs EXCEPT ![n] = i]
    /\ i \in IfaceType /\ i.name = ntc_ifs[n].name

(* Then the list keeps its length and its names.                            *)
LEMMA WritesKeep ==
    ASSUME ListTypes, NEW n, NEW i \in IfaceType, Writes(n, i)
    PROVE  /\ ntc_ifs' \in Seq(IfaceType) /\ Len(ntc_ifs') = Len(ntc_ifs)
           /\ DOMAIN ntc_ifs' = DOMAIN ntc_ifs
           /\ \A k \in DOMAIN ntc_ifs : /\ ntc_ifs'[k].name = ntc_ifs[k].name
                                        /\ ntc_ifs'[k] = IF k = n THEN i ELSE ntc_ifs[k]
<1>1. ntc_ifs \in Seq(IfaceType)
    BY DEF ListTypes
<1>2. ntc_ifs' \in Seq(IfaceType) /\ Len(ntc_ifs') = Len(ntc_ifs) /\ DOMAIN ntc_ifs' = DOMAIN ntc_ifs
    BY <1>1, LenProperties, ExceptSeq DEF Writes
<1>3. \A k \in DOMAIN ntc_ifs : ntc_ifs'[k] = IF k = n THEN i ELSE ntc_ifs[k]
    BY <1>1 DEF Writes
<1>. QED  BY <1>2, <1>3 DEF Writes

(* ... or one is put in front of it.                                        *)
LEMMA PutsInFront ==
    ASSUME NEW S, NEW s \in Seq(S), NEW e \in S
    PROVE  /\ <<e>> \o s \in Seq(S) /\ Len(<<e>> \o s) = Len(s) + 1
           /\ DOMAIN s = 1 .. Len(s) /\ DOMAIN (<<e>> \o s) = 1 .. Len(s) + 1
           /\ Len(s) \in Nat
           /\ (<<e>> \o s)[1] = e
           /\ \A k \in DOMAIN s : (<<e>> \o s)[k + 1] = s[k]
<1>1. <<e>> \in Seq(S) /\ Len(<<e>>) = 1 /\ <<e>>[1] = e
    OBVIOUS
<1>2. <<e>> \o s \in Seq(S) /\ Len(<<e>> \o s) = Len(s) + 1 /\ Len(s) \in Nat
    BY <1>1, ConcatProperties, LenProperties
<1>3. DOMAIN s = 1 .. Len(s) /\ DOMAIN (<<e>> \o s) = 1 .. Len(s) + 1
    BY <1>2, LenProperties
<1>4. \A i \in 1 .. Len(s) + 1 : (<<e>> \o s)[i] = IF i =< 1 THEN <<e>>[i] ELSE s[i - 1]
    BY <1>1, <1>2, ConcatProperties
<1>5. (<<e>> \o s)[1] = e
    BY <1>1, <1>2, <1>4
<1>6. \A k \in DOMAIN s : (<<e>> \o s)[k + 1] = s[k]
    BY <1>2, <1>3, <1>4
<1>. QED  BY <1>2, <1>3, <1>5, <1>6

(* Every step leaves the list of interfaces, writes one of them but leaves  *)
(* its interest (one that has died is no longer asked for), is told of its  *)
(* interest, or adds one.                                                   *)
Interests(name, interest) ==
    LET k == NameAt(ntc_ifs, name)
    IN /\ k # 0 /\ Writes(k, [ntc_ifs[k] EXCEPT !.ofinterest = interest])
       /\ asked' = IF interest THEN asked \cup {name} ELSE asked \ {name}

ListStays ==
    \/ UNCHANGED <<asked, ntc_ifs>>
    \/ \E n \in DOMAIN ntc_ifs, i \in IfaceType :
          /\ Writes(n, i) /\ i.ofinterest = ntc_ifs[n].ofinterest
          /\ asked' \in {asked, asked \ {ntc_ifs[n].name}}

(* An announcement or a death changes neither the name of an interface nor  *)
(* its interest.                                                            *)
LEMMA Renewing ==
    ASSUME ListTypes, NEW n \in DOMAIN ntc_ifs, NEW cell \in Cells \cup {NoCell}
    PROVE  LET i == ntc_ifs[n]
           IN \A j \in {[i EXCEPT !.dead = TRUE], Renewed(i), [i EXCEPT !.cell = cell],
                        [Renewed(i) EXCEPT !.cell = cell]} :
                 j \in IfaceType /\ j.name = i.name /\ j.ofinterest = i.ofinterest
<1>. DEFINE i == ntc_ifs[n]
<1>1. i \in IfaceType
    BY LenProperties, ElementOfSeq DEF ListTypes
<1>. HIDE DEF i
<1>2. \A j : (\E d \in BOOLEAN : j = [i EXCEPT !.dead = d]) =>
               j \in IfaceType /\ j.name = i.name /\ j.ofinterest = i.ofinterest
    BY <1>1 DEF IfaceType
<1>3. \A j \in IfaceType : [j EXCEPT !.cell = cell] \in IfaceType
                          /\ [j EXCEPT !.cell = cell].name = j.name
                          /\ [j EXCEPT !.cell = cell].ofinterest = j.ofinterest
    BY DEF IfaceType
<1>4. Renewed(i) = [i EXCEPT !.dead = FALSE]
    BY DEF Renewed
<1>5. \E d \in BOOLEAN : Renewed(i) = [i EXCEPT !.dead = d]
    BY <1>4, Zenon
<1>6. \E d \in BOOLEAN : [i EXCEPT !.dead = TRUE] = [i EXCEPT !.dead = d]
    BY Zenon
<1>. HIDE DEF IfaceType
<1>7. Renewed(i) \in IfaceType /\ Renewed(i).name = i.name /\ Renewed(i).ofinterest = i.ofinterest
    BY <1>2, <1>5
<1>. DEFINE a == [i EXCEPT !.dead = TRUE]
            b == [i EXCEPT !.cell = cell]
            e == [Renewed(i) EXCEPT !.cell = cell]
<1>8. a \in IfaceType /\ a.name = i.name /\ a.ofinterest = i.ofinterest
    BY <1>2, <1>6
<1>9. b \in IfaceType /\ b.name = i.name /\ b.ofinterest = i.ofinterest
    BY <1>1, <1>3
<1>10. e \in IfaceType /\ e.name = i.name /\ e.ofinterest = i.ofinterest
    BY <1>3, <1>7
<1>. HIDE DEF a, b, e
<1>11. \A j \in {a, Renewed(i), b, e} : j \in IfaceType /\ j.name = i.name /\ j.ofinterest = i.ofinterest
    BY <1>7, <1>8, <1>9, <1>10
<1>. QED  BY <1>11 DEF i, a, b, e

(* NTC_ADDIF and NTC_DELIF do nothing, or mark the first interface of the   *)
(* name.                                                                    *)
LEMMA Interesting ==
    ASSUME ListTypes, NEW interest \in BOOLEAN, NEW name, SetInterest(name, interest)
    PROVE  UNCHANGED <<ntc_ifs, asked>> \/ Interests(name, interest)
<1>. DEFINE k == NameAt(ntc_ifs, name)
<1>1. CASE k = 0
    BY <1>1 DEF SetInterest
<1>2. CASE k # 0
    <2>1. k \in DOMAIN ntc_ifs
        BY <1>2, FirstOfName DEF ListTypes
    <2>2. ntc_ifs[k] \in IfaceType
        BY <2>1, LenProperties, ElementOfSeq DEF ListTypes
    <2>3. /\ ntc_ifs' = [ntc_ifs EXCEPT ![k].ofinterest = interest]
          /\ asked' = IF interest THEN asked \cup {name} ELSE asked \ {name}
        BY <1>2 DEF SetInterest
    <2>. HIDE DEF k
    <2>4. Writes(k, [ntc_ifs[k] EXCEPT !.ofinterest = interest])
        BY <2>1, <2>2, <2>3 DEF Writes, IfaceType
    <2>. QED  BY <1>2, <2>3, <2>4 DEF Interests, k
<1>. QED  BY <1>1, <1>2

(* No other step changes the list of interfaces or the names that were      *)
(* asked for.                                                               *)
LEMMA ListSteps ==
    ASSUME Types, [Next]_vars
    PROVE  \/ ListStays
           \/ \E interest \in BOOLEAN : Interests(Interest, interest)
           \/ asked' = asked /\ \E t \in Threads : LinkName(t)
<1>0. ThreadTypes /\ ListTypes
    BY DEF Types
<1>1. ASSUME NEW t \in Threads, SearchName(t) PROVE ListStays
    <2>. DEFINE k == NameAt(Seen(t), msg[t].name)
                n == Len(ntc_ifs) - ifs[t] + k
    <2>1. CASE k = 0
        BY <1>1, <2>1 DEF SearchName, ListStays, askVars
    <2>2. CASE k # 0
        <3>1. n \in DOMAIN ntc_ifs
            BY <1>0, <2>2, FoundAt
        <3>2. asked' = asked
            BY <1>1 DEF SearchName, askVars
        <3>3. ntc_ifs' = [ntc_ifs EXCEPT ![n] = Renewed(@)] \/ ntc_ifs' = [ntc_ifs EXCEPT ![n].cell = NoCell]
            BY <1>1, <2>2 DEF SearchName
        <3>. HIDE DEF n
        <3>4. \/ ntc_ifs' = [ntc_ifs EXCEPT ![n] = Renewed(ntc_ifs[n])]
              \/ ntc_ifs' = [ntc_ifs EXCEPT ![n] = [ntc_ifs[n] EXCEPT !.cell = NoCell]]
            BY <3>3
        <3>. DEFINE i == Renewed(ntc_ifs[n])
                    j == [ntc_ifs[n] EXCEPT !.cell = NoCell]
        <3>5. \A h \in {i, j} : /\ h \in IfaceType /\ h.name = ntc_ifs[n].name
                                /\ h.ofinterest = ntc_ifs[n].ofinterest
            <4>1. NoCell \in Cells \cup {NoCell}
                OBVIOUS
            <4>. QED  BY <1>0, <3>1, <4>1, Renewing
        <3>6. ntc_ifs' = [ntc_ifs EXCEPT ![n] = i] \/ ntc_ifs' = [ntc_ifs EXCEPT ![n] = j]
            BY <3>4
        <3>. HIDE DEF i, j
        <3>. QED  BY <3>1, <3>2, <3>5, <3>6 DEF ListStays, Writes
    <2>. QED  BY <2>1, <2>2
<1>2. ASSUME NEW t \in Threads, SetCell(t) PROVE ListStays
    <2>. DEFINE n == ifs[t]
    <2>1. n \in DOMAIN ntc_ifs /\ msg[t].cell \in Cells
        BY <1>0, <1>2, LenProperties DEF SetCell, ThreadTypes, ListTypes, HasAdvert, AdvertType
    <2>2. ntc_ifs' = [ntc_ifs EXCEPT ![n] = [Renewed(ntc_ifs[n]) EXCEPT !.cell = msg[t].cell]] /\ asked' = asked
        BY <1>2 DEF SetCell, askVars
    <2>3. PICK m \in DOMAIN ntc_ifs, c \in Cells \cup {NoCell} : m = n /\ c = msg[t].cell
        BY <2>1
    <2>4. PICK i : i = [Renewed(ntc_ifs[m]) EXCEPT !.cell = c]
        OBVIOUS
    <2>5. i \in IfaceType /\ i.name = ntc_ifs[m].name /\ i.ofinterest = ntc_ifs[m].ofinterest
        <3>1. ListTypes
            BY <1>0
        <3>. QED  BY ONLY <2>4, <3>1, Renewing
    <2>6. m \in DOMAIN ntc_ifs /\ ntc_ifs' = [ntc_ifs EXCEPT ![m] = i]
        BY <2>1, <2>2, <2>3, <2>4
    <2>. QED  BY ONLY <2>2, <2>5, <2>6 DEF ListStays, Writes
<1>3. ASSUME NEW t \in Threads, MarkDead(t) PROVE ListStays
    <2>. DEFINE k == CellAt(Seen(t), msg[t].cell)
                n == Len(ntc_ifs) - ifs[t] + k
    <2>1. CASE k = 0
        BY <1>3, <2>1 DEF MarkDead, ListStays
    <2>2. CASE k # 0
        <3>1. n \in DOMAIN ntc_ifs
            BY <1>0, <2>2, CellFoundAt
        <3>2. ntc_ifs' = [ntc_ifs EXCEPT ![n].dead = TRUE] /\ asked' = asked \ {ntc_ifs[n].name}
            BY <1>3, <2>2 DEF MarkDead
        <3>. HIDE DEF n
        <3>3. PICK i : i = [ntc_ifs[n] EXCEPT !.dead = TRUE]
            OBVIOUS
        <3>4. NoCell \in Cells \cup {NoCell}
            OBVIOUS
        <3>5. i \in IfaceType /\ i.name = ntc_ifs[n].name /\ i.ofinterest = ntc_ifs[n].ofinterest
            BY <1>0, <3>1, <3>3, <3>4, Renewing
        <3>6. ntc_ifs' = [ntc_ifs EXCEPT ![n] = i]
            BY <3>2, <3>3
        <3>. QED  BY <3>1, <3>2, <3>5, <3>6 DEF ListStays, Writes
    <2>. QED  BY <2>1, <2>2
<1>4. ASSUME NEW t \in Threads, LooksOn(t) PROVE ListStays \/ (asked' = asked /\ LinkName(t))
    <2>1. CASE \/ \E cell \in Cells, arp \in BOOLEAN : CheckIface(t, cell, arp)
               \/ Scan(t)
               \/ \E cell \in Cells : Dying(t, cell) \/ \E name \in Names : Advert(t, name, cell)
        BY <2>1 DEF CheckIface, Scan, Dying, Advert, ListStays, listVars, askVars
    <2>2. CASE LinkName(t)
        BY <2>2 DEF LinkName, askVars
    <2>. QED  BY <1>1, <1>2, <1>3, <1>4, <2>1, <2>2 DEF LooksOn
<1>5. CASE Silent \/ Emptied \/ Read \/ Reply \/ UNCHANGED vars
    <2>1. UNCHANGED <<ntc_ifs, asked>>
        <3>1. CASE Silent \/ UNCHANGED vars
            BY <3>1, SilentLeaves DEF vars, filterVars, listVars, askVars, StationsAlone
        <3>2. CASE Emptied
            BY <3>2 DEF Emptied, Flush, Administrate, listVars, askVars
        <3>3. CASE Read \/ Reply
            BY <3>3 DEF Read, NtcRead, Reply, CopySlot, filterVars, listVars, askVars
        <3>. QED  BY <1>5, <3>1, <3>2, <3>3
    <2>. QED  BY <2>1 DEF ListStays
<1>6. CASE Orders
    <2>1. CASE AddIf
        BY <1>0, <2>1, Interesting DEF AddIf, ListStays
    <2>2. CASE Allow \/ \E c \in Clients : DelBlock(c)
        BY <2>2 DEF Allow, AddBlock, DelBlock, ListStays, filterVars, listVars, askVars
    <2>3. CASE SetInterest(Interest, FALSE)
        BY <1>0, <2>3, Interesting DEF ListStays
    <2>4. CASE \E c \in nics : TakeOut(c)
        BY <2>4 DEF TakeOut, ListStays, listVars, askVars
    <2>. QED  BY <1>6, <2>1, <2>2, <2>3, <2>4 DEF Orders
<1>7. ASSUME NEW t \in Threads, FrameComes(t) \/ LogFrame(t) \/ LogLength(t) PROVE ListStays
    BY <1>7 DEF FrameComes, Frame, LogFrame, LogLength, ListStays, listVars, askVars
<1>. QED  BY <1>4, <1>5, <1>6, <1>7, Steps

(* The list is a list of interfaces, and it does not get shorter.           *)
Longer == ntc_ifs' \in Seq(IfaceType) /\ Len(ntc_ifs) \in Nat /\ Len(ntc_ifs') \in Nat
          /\ Len(ntc_ifs) =< Len(ntc_ifs') /\ asked' \subseteq Names

(* That is true of every step, for no interface is ever taken out.          *)
LEMMA ListGrows == Types /\ [Next]_vars => Longer
<1>. SUFFICES ASSUME Types, [Next]_vars PROVE Longer
    OBVIOUS
<1>0. ThreadTypes /\ ListTypes /\ Len(ntc_ifs) \in Nat
    BY LenProperties DEF Types, ListTypes
<1>1. ASSUME NEW n, NEW i \in IfaceType, Writes(n, i), asked' \subseteq Names PROVE Longer
    BY <1>0, <1>1, WritesKeep DEF Longer
<1>2. CASE ListStays
    BY <1>0, <1>1, <1>2 DEF ListStays, Longer, ListTypes
<1>3. ASSUME NEW interest \in BOOLEAN, Interests(Interest, interest) PROVE Longer
    <2>1. asked' \subseteq Names
        BY <1>0, <1>3, ReaderAssumption DEF Interests, ListTypes
    <2>. QED  BY <1>1, <1>3, <2>1 DEF Interests, Writes
<1>4. ASSUME NEW t \in Threads, LinkName(t), asked' = asked PROVE Longer
    <2>. DEFINE e == [name |-> msg[t].name, cell |-> msg[t].cell, dead |-> FALSE, ofinterest |-> FALSE]
    <2>1. e \in IfaceType
        BY <1>0, <1>4 DEF LinkName, ThreadTypes, HasAdvert, AdvertType, IfaceType
    <2>2. ntc_ifs' = <<e>> \o ntc_ifs /\ ntc_ifs \in Seq(IfaceType) /\ asked \subseteq Names
        BY <1>0, <1>4 DEF LinkName, ListTypes
    <2>. HIDE DEF e
    <2>. QED  BY <1>0, <1>4, <2>1, <2>2, PutsInFront DEF Longer
<1>. QED  BY <1>2, <1>3, <1>4, ListSteps

(* The mutex is held by the thread that has written half a packet, and a    *)
(* thread goes through its places with what it came with.                   *)
LEMMA ThreadTypesKept == Types /\ [Next]_vars => ThreadTypes'
<1>. SUFFICES ASSUME Types, [Next]_vars PROVE ThreadTypes'
    OBVIOUS
<1>. USE FilterAssumption
<1>0. QueueTypes /\ ThreadTypes /\ ListTypes /\ Longer
    BY ListGrows DEF Types
<1>. DEFINE l == Len(ntc_ifs)
            longer == Len(ntc_ifs')
            Goes(u) == /\ HasFrame(u) => msg[u] \in FrameType
                       /\ HasAdvert(u) => msg[u] \in AdvertType
                       /\ pkt_mutex = u <=> pc[u] = "length"
                       /\ pc[u] = "cell" => ifs[u] # 0
<1>a. l \in Nat /\ longer \in Nat /\ l =< longer
    BY <1>0 DEF Longer
<1>b. \A n \in 0 .. l : n \in 0 .. longer
    BY <1>a
<1>c. ifs \in [Threads -> 0 .. longer]
    BY <1>0, <1>b DEF ThreadTypes
<1>d. \A u \in Threads : Goes(u)
    BY <1>0 DEF ThreadTypes
<1>e. ASSUME pkt_mutex' \in Threads \cup {NoOne},
             pc' \in [Threads -> {"idle", "iface", "scan", "log", "length", "dying", "advert", "link", "cell"}],
             msg' \in [Threads -> FrameType \cup AdvertType \cup DyingType \cup {NoMsg}],
             ifs' \in [Threads -> 0 .. longer],
             \A u \in Threads : Goes(u)'
      PROVE  ThreadTypes'
    BY <1>e DEF ThreadTypes
<1>f. /\ pkt_mutex \in Threads \cup {NoOne}
      /\ pc \in [Threads -> {"idle", "iface", "scan", "log", "length", "dying", "advert", "link", "cell"}]
      /\ msg \in [Threads -> FrameType \cup AdvertType \cup DyingType \cup {NoMsg}]
    BY <1>0 DEF ThreadTypes
<1>. HIDE DEF longer, l
<1>1. ASSUME threadVars' = threadVars, pkt_mutex' = pkt_mutex
      PROVE  ThreadTypes'
    <2>1. \A u \in Threads : Goes(u)'
        BY <1>d, <1>1 DEF threadVars, HasFrame, HasAdvert
    <2>. HIDE DEF Goes
    <2>. QED  BY <1>1, <1>c, <1>e, <1>f, <2>1 DEF threadVars
<1>2. CASE Silent \/ Orders \/ Emptied \/ Read \/ Reply \/ UNCHANGED vars
    <2>1. threadVars' = threadVars /\ pkt_mutex' = pkt_mutex
        <3>1. CASE Silent \/ Orders \/ UNCHANGED vars
            BY <3>1, SilentLeaves, OrdersLeave DEF vars, filterVars, queueVars, QueueAlone
        <3>2. CASE Emptied
            BY <3>2 DEF Emptied, Flush, Administrate
        <3>3. CASE Read
            BY <3>3 DEF Read, NtcRead
        <3>4. CASE Reply
            BY <3>4 DEF Reply, CopySlot, filterVars, queueVars
        <3>. QED  BY <1>2, <3>1, <3>2, <3>3, <3>4
    <2>. QED  BY <1>1, <2>1
<1>3. ASSUME NEW t \in Threads, Done(t),
             pkt_mutex' = IF pc[t] = "length" THEN NoOne ELSE pkt_mutex
      PROVE  ThreadTypes'
    <2>1. /\ pc' = [pc EXCEPT ![t] = "idle"]
          /\ msg' = [msg EXCEPT ![t] = NoMsg]
          /\ ifs' = [ifs EXCEPT ![t] = 0]
        BY <1>3 DEF Done
    <2>2. ifs' \in [Threads -> 0 .. longer] /\ pkt_mutex' \in Threads \cup {NoOne}
        BY <1>3, <1>a, <1>c, <1>f, <2>1
    <2>3. \A u \in Threads : Goes(u)'
        BY <1>d, <1>f, <1>c, <1>3, <2>1 DEF HasFrame, HasAdvert
    <2>4. /\ pc' \in [Threads -> {"idle", "iface", "scan", "log", "length", "dying", "advert", "link", "cell"}]
          /\ msg' \in [Threads -> FrameType \cup AdvertType \cup DyingType \cup {NoMsg}]
        BY <1>f, <2>1
    <2>. HIDE DEF Goes
    <2>. QED  BY <1>e, <2>2, <2>3, <2>4
<1>4. ASSUME NEW t \in Threads, NEW to, NEW n \in 0 .. longer,
             pc' = [pc EXCEPT ![t] = to], msg' = msg, ifs' = [ifs EXCEPT ![t] = n],
             \/ pc[t] \in {"iface", "scan", "log"} /\ to \in {"scan", "log"} /\ pkt_mutex' = pkt_mutex
             \/ pc[t] = "log" /\ to = "length" /\ pkt_mutex = NoOne /\ pkt_mutex' = t
             \/ pc[t] = "advert" /\ to = "link" /\ pkt_mutex' = pkt_mutex
             \/ pc[t] = "advert" /\ to = "cell" /\ n # 0 /\ pkt_mutex' = pkt_mutex
      PROVE  ThreadTypes'
    <2>1. /\ ifs' \in [Threads -> 0 .. longer] /\ pkt_mutex' \in Threads \cup {NoOne}
          /\ msg' \in [Threads -> FrameType \cup AdvertType \cup DyingType \cup {NoMsg}]
        BY <1>4, <1>c, <1>f
    <2>2. \A u \in Threads : Goes(u)'
        BY <1>d, <1>f, <1>c, <1>4 DEF HasFrame, HasAdvert
    <2>3. pc' \in [Threads -> {"idle", "iface", "scan", "log", "length", "dying", "advert", "link", "cell"}]
        BY <1>f, <1>4
    <2>. HIDE DEF Goes
    <2>. QED  BY <1>e, <2>1, <2>2, <2>3
<1>5. ASSUME NEW t \in Threads, NEW i, pc[t] = "idle", pkt_mutex' = pkt_mutex,
             \/ i \in FrameType /\ pc' = [pc EXCEPT ![t] = "iface"]
             \/ i \in AdvertType /\ pc' = [pc EXCEPT ![t] = "advert"]
             \/ i \in DyingType /\ pc' = [pc EXCEPT ![t] = "dying"],
             msg' = [msg EXCEPT ![t] = i], ifs' = [ifs EXCEPT ![t] = l]
      PROVE  ThreadTypes'
    <2>1. /\ ifs' \in [Threads -> 0 .. longer] /\ pkt_mutex' \in Threads \cup {NoOne}
          /\ msg' \in [Threads -> FrameType \cup AdvertType \cup DyingType \cup {NoMsg}]
        BY <1>5, <1>a, <1>c, <1>f
    <2>2. \A u \in Threads : Goes(u)'
        BY <1>d, <1>f, <1>c, <1>5 DEF HasFrame, HasAdvert
    <2>3. pc' \in [Threads -> {"idle", "iface", "scan", "log", "length", "dying", "advert", "link", "cell"}]
        BY <1>f, <1>5
    <2>. HIDE DEF Goes
    <2>. QED  BY <1>e, <2>1, <2>2, <2>3
<1>6. ASSUME NEW t \in Threads, FrameComes(t) PROVE ThreadTypes'
    <2>1. PICK c \in Clients, dir \in {"in", "out"} : Frame(t, c, dir)
        BY <1>6 DEF FrameComes
    <2>2. [kind |-> "frame", id |-> sent + 1, dir |-> dir,
           src |-> IF dir = "in" THEN c ELSE Server, dst |-> IF dir = "in" THEN Server ELSE c] \in FrameType
        BY <1>0 DEF FrameType, Address, QueueTypes
    <2>. QED  BY <1>5, <2>1, <2>2 DEF Frame, queueVars, l
<1>7. ASSUME NEW t \in Threads, LogFrame(t) PROVE ThreadTypes'
    <2>1. ifs[t] \in 0 .. longer /\ ifs = [ifs EXCEPT ![t] = ifs[t]]
        BY <1>c
    <2>. QED  BY <1>3, <1>4, <1>7, <2>1 DEF LogFrame
<1>8. ASSUME NEW t \in Threads, LogLength(t) PROVE ThreadTypes'
    BY <1>3, <1>8 DEF LogLength
<1>9. ASSUME NEW t \in Threads, LooksOn(t) PROVE ThreadTypes'
    <2>0. pkt_mutex' = pkt_mutex
        BY <1>9, OnlyLooks DEF QueueAlone
    <2>a. ifs[t] \in 0 .. longer /\ ifs = [ifs EXCEPT ![t] = ifs[t]]
        BY <1>c
    <2>1. ASSUME NEW cell \in Cells, NEW arp \in BOOLEAN, CheckIface(t, cell, arp) PROVE ThreadTypes'
        BY <1>3, <1>4, <2>0, <2>a, <2>1 DEF CheckIface
    <2>2. CASE Scan(t)
        BY <1>3, <1>4, <2>0, <2>a, <2>2 DEF Scan
    <2>3. CASE SearchName(t)
        <3>. DEFINE k == NameAt(Seen(t), msg[t].name)
                    n == Len(ntc_ifs) - ifs[t] + k
        <3>1. pc[t] = "advert"
            BY <2>3 DEF SearchName
        <3>2. CASE Done(t)
            BY <1>3, <2>0, <3>1, <3>2
        <3>3. CASE ~Done(t)
            <4>1. \/ pc' = [pc EXCEPT ![t] = "link"] /\ UNCHANGED <<msg, ifs>>
                  \/ pc' = [pc EXCEPT ![t] = "cell"] /\ msg' = msg /\ k # 0 /\ ifs' = [ifs EXCEPT ![t] = n]
                BY <2>3, <3>3 DEF SearchName
            <4>2. k # 0 => n \in 0 .. longer /\ n # 0
                <5>1. k # 0 => n \in DOMAIN ntc_ifs
                    BY <1>0, FoundAt
                <5>2. DOMAIN ntc_ifs = 1 .. l
                    BY <1>0, LenProperties DEF ListTypes, l
                <5>. HIDE DEF n, k
                <5>. QED  BY <1>a, <5>1, <5>2
            <4>. HIDE DEF n, k
            <4>. QED  BY <1>4, <2>0, <2>a, <3>1, <4>1, <4>2
        <3>. QED  BY <3>2, <3>3
    <2>4. CASE MarkDead(t) \/ SetCell(t) \/ LinkName(t)
        BY <1>3, <2>0, <2>4 DEF MarkDead, SetCell, LinkName
    <2>5. ASSUME NEW cell \in Cells, Dying(t, cell) PROVE ThreadTypes'
        <3>1. [kind |-> "dying", cell |-> cell] \in DyingType
            BY DEF DyingType
        <3>. QED  BY <1>5, <2>0, <2>5, <3>1 DEF Dying, l
    <2>6. ASSUME NEW cell \in Cells, NEW name \in Names, Advert(t, name, cell) PROVE ThreadTypes'
        <3>1. [kind |-> "advert", name |-> name, cell |-> cell] \in AdvertType
            BY DEF AdvertType
        <3>. QED  BY <1>5, <2>0, <2>6, <3>1 DEF Advert, l
    <2>. QED  BY <1>9, <2>1, <2>2, <2>3, <2>4, <2>5, <2>6 DEF LooksOn
<1>. QED  BY <1>2, <1>6, <1>7, <1>8, <1>9, Steps

(* Every step leaves the list of stations, adds one in front or takes one   *)
(* out with those in front of it.                                           *)
LEMMA StationSteps ==
    ASSUME Types, [Next]_vars
    PROVE  \/ UNCHANGED <<blocklist, allowed>>
           \/ \E c \in Clients : AddBlock(c) \/ DelBlock(c)
<1>1. CASE Silent \/ UNCHANGED vars
    BY <1>1, SilentLeaves DEF vars, filterVars, listVars, askVars, StationsAlone
<1>2. CASE Emptied \/ Read \/ Reply
    <2>1. UNCHANGED <<blocklist, allowed>>
        BY <1>2 DEF Emptied, Flush, Administrate, Read, NtcRead, Reply, CopySlot, filterVars, listVars, askVars
    <2>. QED  BY <2>1
<1>3. CASE Orders
    <2>1. CASE AddIf \/ SetInterest(Interest, FALSE) \/ \E c \in nics : TakeOut(c)
        BY <2>1 DEF AddIf, SetInterest, TakeOut, listVars, askVars
    <2>2. CASE Allow
        BY <2>2 DEF Allow, Types, ReaderTypes, filterVars, listVars, askVars
    <2>. QED  BY <1>3, <2>1, <2>2 DEF Orders
<1>4. ASSUME NEW t \in Threads, FrameComes(t) \/ LogFrame(t) \/ LogLength(t) \/ LooksOn(t)
      PROVE  UNCHANGED <<blocklist, allowed>>
    BY <1>4, FrameLeaves, OnlyLooks DEF LogFrame, LogLength, listVars, askVars, StationsAlone
<1>. QED  BY <1>1, <1>2, <1>3, <1>4, Steps

(* The place of the first entry of an address, and what is left behind it   *)
FirstAt(c) == SelectInSeq(blocklist, LAMBDA b : b = c)

(* DelBlock finds the first entry of an address if there is one.            *)
LEMMA FirstOfAddress ==
    ASSUME blocklist \in Seq(Clients), NEW c
    PROVE  LET k == FirstAt(c)
           IN /\ k = 0 => \A i \in DOMAIN blocklist : blocklist[i] # c
              /\ k # 0 => k \in DOMAIN blocklist /\ blocklist[k] = c
<1>. DEFINE k == FirstAt(c)
            I == {i \in 1 .. Len(blocklist) : blocklist[i] = c}
<1>1. k = IF I # {} THEN Min(I) ELSE 0
    BY DEF FirstAt, SelectInSeq
<1>2. DOMAIN blocklist = 1 .. Len(blocklist) /\ Len(blocklist) \in Nat
    BY LenProperties
<1>3. I \subseteq Nat /\ 0 \notin I
    BY <1>2
<1>4. I # {} => Min(I) \in I
    <2>. HIDE DEF I
    <2>. QED  BY <1>3, MinIn
<1>. HIDE DEF k
<1>5. /\ k = 0 => \A i \in DOMAIN blocklist : blocklist[i] # c
      /\ k # 0 => k \in DOMAIN blocklist /\ blocklist[k] = c
    BY <1>1, <1>2, <1>3, <1>4
<1>. QED  BY <1>5 DEF k

(* What DelBlock leaves is the end of the list.                             *)
LEMMA AfterDelIs ==
    ASSUME blocklist \in Seq(Clients), NEW k \in DOMAIN blocklist
    PROVE  /\ AfterDel(k) \in Seq(Clients) /\ Len(AfterDel(k)) = Len(blocklist) - k
           /\ \A i \in 1 .. Len(blocklist) - k : AfterDel(k)[i] = blocklist[k + i]
<1>1. DOMAIN blocklist = 1 .. Len(blocklist) /\ Len(blocklist) \in Nat
    BY LenProperties
<1>2. k + 1 \in 1 .. Len(blocklist) + 1 /\ Len(blocklist) \in k .. Len(blocklist)
    BY <1>1
<1>. QED  BY <1>1, <1>2 DEF AfterDel

(* NTC_ADDBLOCK and NTC_DELBLOCK keep the list of stations a list of        *)
(* stations.                                                                *)
LEMMA StationsTyped ==
    ASSUME Types, [Next]_vars
    PROVE  blocklist' \in Seq(Clients) /\ allowed' \in [Clients -> Nat]
<1>1. blocklist \in Seq(Clients) /\ allowed \in [Clients -> Nat]
    BY DEF Types, ListTypes
<1>2. ASSUME NEW c \in Clients, AddBlock(c)
      PROVE  blocklist' \in Seq(Clients) /\ allowed' \in [Clients -> Nat]
    BY <1>1, <1>2, PutsInFront DEF AddBlock
<1>3. ASSUME NEW c \in Clients, DelBlock(c)
      PROVE  blocklist' \in Seq(Clients) /\ allowed' \in [Clients -> Nat]
    <2>. DEFINE k == FirstAt(c)
    <2>1. blocklist' = IF k = 0 THEN blocklist ELSE AfterDel(k)
        BY <1>3 DEF DelBlock, FirstAt
    <2>2. k # 0 => k \in DOMAIN blocklist
        BY <1>1, FirstOfAddress
    <2>3. allowed' = [allowed EXCEPT ![c] = IF allowed[c] = 0 THEN 0 ELSE allowed[c] - 1]
        BY <1>3 DEF DelBlock
    <2>4. (IF allowed[c] = 0 THEN 0 ELSE allowed[c] - 1) \in Nat
        BY <1>1
    <2>. HIDE DEF k
    <2>5. allowed' \in [Clients -> Nat]
        BY <1>1, <2>3, <2>4
    <2>. QED  BY <1>1, <2>1, <2>2, <2>5, AfterDelIs
<1>. QED  BY <1>1, <1>2, <1>3, StationSteps

(* No step leaves the types of the two lists.                               *)
LEMMA ListTypesKept == Types /\ [Next]_vars => ListTypes'
<1>. SUFFICES ASSUME Types, [Next]_vars PROVE ListTypes'
    OBVIOUS
<1>1. Longer /\ blocklist' \in Seq(Clients) /\ allowed' \in [Clients -> Nat]
    BY ListGrows, StationsTyped
<1>2. twin' \in BOOLEAN
    <2>0. twin \in BOOLEAN
        BY DEF Types, ListTypes
    <2>1. CASE Silent \/ Orders \/ UNCHANGED vars
        BY <2>0, <2>1, SilentLeaves, OrdersLeave DEF vars, filterVars, historyVars
    <2>2. CASE Emptied \/ Read \/ Reply
        <3>1. twin' = twin
            BY <2>2 DEF Emptied, Flush, Administrate, Read, NtcRead, Reply, CopySlot, filterVars, historyVars
        <3>. QED  BY <2>0, <3>1
    <2>3. ASSUME NEW t \in Threads, FrameComes(t) \/ LogFrame(t) \/ LogLength(t) PROVE twin' \in BOOLEAN
        BY <2>0, <2>3, FrameLeaves DEF LogFrame, LogLength
    <2>4. ASSUME NEW t \in Threads, LooksOn(t) PROVE twin' \in BOOLEAN
        <3>1. CASE LinkName(t)
            BY <3>1 DEF LinkName
        <3>2. CASE ~LinkName(t)
            <4>1. twin' = twin
                BY <2>4, <3>2 DEF LooksOn, CheckIface, Scan, MarkDead, SearchName, SetCell, Dying, Advert, historyVars
            <4>. QED  BY <2>0, <4>1
        <3>. QED  BY <3>1, <3>2
    <2>. QED  BY <2>1, <2>2, <2>3, <2>4, Steps
<1>. QED  BY <1>1, <1>2 DEF ListTypes, Longer

(* What is still to be copied is in slots of the queue.                     *)
LEMMA ReplyIsInQueue ==
    ASSUME QueueTypes, Serving
    PROVE  reply.next \in Slots /\ reply.next \in InReply /\ InReply \subseteq Slots
<1>1. /\ pkt_log_limit \in Nat /\ reply.next \in Nat /\ reply.left \in Nat /\ reply.left > 0
      /\ reply.next + reply.left =< pkt_log_limit
    BY FilterAssumption DEF QueueTypes, Serving, BudgetType, pkt_log_limit
<1>2. InReply = reply.next .. (reply.next + reply.left - 1) /\ Slots = 0 .. pkt_log_limit - 1
    BY DEF InReply, Slots
<1>. QED  BY <1>1, <1>2

(* ntcread's log is added up station by station.                            *)
LEMMA LoggedIs == Logged = SumFunctionOnSet(LOG, Clients)
    BY DEF Logged, MapThenSumSet, SumFunctionOnSet, FoldFunctionOnSet

(* It adds up to a number.                                                  *)
LEMMA LoggedIsNat == LOG \in [Clients -> Nat] => Logged \in Nat
<1>. SUFFICES ASSUME LOG \in [Clients -> Nat] PROVE Logged \in Nat
    OBVIOUS
<1>1. \A c \in Clients : LOG[c] \in Nat
    OBVIOUS
<1>. QED  BY <1>1, LoggedIs, SumNat, ReaderAssumption

(* So are the packets of a round that are counted for a station.            *)
LEMMA CountIsNat ==
    packet \in Seq(PacketType) => \A c \in Clients : CountOf(c) \in Nat
<1>. SUFFICES ASSUME packet \in Seq(PacketType), NEW c \in Clients PROVE CountOf(c) \in Nat
    OBVIOUS
<1>1. DOMAIN packet = 1 .. Len(packet) /\ Len(packet) \in Nat
    BY LenProperties
<1>2. IsFiniteSet(DOMAIN packet)
    BY <1>1, FS_Interval
<1>. DEFINE K == {k \in DOMAIN packet : Station(packet[k]) = c}
<1>3. K \in SUBSET DOMAIN packet
    OBVIOUS
<1>. HIDE DEF K
<1>4. IsFiniteSet(K)
    BY <1>2, <1>3, FS_Subset
<1>5. Cardinality(K) \in Nat
    BY <1>4, FS_CardinalityType
<1>. QED  BY <1>5 DEF CountOf, K

(* What the rounds of ntcread do to its variables                           *)
LEMMA ReaderTypesKept == Types /\ [Next]_vars => ReaderTypes'
<1>. SUFFICES ASSUME Types, [Next]_vars PROVE ReaderTypes'
    OBVIOUS
<1>. USE ReaderAssumption
<1>0. ReaderTypes /\ QueueTypes
    BY DEF Types
<1>1. CASE UNCHANGED vars \/ ReaderAlone
    <2>1. UNCHANGED <<tableVars, readerVars, lost, got>>
        BY <1>1 DEF vars, ReaderAlone
    <2>. QED  BY <1>0, <2>1 DEF ReaderTypes, tableVars, readerVars
<1>2. CASE Start
    <2>1. None \in [Clients -> Nat] /\ <<>> \in Seq(PacketType)
        BY EmptySeq DEF None
    <2>. QED  BY <1>0, <1>2, <2>1 DEF Start, ReaderTypes, tableVars
<1>3. CASE Exit
    <2>1. Logged \in Nat
        BY <1>0, LoggedIsNat DEF ReaderTypes
    <2>2. None \in [Clients -> Nat]
        BY DEF None
    <2>. QED  BY <1>0, <1>3, <2>1, <2>2 DEF Exit, ReaderTypes, tableVars
<1>4. CASE Alert
    <2>1. Logged \in Nat /\ Len(packet) \in Nat
        BY <1>0, LoggedIsNat, LenProperties DEF ReaderTypes
    <2>2. None \in [Clients -> Nat] /\ <<>> \in Seq(PacketType)
        BY EmptySeq DEF None
    <2>. QED  BY <1>0, <1>4, <2>1, <2>2 DEF Alert, ReaderTypes, tableVars
<1>5. CASE Count
    <2>1. \A c \in Clients : CountOf(c) \in Nat
        BY <1>0, CountIsNat DEF ReaderTypes
    <2>2. LOG' \in [Clients -> Nat]
        BY <1>0, <1>5, <2>1 DEF Count, ReaderTypes
    <2>3. <<>> \in Seq(PacketType)
        BY EmptySeq
    <2>. QED  BY <1>0, <1>5, <2>2, <2>3 DEF Count, ReaderTypes, tableVars
<1>6. CASE SaveEnd
    BY <1>0, <1>6 DEF SaveEnd, ReaderTypes, tableVars
<1>7. ASSUME NEW c \in Clients, Save(c) PROVE ReaderTypes'
    <2>1. LOG' \in [Clients -> Nat] /\ tlog' \in [Clients -> Nat]
        BY <1>0, <1>7 DEF Save, AfterSave, ReaderTypes
    <2>. QED  BY <1>0, <1>7, <2>1 DEF Save, ReaderTypes
<1>8. CASE AddIf
    BY <1>0, <1>8 DEF AddIf, ReaderTypes, tableVars
<1>9. CASE Allow
    BY <1>0, <1>9 DEF Allow, ReaderTypes, tableVars
<1>10. CASE Administrate
    <2>1. UNCHANGED <<tlog, readerVars, lost, got>> /\ nics' \subseteq nics /\ open' \subseteq nics'
        BY <1>0, <1>10 DEF Administrate, Command, TakeOut, ReaderTypes
    <2>. QED  BY <1>0, <2>1 DEF ReaderTypes, readerVars
<1>11. CASE Read
    <2>1. <<>> \in Seq(PacketType)
        BY EmptySeq
    <2>. QED  BY <1>0, <1>11, <2>1 DEF Read, ReaderTypes, tableVars
<1>12. CASE Reply
    <2>1. CASE Serving
        <3>1. pktq[reply.next] \in PacketType
            BY <1>0, <2>1, ReplyIsInQueue DEF QueueTypes
        <3>2. packet' = Append(packet, pktq[reply.next])
              /\ got' = [got EXCEPT ![pktq[reply.next].id] = @ + 1] /\ place' = place
            BY <1>12, <2>1 DEF Reply
        <3>3. packet' \in Seq(PacketType)
            BY <1>0, <3>1, <3>2, AppendProperties DEF ReaderTypes
        <3>4. got' \in [Frames -> Nat]
            <4>. DEFINE f == pktq[reply.next].id
            <4>1. got \in [Frames -> Nat] /\ got' = [got EXCEPT ![f] = got[f] + 1]
                BY <1>0, <3>2 DEF ReaderTypes
            <4>. HIDE DEF f
            <4>2. f \in Frames => got[f] + 1 \in Nat
                BY <4>1
            <4>. QED  BY <4>1, <4>2
        <3>. QED  BY <1>0, <1>12, <3>2, <3>3, <3>4 DEF Reply, ReaderTypes, tableVars
    <2>2. CASE ~Serving
        BY <1>0, <1>12, <2>2 DEF Reply, ReaderTypes, tableVars
    <2>. QED  BY <2>1, <2>2
<1>. QED  BY <1>1, <1>2, <1>3, <1>4, <1>5, <1>6, <1>7, <1>8, <1>9, <1>10, <1>11, <1>12, Steps
          DEF Silent, Orders, Emptied

(* Every step keeps the types of all variables.                             *)
LEMMA TypesKept == Types /\ [Next]_vars => Types'
    BY QueueTypesKept, ThreadTypesKept, ListTypesKept, ReaderTypesKept DEF Types

(* All variables have their types in every state.                           *)
LEMMA TypesAlways == Spec => []Types
    BY InitTypes, TypesKept, PTL DEF Spec

----------------------------------------------------------------------------
(* A reply is copied while ntcread waits for it.                            *)
LEMMA InitPlaces == Init => Places
    BY DEF Init, FilterInit, NoReply, Serving, Places

(* Only Read starts a reply and only a reply that is copied ends it, and a  *)
(* round ends with its packets counted or lost.                             *)
LEMMA PlacesKept == Types /\ Places /\ [Next]_vars => Places'
<1>. SUFFICES ASSUME Types, Places, [Next]_vars PROVE Places'
    OBVIOUS
<1>0. ReaderTypes /\ QueueTypes
    BY DEF Types
<1>1. CASE Silent
    <2>0. Serving' = Serving
        BY <1>1, SilentLeaves DEF QueueAlone, Serving
    <2>1. CASE Start \/ Alert
        BY <2>0, <2>1 DEF Places, Start, Alert
    <2>2. CASE Count \/ SaveEnd \/ \E c \in Clients : Save(c)
        BY <2>0, <2>2 DEF Places, Count, SaveEnd, Save
    <2>3. CASE Exit
        BY <2>0, <2>3 DEF Places, Exit
    <2>. QED  BY <1>1, <2>1, <2>2, <2>3 DEF Silent
<1>2. CASE Orders
    <2>0. Serving' = Serving /\ UNCHANGED <<packet, LOG>>
        BY <1>2, OrdersLeave DEF QueueAlone, Serving
    <2>1. CASE AddIf \/ Allow
        BY <2>0, <2>1 DEF Places, AddIf, Allow
    <2>2. CASE Administrate
        BY <2>0, <2>2 DEF Places, Administrate, readerVars
    <2>. QED  BY <1>2, <2>1, <2>2 DEF Orders
<1>3. CASE Emptied
    BY <1>3 DEF Places, Emptied, Flush, Administrate, readerVars, Serving
<1>4. CASE Read
    BY <1>4 DEF Places, Read
<1>5. CASE Reply
    <2>1. CASE Serving
        BY <1>5, <2>1 DEF Places, Reply
    <2>2. CASE ~Serving
        BY <1>5, <2>2 DEF Places, Reply, filterVars, Serving
    <2>. QED  BY <2>1, <2>2
<1>6. CASE UNCHANGED vars
    BY <1>6 DEF vars, filterVars, readerVars, Places, Serving
<1>7. ASSUME NEW t \in Threads, FrameComes(t) \/ LogFrame(t) \/ LogLength(t) \/ LooksOn(t), ReaderAlone
      PROVE  Places'
    <2>1. reply' = reply
        BY <1>7, FrameLeaves, OnlyLooks DEF LogFrame, LogLength, QueueAlone
    <2>. QED  BY <1>7, <2>1 DEF ReaderAlone, readerVars, Places, Serving
<1>. QED  BY <1>1, <1>2, <1>3, <1>4, <1>5, <1>6, <1>7, Steps

----------------------------------------------------------------------------
(* The largest bound on the frames bounds them all.                         *)
LEMMA MaxFramesIs ==
    \A s \in Setups : MaxFrames \in Nat /\ s.frames =< MaxFrames
<1>. TAKE s \in Setups
<1>. DEFINE F == {r.frames : r \in Setups}
<1>1. \A r \in Setups : r.frames \in Nat
    BY FilterAssumption
<1>2. IsFiniteSet(F)
    <2>. DEFINE g == [r \in Setups |-> r.frames]
    <2>1. g \in Surjection(Setups, F)
        BY DEF Surjection
    <2>. HIDE DEF g, F
    <2>. QED  BY <2>1, ReaderAssumption, FS_Surjection
<1>3. F \subseteq Int /\ s.frames \in F
    BY <1>1
<1>4. F # {}
    BY <1>3
<1>5. F \in SUBSET Nat
    BY <1>1
<1>. HIDE DEF F
<1>6. Max(F) \in F /\ Max(F) >= s.frames
    BY <1>2, <1>3, <1>4, MaxIn
<1>7. Max(F) \in Nat /\ s.frames \in Nat
    BY <1>5, <1>6, <1>3
<1>8. MaxFrames = Max(F)
    BY DEF MaxFrames, F
<1>. QED  BY <1>6, <1>7, <1>8

(* The numbers of frames are those up to the largest bound.                 *)
LEMMA FramesAre ==
    MaxFrames \in Nat => Frames = 1 .. MaxFrames /\ IsFiniteSet(Frames)
    BY FS_Interval DEF Frames, MaxFrames

(* At the start no frame has come and no slot holds one.                    *)
LEMMA InitNumbered == Init => Numbered
<1>. SUFFICES ASSUME Init PROVE Numbered
    OBVIOUS
<1>1. budget \in Setups /\ sent = 0
    BY DEF Init, FilterInit
<1>2. MaxFrames \in Nat /\ sent + budget.frames =< MaxFrames
    <2>1. budget.frames \in Nat
        BY <1>1, FilterAssumption
    <2>. QED  BY <1>1, <2>1, MaxFramesIs
<1>3. /\ \A k \in Slots : pktq[k].id = 0
      /\ InUse = {} /\ \A t \in Threads : ~Fresh(t) /\ ~HasFrame(t)
      /\ \A f \in Frames : got[f] = 0
    <2>1. budget.slots \in Nat
        BY <1>1, FilterAssumption
    <2>. QED  BY <2>1 DEF Init, FilterInit, Slots, pkt_log_limit, Empty, InUse, Taken, Storing, InReply, NoReply, Fresh,
                  HasFrame
<1>. QED  BY <1>1, <1>2, <1>3 DEF Numbered

(* A thread may put its frame away, but not take another one: the frames in *)
(* hand are those that were.                                                *)
HandsKept == \A u \in Threads : /\ HasFrame(u)' => HasFrame(u) /\ msg'[u] = msg[u]
                                /\ Fresh(u)' => Fresh(u)

(* A step of a thread that is under way gives nobody a frame.               *)
LEMMA ThreadsKeepHands ==
    ASSUME Types, NEW t \in Threads, LooksOn(t) \/ LogFrame(t) \/ LogLength(t)
    PROVE  HandsKept
<1>0. ThreadTypes
    BY DEF Types
<1>1. ASSUME Done(t) PROVE HandsKept
    BY <1>0, <1>1 DEF Done, HandsKept, HasFrame, Fresh, ThreadTypes
<1>2. ASSUME NEW to, pc' = [pc EXCEPT ![t] = to], msg' = msg, HasFrame(t) \/ to \notin {"iface", "scan", "log", "length"},
             Fresh(t) \/ to \notin {"iface", "scan", "log"}
      PROVE  HandsKept
    BY <1>0, <1>2 DEF HandsKept, HasFrame, Fresh, ThreadTypes
<1>3. CASE \E cell \in Cells, arp \in BOOLEAN : CheckIface(t, cell, arp)
    BY <1>1, <1>2, <1>3 DEF CheckIface, HasFrame, Fresh
<1>4. CASE Scan(t)
    BY <1>1, <1>2, <1>4 DEF Scan, HasFrame, Fresh
<1>5. CASE SearchName(t)
    BY <1>1, <1>2, <1>5 DEF SearchName
<1>6. CASE MarkDead(t) \/ SetCell(t) \/ LinkName(t) \/ LogLength(t)
    BY <1>1, <1>6 DEF MarkDead, SetCell, LinkName, LogLength
<1>7. ASSUME NEW cell \in Cells, Dying(t, cell) PROVE HandsKept
    BY <1>0, <1>7 DEF Dying, HandsKept, HasFrame, Fresh, ThreadTypes
<1>8. ASSUME NEW cell \in Cells, NEW name \in Names, Advert(t, name, cell) PROVE HandsKept
    BY <1>0, <1>8 DEF Advert, HandsKept, HasFrame, Fresh, ThreadTypes
<1>9. CASE LogFrame(t)
    BY <1>1, <1>2, <1>9 DEF LogFrame, HasFrame, Fresh
<1>. QED  BY <1>3, <1>4, <1>5, <1>6, <1>7, <1>8, <1>9 DEF LooksOn

(* The steps that matter to the queue                                       *)
LEMMA QueueSteps ==
    ASSUME Types, [Next]_vars
    PROVE  \/ QueueAlone /\ HandsKept /\ got' = got /\ sent' = sent /\ removed \subseteq removed'
           \/ Emptied \/ Read \/ (Reply /\ Serving)
           \/ ReaderAlone /\ \E t \in Threads : FrameComes(t) \/ (LogFrame(t) /\ ~QueueFull) \/ LogLength(t)
<1>1. ASSUME threadVars' = threadVars PROVE HandsKept
    BY <1>1 DEF threadVars, HandsKept, HasFrame, Fresh
<1>2. CASE Silent
    BY <1>1, <1>2, SilentLeaves
<1>3. CASE Orders
    <2>1. removed \subseteq removed'
        BY <1>3 DEF Orders, AddIf, Allow, Administrate, Command, TakeOut
    <2>. QED  BY <1>1, <1>3, <2>1, OrdersLeave
<1>4. CASE UNCHANGED vars
    BY <1>1, <1>4 DEF vars, filterVars, queueVars, historyVars, QueueAlone
<1>5. CASE Reply /\ ~Serving
    BY <1>1, <1>5 DEF Reply, filterVars, queueVars, historyVars, QueueAlone
<1>6. ASSUME NEW t \in Threads, LooksOn(t), ReaderAlone
      PROVE  QueueAlone /\ HandsKept /\ got' = got /\ sent' = sent /\ removed \subseteq removed'
    BY <1>6, OnlyLooks, ThreadsKeepHands DEF ReaderAlone
<1>7. ASSUME NEW t \in Threads, LogFrame(t), QueueFull, ReaderAlone
      PROVE  QueueAlone /\ HandsKept /\ got' = got /\ sent' = sent /\ removed \subseteq removed'
    BY <1>7, ThreadsKeepHands DEF ReaderAlone, LogFrame, QueueAlone
<1>. QED  BY <1>2, <1>3, <1>4, <1>5, <1>6, <1>7, Steps

(* What the other steps do to the queue: the packets read are the last,     *)
LEMMA ReadIs ==
    ASSUME Types, Read
    PROVE  /\ pkt_mutex = NoOne /\ ~Serving /\ Npkts \in 0 .. MaxPktRead /\ Npkts =< num_packets
           /\ num_packets' = num_packets - Npkts
           /\ reply'.next = num_packets - Npkts /\ reply'.left = Npkts
           /\ UNCHANGED <<pktq, pkt_mutex, stored, flushed, clobbered, got, sent, threadVars, removed>>
           /\ InUse' \subseteq InUse
<1>. USE FilterAssumption
<1>1. /\ pkt_mutex = NoOne /\ ~Serving /\ num_packets' = num_packets - Npkts
      /\ reply' = [next |-> num_packets', left |-> Npkts]
      /\ UNCHANGED <<pktq, pkt_mutex, stored, flushed, clobbered, got, sent, threadVars, removed>>
    BY DEF Read, NtcRead, historyVars
<1>2. num_packets \in Nat /\ pkt_log_limit \in Nat /\ Taken =< pkt_log_limit
    BY DEF Types, QueueTypes, BudgetType, pkt_log_limit
<1>3. Npkts \in 0 .. MaxPktRead /\ Npkts =< num_packets
    BY <1>2 DEF Npkts
<1>4. [Next]_vars
    BY DEF Next, Reader
<1>5. Slots' = Slots
    BY <1>4, BudgetKept DEF Types, QueueTypes, Slots, pkt_log_limit
<1>6. \A k \in Slots : k < Taken' \/ k \in InReply' => k < Taken
    BY <1>1, <1>2, <1>3 DEF Taken, Storing, InReply, Slots
<1>7. InUse' \subseteq InUse
    BY <1>5, <1>6 DEF InUse
<1>. QED  BY <1>1, <1>3, <1>7

(* ... a slot of a reply is copied in its turn, ...                         *)
LEMMA ReplyIs ==
    ASSUME Types, Reply, Serving
    PROVE  /\ reply.next \in Slots /\ reply.next \in InReply /\ reply.next \in InUse
           /\ packet' = Append(packet, pktq[reply.next])
           /\ got' = [got EXCEPT ![pktq[reply.next].id] = @ + 1]
           /\ reply' = [next |-> reply.next + 1, left |-> reply.left - 1]
           /\ UNCHANGED <<pktq, num_packets, pkt_mutex, stored, flushed, clobbered, sent, threadVars, removed>>
           /\ InReply' = InReply \ {reply.next}
           /\ InUse' \subseteq InUse
<1>. USE FilterAssumption
<1>1. /\ packet' = Append(packet, pktq[reply.next])
      /\ got' = [got EXCEPT ![pktq[reply.next].id] = @ + 1]
      /\ reply' = [next |-> reply.next + 1, left |-> reply.left - 1]
      /\ UNCHANGED <<pktq, num_packets, pkt_mutex, stored, flushed, clobbered, sent, threadVars, removed>>
    BY DEF Reply, CopySlot, queueVars, historyVars
<1>2. reply.next \in Slots /\ reply.next \in InReply
    BY ReplyIsInQueue DEF Types
<1>3. reply.next \in Nat /\ reply.left \in Nat
    BY DEF Types, QueueTypes
<1>4. InReply' = InReply \ {reply.next}
    BY <1>1, <1>3 DEF InReply
<1>5. [Next]_vars
    BY DEF Next, Reader
<1>6. Slots' = Slots /\ Taken' = Taken
    BY <1>1, <1>5, BudgetKept DEF Types, QueueTypes, Slots, pkt_log_limit, Taken, Storing
<1>. QED  BY <1>1, <1>2, <1>4, <1>6 DEF InUse

(* ... the queue is emptied, but for the reply, ...                         *)
LEMMA EmptiedIs ==
    ASSUME Types, Emptied
    PROVE  /\ pkt_mutex = NoOne /\ ~Serving /\ num_packets' = 0 /\ flushed' = flushed + num_packets
           /\ UNCHANGED <<pktq, pkt_mutex, reply, stored, clobbered, got, sent, threadVars, removed,
                          tlog, readerVars, lost, nics>>
           /\ InUse' = {}
<1>1. /\ pkt_mutex = NoOne /\ ~Serving /\ num_packets' = 0 /\ flushed' = flushed + num_packets
      /\ UNCHANGED <<pktq, pkt_mutex, reply, stored, clobbered, got, sent, threadVars, removed,
                     tlog, readerVars, lost, nics>>
    BY DEF Emptied, Flush, Administrate
<1>2. reply.next \in Nat /\ reply.left = 0
    BY <1>1, FilterAssumption DEF Types, QueueTypes, Serving
<1>3. Taken' = 0 /\ InReply' = {}
    BY <1>1, <1>2 DEF Taken, Storing, InReply
<1>4. \A k \in Slots' : ~(k < 0)
    <2>1. Slots' = 0 .. pkt_log_limit' - 1
        BY DEF Slots
    <2>2. Administrate
        BY DEF Emptied
    <2>3. [Next]_vars
        BY <2>2 DEF Next
    <2>4. pkt_log_limit' \in Nat
        BY <2>3, BudgetKept DEF Types, QueueTypes, BudgetType, pkt_log_limit
    <2>. QED  BY <2>1, <2>4
<1>. QED  BY <1>1, <1>3, <1>4 DEF InUse

(* ... and a packet is written to the next slot, first its headers and then *)
(* its direction.                                                           *)
LEMMA LogFrameIs ==
    ASSUME Types, NEW t \in Threads, LogFrame(t), ~QueueFull, Slots' = Slots
    PROVE  /\ Fresh(t) /\ ~Fresh(t)' /\ pkt_mutex = NoOne /\ pkt_mutex' = t
           /\ num_packets \in Slots /\ Taken = num_packets /\ Taken' = num_packets + 1
           /\ pktq'[num_packets] = [pktq[num_packets] EXCEPT !.id = msg[t].id, !.src = msg[t].src, !.dst = msg[t].dst]
           /\ pktq'[num_packets].id = msg[t].id
           /\ \A k \in Slots : k # num_packets => pktq'[k] = pktq[k]
           /\ clobbered' = (clobbered \/ num_packets \in InReply)
           /\ stored' = stored + 1 /\ pc' = [pc EXCEPT ![t] = "length"]
           /\ UNCHANGED <<num_packets, reply, flushed, sent, msg>>
           /\ InReply' = InReply /\ InUse' = InUse \cup {num_packets}
<1>0. /\ num_packets \in Nat /\ pkt_log_limit \in Nat
      /\ pktq \in [Slots -> PacketType] /\ t # NoOne /\ DOMAIN pc = Threads
    BY FilterAssumption DEF Types, QueueTypes, ThreadTypes, BudgetType, pkt_log_limit
<1>1. /\ pc[t] = "log" /\ pkt_mutex = NoOne /\ pkt_mutex' = t
      /\ pktq' = [pktq EXCEPT ![num_packets] =
                    [@ EXCEPT !.id = msg[t].id, !.src = msg[t].src, !.dst = msg[t].dst]]
      /\ clobbered' = (clobbered \/ num_packets \in InReply)
      /\ stored' = stored + 1 /\ pc' = [pc EXCEPT ![t] = "length"]
      /\ UNCHANGED <<num_packets, reply, flushed, sent, msg>>
    BY DEF LogFrame
<1>2. num_packets \in Slots
    BY <1>0 DEF QueueFull, Slots
<1>3. Fresh(t) /\ ~Fresh(t)'
    BY <1>0, <1>1 DEF Fresh
<1>4. Taken = num_packets /\ Taken' = num_packets + 1
    BY <1>0, <1>1 DEF Taken, Storing
<1>5. /\ pktq'[num_packets] = [pktq[num_packets] EXCEPT !.id = msg[t].id, !.src = msg[t].src, !.dst = msg[t].dst]
      /\ \A k \in Slots : k # num_packets => pktq'[k] = pktq[k]
    BY <1>0, <1>1, <1>2
<1>6. pktq'[num_packets].id = msg[t].id
    BY <1>0, <1>2, <1>5 DEF PacketType
<1>7. InReply' = InReply
    BY <1>1 DEF InReply
<1>8. \A k \in Slots : k < num_packets + 1 <=> k < num_packets \/ k = num_packets
    BY <1>0 DEF Slots
<1>9. InUse' = InUse \cup {num_packets}
    BY <1>2, <1>4, <1>7, <1>8 DEF InUse
<1>. QED  BY <1>1, <1>2, <1>3, <1>4, <1>5, <1>6, <1>7, <1>9

(* The second half of LogFrame's packet completes it: its identity stays,   *)
(* its direction is written and it is counted.                              *)
LEMMA LogLengthIs ==
    ASSUME Types, NEW t \in Threads, LogLength(t), Slots' = Slots
    PROVE  /\ pc[t] = "length" /\ pkt_mutex = t /\ pkt_mutex' = NoOne
           /\ num_packets \in Slots /\ num_packets' = num_packets + 1
           /\ Taken = num_packets + 1 /\ Taken' = Taken
           /\ pktq'[num_packets] = [pktq[num_packets] EXCEPT !.dir = msg[t].dir]
           /\ \A k \in Slots : pktq'[k].id = pktq[k].id /\ (k # num_packets => pktq'[k] = pktq[k])
           /\ clobbered' = (clobbered \/ num_packets \in InReply)
           /\ UNCHANGED <<reply, stored, flushed, sent>>
           /\ Done(t) /\ InReply' = InReply /\ InUse' = InUse
<1>0. /\ num_packets \in Nat /\ pkt_log_limit \in Nat /\ Taken =< pkt_log_limit
      /\ pktq \in [Slots -> PacketType] /\ t # NoOne
    BY FilterAssumption DEF Types, QueueTypes, BudgetType, pkt_log_limit
<1>1. /\ pc[t] = "length" /\ pkt_mutex' = NoOne
      /\ pktq' = [pktq EXCEPT ![num_packets].dir = msg[t].dir]
      /\ num_packets' = num_packets + 1
      /\ clobbered' = (clobbered \/ num_packets \in InReply)
      /\ UNCHANGED <<reply, stored, flushed, sent>> /\ Done(t)
    BY DEF LogLength, LogDir
<1>2. pkt_mutex = t
    BY <1>1 DEF Types, ThreadTypes
<1>3. Taken = num_packets + 1 /\ Taken' = Taken
    BY <1>0, <1>1, <1>2 DEF Taken, Storing
<1>4. num_packets \in Slots
    BY <1>0, <1>3 DEF Slots
<1>5. /\ pktq'[num_packets] = [pktq[num_packets] EXCEPT !.dir = msg[t].dir]
      /\ \A k \in Slots : k # num_packets => pktq'[k] = pktq[k]
    BY <1>0, <1>1, <1>4
<1>6. pktq'[num_packets].id = pktq[num_packets].id
    BY <1>0, <1>4, <1>5 DEF PacketType
<1>7. InReply' = InReply
    BY <1>1 DEF InReply
<1>8. InUse' = InUse
    BY <1>3, <1>7 DEF InUse
<1>. QED  BY <1>1, <1>2, <1>3, <1>4, <1>5, <1>6, <1>7, <1>8

----------------------------------------------------------------------------
(* The slots are the same in every state.                                   *)
LEMMA SlotsStay == Types /\ [Next]_vars => Slots' = Slots
    BY BudgetKept DEF Types, QueueTypes, Slots, pkt_log_limit

(* The numbers of the frames stay what they are.                            *)
LEMMA NumbersStay ==
    ASSUME Numbered, HandsKept, Slots' = Slots, \A k \in Slots : pktq'[k].id = pktq[k].id,
           InUse' \subseteq InUse, got' = got, sent' = sent, sent' + budget'.frames =< MaxFrames
    PROVE  Numbered'
<1>1. /\ MaxFrames \in Nat /\ sent' + budget'.frames =< MaxFrames
      /\ \A k \in Slots' : pktq'[k].id =< sent'
      /\ \A k \in InUse' : pktq'[k].id # 0
      /\ \A f \in Frames : f > sent' => got'[f] = 0
      /\ \A j, k \in Slots' : pktq'[j].id = pktq'[k].id /\ pktq'[j].id # 0 => j = k
    BY DEF Numbered, InUse
<1>2. \A t \in Threads : HasFrame(t)' => msg'[t].id =< sent'
    BY DEF Numbered, HandsKept
<1>3. \A t \in Threads : Fresh(t)' => Fresh(t) /\ msg'[t] = msg[t]
    BY DEF HandsKept, Fresh, HasFrame
<1>4. \A t \in Threads : Fresh(t)' =>
          /\ got'[msg'[t].id] = 0
          /\ \A k \in Slots' : pktq'[k].id # msg'[t].id
          /\ \A u \in Threads : Fresh(u)' /\ msg'[u].id = msg'[t].id => u = t
    BY <1>3 DEF Numbered
<1>. QED  BY <1>1, <1>2, <1>4 DEF Numbered

(* A new frame has a number nobody has, and to write it into a slot takes   *)
(* it out of its thread's hand.                                             *)
LEMMA NumberedKept == Types /\ Numbered /\ [Next]_vars => Numbered'
<1>. SUFFICES ASSUME Types, Numbered, [Next]_vars PROVE Numbered'
    OBVIOUS
<1>. DEFINE total == sent + budget.frames
<1>0. /\ QueueTypes /\ ThreadTypes /\ ReaderTypes
      /\ MaxFrames \in Nat /\ Frames = 1 .. MaxFrames
    BY FramesAre DEF Types, Numbered
<1>1. total' =< MaxFrames
    BY <1>0, BudgetKept DEF QueueTypes, BudgetType, Numbered
<1>2. Slots' = Slots
    BY SlotsStay
<1>3. CASE QueueAlone /\ HandsKept /\ got' = got /\ sent' = sent
    <2>1. pktq' = pktq /\ InUse' = InUse
        BY <1>2, <1>3 DEF QueueAlone, InUse, InReply, Taken, Storing
    <2>. QED  BY <1>1, <1>2, <1>3, <2>1, NumbersStay
<1>4. ASSUME threadVars' = threadVars PROVE HandsKept
    BY <1>4 DEF threadVars, HandsKept, HasFrame, Fresh
<1>5. CASE Emptied
    <2>1. pktq' = pktq /\ got' = got /\ sent' = sent /\ threadVars' = threadVars /\ InUse' \subseteq InUse
        BY <1>5, EmptiedIs
    <2>. QED  BY <1>1, <1>2, <1>4, <2>1, NumbersStay
<1>6. CASE Read
    BY <1>1, <1>2, <1>4, <1>6, ReadIs, NumbersStay
<1>7. CASE Reply /\ Serving
    <2>. DEFINE f == pktq[reply.next].id
    <2>1. /\ reply.next \in Slots /\ reply.next \in InUse
          /\ got' = [got EXCEPT ![f] = @ + 1]
          /\ pktq' = pktq /\ sent' = sent /\ threadVars' = threadVars /\ InUse' \subseteq InUse
        BY <1>7, ReplyIs
    <2>2. f # 0 /\ f =< sent
        BY <2>1 DEF Numbered
    <2>3. \A g \in Frames : g > sent => got'[g] = 0
        <3>. HIDE DEF f
        <3>1. \A g \in Frames : g # f => got'[g] = got[g]
            BY <1>0, <2>1 DEF ReaderTypes
        <3>2. \A g \in Frames : g > sent => g # f
            <4>1. f \in Nat
                BY <1>0, <2>1 DEF QueueTypes, PacketType, f
            <4>. QED  BY <1>0, <2>2, <4>1 DEF QueueTypes
        <3>. QED  BY <3>1, <3>2 DEF Numbered
    <2>4. \A t \in Threads : Fresh(t) => got'[msg[t].id] = got[msg[t].id]
        <3>1. \A t \in Threads : Fresh(t) => msg[t].id # f
            BY <2>1 DEF Numbered
        <3>. HIDE DEF f
        <3>. QED  BY <1>0, <2>1, <3>1 DEF ReaderTypes
    <2>5. \A t \in Threads : (Fresh(t)' <=> Fresh(t)) /\ (HasFrame(t)' <=> HasFrame(t)) /\ msg'[t] = msg[t]
        BY <2>1 DEF threadVars, Fresh, HasFrame
    <2>. HIDE DEF f
    <2>. QED  BY <1>1, <1>2, <2>1, <2>3, <2>4, <2>5 DEF Numbered
<1>8. ASSUME NEW t \in Threads, FrameComes(t), ReaderAlone PROVE Numbered'
    <2>1. /\ pktq' = pktq /\ InUse' = InUse /\ got' = got /\ sent' = sent + 1
        BY <1>2, <1>8, FrameLeaves DEF QueueAlone, InUse, InReply, Taken, Storing, ReaderAlone
    <2>2. /\ pc[t] = "idle" /\ pc' = [pc EXCEPT ![t] = "iface"]
          /\ \E m : m.id = sent + 1 /\ msg' = [msg EXCEPT ![t] = m]
        BY <1>8, <2>1 DEF FrameComes, Frame
    <2>3. msg'[t].id = sent + 1 /\ Fresh(t)' /\ HasFrame(t)'
        BY <1>0, <2>2 DEF ThreadTypes, Fresh, HasFrame
    <2>4. \A u \in Threads : u # t =>
             (Fresh(u)' <=> Fresh(u)) /\ (HasFrame(u)' <=> HasFrame(u)) /\ msg'[u] = msg[u]
        BY <1>0, <2>2 DEF ThreadTypes, Fresh, HasFrame
    <2>5. sent \in Nat /\ \A k \in Slots : pktq[k].id \in Nat
        BY <1>0 DEF QueueTypes, PacketType
    <2>6. \A u \in Threads : HasFrame(u) => msg[u].id \in Nat
        BY <1>0 DEF ThreadTypes, FrameType
    <2>7. sent + 1 \in Frames
        <3>1. budget'.frames \in Nat
            BY <1>0, BudgetKept DEF QueueTypes, BudgetType
        <3>. QED  BY <1>0, <1>1, <2>1, <2>5, <3>1
    <2>8. got'[sent + 1] = 0
        BY <2>1, <2>5, <2>7 DEF Numbered
    <2>9. \A u \in Threads : Fresh(u) => HasFrame(u)
        BY DEF Fresh, HasFrame
    <2>10. /\ \A k \in Slots : pktq[k].id =< sent + 1 /\ pktq[k].id # sent + 1
           /\ \A u \in Threads : HasFrame(u) => msg[u].id =< sent + 1 /\ msg[u].id # sent + 1
           /\ \A f \in Frames : f > sent + 1 => got[f] = 0
        BY <1>0, <2>5, <2>6 DEF Numbered
    <2>11. \A u \in Threads : HasFrame(u)' => msg'[u].id =< sent'
        BY <2>1, <2>3, <2>4, <2>5, <2>10
    <2>12. \A u \in Threads : Fresh(u)' =>
              /\ got'[msg'[u].id] = 0
              /\ \A k \in Slots' : pktq'[k].id # msg'[u].id
              /\ \A v \in Threads : Fresh(v)' /\ msg'[v].id = msg'[u].id => v = u
        <3>1. \A u \in Threads : u # t /\ Fresh(u)' =>
                  /\ got'[msg'[u].id] = 0
                  /\ \A k \in Slots' : pktq'[k].id # msg'[u].id
                  /\ msg'[u].id # msg'[t].id
                  /\ \A v \in Threads : v # t /\ Fresh(v)' /\ msg'[v].id = msg'[u].id => v = u
            BY <1>2, <2>1, <2>3, <2>4, <2>9, <2>10 DEF Numbered
        <3>2. got'[msg'[t].id] = 0 /\ \A k \in Slots' : pktq'[k].id # msg'[t].id
            BY <1>2, <2>1, <2>3, <2>8, <2>10
        <3>. QED  BY <3>1, <3>2
    <2>. QED  BY <1>1, <1>2, <2>1, <2>10, <2>11, <2>12 DEF Numbered
<1>9. ASSUME NEW t \in Threads, LogFrame(t), ~QueueFull, ReaderAlone PROVE Numbered'
    <2>. DEFINE n == num_packets
    <2>1. /\ Fresh(t) /\ ~Fresh(t)' /\ n \in Slots
          /\ pktq'[n].id = msg[t].id
          /\ \A k \in Slots : k # n => pktq'[k] = pktq[k]
          /\ sent' = sent /\ msg' = msg /\ InUse' = InUse \cup {n}
        BY <1>2, <1>9, LogFrameIs
    <2>2. got' = got /\ HandsKept
        BY <1>9, ThreadsKeepHands DEF ReaderAlone
    <2>3. msg[t] \in FrameType /\ HasFrame(t)
        BY <1>0, <2>1 DEF ThreadTypes, Fresh, HasFrame
    <2>4. msg[t].id # 0 /\ msg[t].id =< sent /\ \A k \in Slots : pktq[k].id # msg[t].id
        BY <2>1, <2>3 DEF Numbered, FrameType
    <2>. HIDE DEF n
    <2>5. /\ \A k \in Slots' : pktq'[k].id =< sent'
          /\ \A k \in InUse' : pktq'[k].id # 0
          /\ \A f \in Frames : f > sent' => got'[f] = 0
        <3>1. InUse \subseteq Slots
            BY DEF InUse
        <3>. QED  BY <1>2, <2>1, <2>2, <2>4, <3>1 DEF Numbered
    <2>6. \A j, k \in Slots' : pktq'[j].id = pktq'[k].id /\ pktq'[j].id # 0 => j = k
        BY <1>2, <2>1, <2>4 DEF Numbered
    <2>7. \A u \in Threads : HasFrame(u)' => msg'[u].id =< sent'
        BY <2>1, <2>2 DEF Numbered, HandsKept
    <2>8. \A u \in Threads : Fresh(u)' => Fresh(u) /\ u # t /\ msg'[u] = msg[u]
        BY <2>1, <2>2 DEF HandsKept
    <2>9. \A u \in Threads : Fresh(u)' =>
              /\ got'[msg'[u].id] = 0
              /\ \A k \in Slots' : pktq'[k].id # msg'[u].id
              /\ \A v \in Threads : Fresh(v)' /\ msg'[v].id = msg'[u].id => v = u
        BY <1>2, <2>1, <2>2, <2>8 DEF Numbered
    <2>. QED  BY <1>1, <2>5, <2>6, <2>7, <2>9 DEF Numbered
<1>10. ASSUME NEW t \in Threads, LogLength(t), ReaderAlone PROVE Numbered'
    BY <1>1, <1>2, <1>10, LogLengthIs, ThreadsKeepHands, NumbersStay DEF ReaderAlone
<1>. QED  BY <1>3, <1>5, <1>6, <1>7, <1>8, <1>9, <1>10, QueueSteps

----------------------------------------------------------------------------
(* A frame is handed to ntcread once, and twice only if its slot was        *)
(* written while a reply was copied.                                        *)
LEMMA InitHanding == Init => Handing
<1>. SUFFICES ASSUME Init PROVE Handing
    OBVIOUS
<1>1. InUse = {} /\ ~Serving /\ \A f \in Frames : got[f] = 0
    <2>1. budget.slots \in Nat
        BY FilterAssumption DEF Init, FilterInit
    <2>. QED  BY <2>1 DEF Init, FilterInit, Slots, pkt_log_limit, InUse, Taken, Storing, InReply, NoReply, Serving
<1>. QED  BY <1>1 DEF Handing

(* How often frames were handed over stays right as long as no slot becomes *)
(* one of the queue or of a reply.                                          *)
LEMMA HandingStays ==
    ASSUME Handing, \A k \in Slots : pktq'[k].id = pktq[k].id, InUse' \subseteq InUse, got' = got,
           clobbered => clobbered',
           ~clobbered' /\ Serving' => Taken' =< reply'.next,
           \A k \in InUse' : k < Taken' /\ k \in InReply' => k < Taken /\ k \in InReply
    PROVE  Handing'
<1>1. \A k \in InUse' : k \in InUse /\ Handed(k)' = Handed(k)
    BY DEF Handed, InUse
<1>2. \A k \in InUse' : /\ Handed(k)' =< 1
                        /\ k < Taken' /\ k \in InReply' => Handed(k)' = 0
                        /\ ~clobbered' => Handed(k)' = 0
    BY <1>1 DEF Handing
<1>3. \A f \in Frames : /\ got'[f] =< 2
                        /\ ~clobbered' => got'[f] =< 1
    BY DEF Handing
<1>. QED  BY <1>2, <1>3 DEF Handing

(* A slot that is written again before a reply has copied it shows in the   *)
(* history, and a slot a reply has copied is in the queue again only then.  *)
LEMMA HandingKept == Types /\ Numbered /\ Handing /\ [Next]_vars => Handing'
<1>. SUFFICES ASSUME Types, Numbered, Handing, [Next]_vars PROVE Handing'
    OBVIOUS
<1>0. /\ QueueTypes /\ ThreadTypes /\ ReaderTypes
      /\ MaxFrames \in Nat /\ Frames = 1 .. MaxFrames
      /\ num_packets \in Nat /\ Taken \in Nat /\ reply.next \in Nat /\ reply.left \in Nat
    BY FramesAre, FilterAssumption DEF Types, Numbered, QueueTypes, Taken, Storing
<1>1. Slots' = Slots
    BY SlotsStay
<1>2. CASE QueueAlone /\ got' = got
    <2>1. /\ pktq' = pktq /\ InUse' = InUse /\ InReply' = InReply /\ Taken' = Taken /\ reply' = reply
          /\ clobbered' = clobbered
        BY <1>1, <1>2 DEF QueueAlone, InUse, InReply, Taken, Storing
    <2>2. ~clobbered' /\ Serving' => Taken' =< reply'.next
        BY <2>1 DEF Handing, Serving
    <2>. QED  BY <1>2, <2>1, <2>2, HandingStays
<1>3. CASE Emptied
    <2>1. /\ pktq' = pktq /\ got' = got /\ clobbered' = clobbered /\ reply' = reply /\ ~Serving
          /\ InUse' = {}
        BY <1>3, EmptiedIs
    <2>2. ~Serving'
        BY <2>1 DEF Serving
    <2>. QED  BY <2>1, <2>2, HandingStays
<1>4. CASE Read
    <2>1. /\ pkt_mutex = NoOne /\ Npkts \in Nat /\ Npkts =< num_packets /\ num_packets' = num_packets - Npkts
          /\ reply'.next = num_packets - Npkts /\ reply'.left = Npkts
          /\ UNCHANGED <<pktq, pkt_mutex, clobbered, got>> /\ InUse' \subseteq InUse
        BY <1>4, ReadIs
    <2>2. Taken' = reply'.next
        BY <1>0, <2>1 DEF Taken, Storing
    <2>3. \A k \in InReply' : ~(k < Taken')
        BY <1>0, <2>1, <2>2 DEF InReply
    <2>4. Taken' =< reply'.next
        BY <1>0, <2>1, <2>2
    <2>. QED  BY <2>1, <2>3, <2>4, HandingStays
<1>5. CASE Reply /\ Serving
    <2>0. PICK n \in Slots : n = reply.next
        BY <1>0, <1>5, ReplyIsInQueue
    <2>. DEFINE f == pktq[n].id
    <2>1. /\ n \in Slots /\ n \in InReply /\ n \in InUse
          /\ got' = [got EXCEPT ![f] = @ + 1]
          /\ reply' = [next |-> n + 1, left |-> reply.left - 1]
          /\ UNCHANGED <<pktq, num_packets, pkt_mutex, clobbered, sent>>
          /\ InReply' = InReply \ {n} /\ InUse' \subseteq InUse
        BY <1>5, <2>0, ReplyIs
    <2>2. f \in Frames
        <3>1. f # 0 /\ f =< sent /\ f \in Nat /\ sent \in Nat /\ budget.frames \in Nat
            BY <1>0, <2>1 DEF Numbered, QueueTypes, PacketType, BudgetType
        <3>. HIDE DEF f
        <3>. QED  BY <1>0, <3>1 DEF Numbered
    <2>3. \A k \in InUse : k # n => pktq[k].id # f
        BY <2>1 DEF Numbered, InUse
    <2>4. Taken' = Taken
        BY <2>1 DEF Taken, Storing
    <2>5. ~clobbered => Taken =< n
        BY <1>5, <2>0 DEF Handing
    <2>6. /\ \A k \in InUse : k # n => Handed(k)' = Handed(k)
          /\ Handed(n)' = Handed(n) + 1 /\ Handed(n) \in Nat
        <3>. HIDE DEF f
        <3>1. /\ \A g \in Frames : g # f => got'[g] = got[g]
              /\ got'[f] = got[f] + 1 /\ got[f] \in Nat
            BY <1>0, <2>1, <2>2 DEF ReaderTypes
        <3>2. \A g : g # f => got'[g] = got[g]
            BY <1>0, <2>1 DEF ReaderTypes
        <3>3. Handed(n) = got[f] /\ Handed(n)' = got'[f]
            BY <2>1 DEF Handed, f
        <3>. QED  BY <2>1, <2>3, <3>1, <3>2, <3>3 DEF Handed
    <2>7. \A g \in Frames : g # f => got'[g] = got[g]
        <3>. HIDE DEF f
        <3>. QED  BY <1>0, <2>1 DEF ReaderTypes
    <2>8. got'[f] = Handed(n) + 1
        BY <2>1, <2>6 DEF Handed
    <2>9. Handed(n) =< 1 /\ (n < Taken => Handed(n) = 0) /\ (~clobbered => Handed(n) = 0)
        BY <2>1 DEF Handing
    <2>10. \A k \in InUse' : /\ Handed(k)' =< 1
                             /\ k < Taken' /\ k \in InReply' => Handed(k)' = 0
                             /\ ~clobbered' => Handed(k)' = 0
        <3>1. ASSUME NEW k \in InUse', k # n
              PROVE  /\ Handed(k)' =< 1
                     /\ k < Taken' /\ k \in InReply' => Handed(k)' = 0
                     /\ ~clobbered' => Handed(k)' = 0
            BY <2>1, <2>4, <2>6, <3>1 DEF Handing
        <3>2. ASSUME n \in InUse'
              PROVE  n < Taken /\ n \notin InReply' /\ Handed(n)' = 1 /\ clobbered
            <4>1. n < Taken
                BY <2>1, <2>4, <3>2 DEF InUse
            <4>2. clobbered
                BY <1>0, <2>0, <2>5, <4>1
            <4>. QED  BY <2>1, <2>6, <2>9, <4>1, <4>2
        <3>. QED  BY <2>1, <3>1, <3>2
    <2>11. \A g \in Frames : /\ got'[g] =< 2
                             /\ ~clobbered' => got'[g] =< 1
        <3>. HIDE DEF f
        <3>. QED  BY <2>1, <2>6, <2>7, <2>8, <2>9 DEF Handing
    <2>12. ~clobbered' /\ Serving' => Taken' =< reply'.next
        BY <1>0, <2>0, <2>1, <2>4, <2>5
    <2>. QED  BY <2>10, <2>11, <2>12 DEF Handing
<1>6. ASSUME NEW t \in Threads, FrameComes(t), ReaderAlone PROVE Handing'
    BY <1>2, <1>6, FrameLeaves DEF ReaderAlone
<1>7. ASSUME NEW t \in Threads, LogFrame(t), ~QueueFull, ReaderAlone PROVE Handing'
    <2>0. PICK n \in Slots : n = num_packets
        BY <1>1, <1>7, LogFrameIs
    <2>1. /\ Fresh(t) /\ n \in Slots /\ Taken = n /\ Taken' = n + 1
          /\ pktq'[n].id = msg[t].id
          /\ \A k \in Slots : k # n => pktq'[k] = pktq[k]
          /\ clobbered' = (clobbered \/ n \in InReply)
          /\ InReply' = InReply /\ InUse' = InUse \cup {n} /\ reply' = reply
        BY <1>1, <1>7, <2>0, LogFrameIs
    <2>2. got' = got
        BY <1>7 DEF ReaderAlone
    <2>3. Handed(n)' = 0
        BY <2>1, <2>2 DEF Numbered, Handed
    <2>4. \A k \in InUse : k # n => Handed(k)' = Handed(k) /\ (k < Taken' => k < Taken)
        <3>1. \A k \in Slots : k # n /\ k < n + 1 => k < n
            BY <1>0 DEF Slots, QueueTypes, BudgetType, pkt_log_limit
        <3>. QED  BY <2>1, <2>2, <3>1 DEF Handed, InUse
    <2>5. ~clobbered' /\ Serving' => Taken' =< reply'.next
        <3>1. ASSUME ~clobbered', Serving' PROVE Taken' =< reply'.next
            <4>1. Serving /\ ~clobbered /\ n \notin InReply
                BY <2>1, <3>1 DEF Serving
            <4>2. reply.next \in InReply
                BY <1>0, <4>1, ReplyIsInQueue
            <4>3. n =< reply.next
                BY <2>1, <4>1 DEF Handing
            <4>. QED  BY <1>0, <2>1, <4>1, <4>2, <4>3
        <3>. QED  BY <3>1
    <2>6. \A k \in InUse' : /\ Handed(k)' =< 1
                            /\ k < Taken' /\ k \in InReply' => Handed(k)' = 0
                            /\ ~clobbered' => Handed(k)' = 0
        <3>1. Handed(n)' =< 1
            BY <2>3
        <3>2. ASSUME NEW k \in InUse, k # n
              PROVE  /\ Handed(k)' =< 1
                     /\ k < Taken' /\ k \in InReply' => Handed(k)' = 0
                     /\ ~clobbered' => Handed(k)' = 0
            <4>1. Handed(k)' = Handed(k) /\ (k < Taken' => k < Taken)
                BY <2>4, <3>2
            <4>. QED  BY <2>1, <4>1 DEF Handing
        <3>. QED  BY <2>1, <2>3, <3>1, <3>2
    <2>7. \A f \in Frames : got'[f] =< 2 /\ (~clobbered' => got'[f] =< 1)
        BY <2>1, <2>2 DEF Handing
    <2>. QED  BY <2>5, <2>6, <2>7 DEF Handing
<1>8. ASSUME NEW t \in Threads, LogLength(t), ReaderAlone PROVE Handing'
    <2>1. /\ Taken' = Taken /\ reply' = reply /\ InReply' = InReply /\ InUse' = InUse /\ got' = got
          /\ clobbered => clobbered'
          /\ \A k \in Slots : pktq'[k].id = pktq[k].id
        BY <1>1, <1>8, LogLengthIs DEF ReaderAlone
    <2>2. ~clobbered' /\ Serving' => Taken' =< reply'.next
        BY <2>1 DEF Handing, Serving
    <2>. QED  BY <2>1, <2>2, HandingStays
<1>. QED  BY <1>2, <1>3, <1>4, <1>5, <1>6, <1>7, <1>8, QueueSteps

----------------------------------------------------------------------------
(* The counts are sums.                                                     *)
LEMMA SumsAre ==
    /\ TakenOut = SumFunctionOnSet(got, Frames) /\ TakenOut' = SumFunctionOnSet(got', Frames)
    /\ Logged = SumFunctionOnSet(LOG, Clients) /\ Logged' = SumFunctionOnSet(LOG', Clients)
    /\ OfTheDay = SumFunctionOnSet(tlog, Clients) /\ OfTheDay' = SumFunctionOnSet(tlog', Clients)
<1>1. /\ TakenOut = SumFunctionOnSet(got, Frames)
      /\ Logged = SumFunctionOnSet(LOG, Clients)
      /\ OfTheDay = SumFunctionOnSet(tlog, Clients)
    BY DEF TakenOut, Logged, OfTheDay, MapThenSumSet, SumFunctionOnSet, FoldFunctionOnSet
<1>2. /\ (TakenOut = SumFunctionOnSet(got, Frames))'
      /\ (Logged = SumFunctionOnSet(LOG, Clients))'
      /\ (OfTheDay = SumFunctionOnSet(tlog, Clients))'
    BY <1>1, PTL
<1>. QED  BY <1>1, <1>2

(* A sum stays as long as what it is of does.                               *)
LEMMA SumsStay ==
    /\ got' = got => TakenOut' = TakenOut
    /\ LOG' = LOG => Logged' = Logged
    /\ tlog' = tlog => OfTheDay' = OfTheDay
    BY SumsAre

(* All counts are numbers.                                                  *)
LEMMA CountsAreNat ==
    ASSUME Types, MaxFrames \in Nat
    PROVE  /\ TakenOut \in Nat /\ Logged \in Nat /\ OfTheDay \in Nat /\ lost \in Nat /\ stored \in Nat
           /\ flushed \in Nat /\ Taken \in Nat /\ reply.left \in Nat /\ Len(packet) \in Nat
           /\ num_packets \in Nat /\ Storing \in {0, 1}
<1>. USE ReaderAssumption
<1>1. IsFiniteSet(Frames)
    BY FramesAre
<1>2. /\ \A f \in Frames : got[f] \in Nat
      /\ \A c \in Clients : LOG[c] \in Nat /\ tlog[c] \in Nat
    BY DEF Types, ReaderTypes
<1>3. TakenOut \in Nat /\ Logged \in Nat /\ OfTheDay \in Nat
    BY <1>1, <1>2, SumsAre, SumNat
<1>4. lost \in Nat /\ stored \in Nat /\ flushed \in Nat /\ num_packets \in Nat /\ Storing \in {0, 1}
    BY DEF Types, ReaderTypes, QueueTypes, Storing
<1>5. reply.left \in Nat
    BY FilterAssumption DEF Types, QueueTypes
<1>6. Len(packet) \in Nat
    BY LenProperties DEF Types, ReaderTypes
<1>. QED  BY <1>3, <1>4, <1>5, <1>6 DEF Taken

(* An empty log adds up to nothing.                                         *)
LEMMA NoneIsNothing == SumFunctionOnSet(None, Clients) = 0
<1>1. SumFunctionOnSet(None, Clients) \in {0}
    <2>1. 0 \in {0} /\ (\A i, j \in {0} : i + j \in {0}) /\ \A c \in Clients : None[c] \in {0}
        BY DEF None
    <2>. QED  BY <2>1, SumType, ReaderAssumption
<1>. QED  BY <1>1

(* A frame handed to ntcread is one more.                                   *)
LEMMA HandedIsTaken ==
    ASSUME Types, MaxFrames \in Nat, NEW f \in Frames, got' = [got EXCEPT ![f] = @ + 1]
    PROVE  TakenOut' = TakenOut + 1
<1>1. got \in [Frames -> Nat] /\ IsFiniteSet(Frames)
    BY FramesAre DEF Types, ReaderTypes
<1>2. /\ \A g \in Frames : got[g] \in Int /\ got'[g] \in Int
      /\ \A g \in Frames \ {f} : got'[g] = got[g]
      /\ got'[f] - got[f] = 1
    BY <1>1
<1>3. SumFunctionOnSet(got', Frames) = SumFunctionOnSet(got, Frames) + (got'[f] - got[f])
    <2>. DEFINE h == got'
    <2>1. /\ \A g \in Frames : got[g] \in Int /\ h[g] \in Int
          /\ \A g \in Frames \ {f} : h[g] = got[g]
        BY <1>2
    <2>2. SumFunctionOnSet(h, Frames) = SumFunctionOnSet(got, Frames) + (h[f] - got[f])
        <3>. HIDE DEF h
        <3>. QED  BY <1>1, <2>1, SumChange
    <2>. QED  BY <2>2
<1>. QED  BY <1>2, <1>3, SumsAre

(* Every packet of a round is counted for one station.                      *)
LEMMA RoundIsLogged ==
    ASSUME Types, Unknown = {}, LOG' = [c \in Clients |-> LOG[c] + CountOf(c)]
    PROVE  Logged' = Logged + Len(packet)
<1>. USE ReaderAssumption
<1>0. packet \in Seq(PacketType) /\ known \subseteq Clients /\ LOG \in [Clients -> Nat]
    BY DEF Types, ReaderTypes
<1>1. DOMAIN packet = 1 .. Len(packet) /\ Len(packet) \in Nat
    BY <1>0, LenProperties
<1>2. PICK D, F, n : /\ D = DOMAIN packet
                     /\ F = [k \in DOMAIN packet |-> Station(packet[k])]
                     /\ n = [c \in Clients |-> CountOf(c)]
    OBVIOUS
<1>3. IsFiniteSet(D) /\ Cardinality(D) = Len(packet)
    BY <1>1, <1>2, FS_Interval
<1>4. \A c \in Clients : n[c] = Cardinality(Having(F, D, {c}))
    <2>. TAKE c \in Clients
    <2>1. Having(F, D, {c}) = {k \in DOMAIN packet : Station(packet[k]) = c}
        BY <1>2 DEF Having
    <2>. QED  BY <1>2, <2>1 DEF CountOf
<1>5. SumFunctionOnSet(n, Clients) = Len(packet)
    <2>1. Having(F, D, Clients) = D
        BY <1>0, <1>2 DEF Unknown, Having
    <2>2. SumFunctionOnSet(n, Clients) = Cardinality(Having(F, D, Clients))
        <3>1. IsFiniteSet(D) /\ IsFiniteSet(Clients)
            BY <1>3
        <3>. QED  BY ONLY <3>1, <1>4, SumOfCounts
    <2>. QED  BY <1>3, <2>1, <2>2
<1>6. \A c \in Clients : LOG[c] \in Int /\ n[c] \in Int /\ LOG'[c] = LOG[c] + n[c]
    BY <1>0, <1>2, CountIsNat
<1>7. SumFunctionOnSet(LOG', Clients) = SumFunctionOnSet(LOG, Clients) + SumFunctionOnSet(n, Clients)
    BY <1>6, SumPlus
<1>. QED  BY <1>5, <1>7, SumsAre

(* What is saved for a card goes from the log to the table of the day.      *)
LEMMA SavedMoves ==
    ASSUME Types, NEW c \in Clients, Save(c)
    PROVE  Logged' = Logged - LOG[c] /\ OfTheDay' = OfTheDay + LOG[c]
<1>. USE ReaderAssumption
<1>0. LOG \in [Clients -> Nat] /\ tlog \in [Clients -> Nat]
    BY DEF Types, ReaderTypes
<1>1. tlog' = [tlog EXCEPT ![c] = @ + LOG[c]] /\ LOG' = [LOG EXCEPT ![c] = 0]
    BY DEF Save, AfterSave
<1>2. /\ \A d \in Clients : LOG[d] \in Int /\ LOG'[d] \in Int /\ tlog[d] \in Int /\ tlog'[d] \in Int
      /\ \A d \in Clients \ {c} : LOG'[d] = LOG[d] /\ tlog'[d] = tlog[d]
      /\ LOG'[c] - LOG[c] = 0 - LOG[c] /\ tlog'[c] - tlog[c] = LOG[c]
    BY <1>0, <1>1
<1>3. /\ SumFunctionOnSet(LOG', Clients) = SumFunctionOnSet(LOG, Clients) + (LOG'[c] - LOG[c])
      /\ SumFunctionOnSet(tlog', Clients) = SumFunctionOnSet(tlog, Clients) + (tlog'[c] - tlog[c])
    BY <1>2, SumChange
<1>4. SumFunctionOnSet(LOG, Clients) \in Int
    BY <1>2, SumInt
<1>. QED  BY <1>0, <1>2, <1>3, <1>4, SumsAre

(* At the start there are none.                                             *)
LEMMA InitCounted == Init => Counted
<1>. SUFFICES ASSUME Init PROVE Counted
    OBVIOUS
<1>1. MaxFrames \in Nat
    BY InitNumbered DEF Numbered
<1>2. TakenOut = 0
    <2>1. \A f \in Frames : got[f] \in {0}
        BY DEF Init
    <2>2. 0 \in {0} /\ \A i, j \in {0} : i + j \in {0}
        OBVIOUS
    <2>3. IsFiniteSet(Frames)
        BY <1>1, FramesAre
    <2>4. SumFunctionOnSet(got, Frames) \in {0}
        BY <2>1, <2>2, <2>3, SumType
    <2>. QED  BY <2>4, SumsAre
<1>3. Logged = 0 /\ OfTheDay = 0
    BY SumsAre, NoneIsNothing DEF Init
<1>4. Taken = 0 /\ reply.left = 0 /\ stored = 0 /\ flushed = 0 /\ lost = 0 /\ Len(packet) = 0
    BY DEF Init, FilterInit, Taken, Storing, NoReply
<1>. QED  BY <1>2, <1>3, <1>4 DEF Counted

(* Each step moves packets from one place to the next.                      *)
LEMMA CountedKept == Types /\ Places /\ Numbered /\ Counted /\ [Next]_vars => Counted'
<1>. SUFFICES ASSUME Types, Places, Numbered, Counted, [Next]_vars PROVE Counted'
    OBVIOUS
<1>0. /\ TakenOut \in Nat /\ Logged \in Nat /\ OfTheDay \in Nat /\ lost \in Nat /\ stored \in Nat
      /\ flushed \in Nat /\ Taken \in Nat /\ reply.left \in Nat /\ Len(packet) \in Nat
      /\ num_packets \in Nat /\ Storing \in {0, 1} /\ MaxFrames \in Nat
      /\ stored = flushed + Taken + reply.left + TakenOut
      /\ TakenOut = Len(packet) + Logged + OfTheDay + lost
    BY CountsAreNat DEF Numbered, Counted
<1>1. Slots' = Slots
    BY SlotsStay
<1>2. ASSUME QueueAlone, got' = got
      PROVE  stored' = flushed' + Taken' + reply'.left + TakenOut' /\ TakenOut' = TakenOut
    <2>1. Taken' = Taken /\ TakenOut' = TakenOut
        BY <1>2, SumsStay DEF QueueAlone, Taken, Storing
    <2>. QED  BY <1>0, <1>2, <2>1 DEF QueueAlone
<1>3. ASSUME UNCHANGED <<packet, LOG, tlog, lost>>
      PROVE  Logged' = Logged /\ OfTheDay' = OfTheDay
    BY <1>3, SumsStay
<1>4. CASE Orders
    <2>1. QueueAlone /\ UNCHANGED <<got, packet, LOG, tlog, lost>>
        BY <1>4, OrdersLeave
    <2>. QED  BY <1>0, <1>2, <1>3, <2>1 DEF Counted
<1>5. CASE UNCHANGED vars
    <2>1. QueueAlone /\ UNCHANGED <<got, packet, LOG, tlog, lost>>
        BY <1>5 DEF vars, filterVars, queueVars, historyVars, tableVars, readerVars, QueueAlone
    <2>. QED  BY <1>0, <1>2, <1>3, <2>1 DEF Counted
<1>6. CASE Silent
    <2>1. QueueAlone /\ got' = got
        BY <1>6, SilentLeaves
    <2>2. CASE Start
        <3>1. packet = <<>> /\ LOG = None /\ packet' = <<>> /\ LOG' = None /\ UNCHANGED <<tlog, lost>>
            BY <2>2 DEF Start, Places, tableVars
        <3>. QED  BY <1>0, <1>2, <1>3, <2>1, <3>1 DEF Counted
    <2>3. CASE Alert \/ Exit
        <3>1. LOG' = None /\ packet' = <<>> /\ lost' = lost + Len(packet) + Logged /\ tlog' = tlog
            <4>1. CASE Alert
                BY <4>1 DEF Alert, tableVars
            <4>2. CASE Exit
                <5>1. packet = <<>> /\ packet' = packet /\ LOG' = None /\ lost' = lost + Logged /\ tlog' = tlog
                    BY <4>2 DEF Exit, Places, tableVars
                <5>. QED  BY <1>0, <5>1
            <4>. QED  BY <2>3, <4>1, <4>2
        <3>2. Logged' = 0 /\ OfTheDay' = OfTheDay
            BY <3>1, SumsAre, NoneIsNothing
        <3>. QED  BY <1>0, <1>2, <2>1, <3>1, <3>2 DEF Counted
    <2>4. CASE Count
        <3>1. /\ Logged' = Logged + Len(packet) /\ packet' = <<>> /\ OfTheDay' = OfTheDay /\ lost' = lost
            BY <2>4, RoundIsLogged, SumsStay DEF Count, tableVars
        <3>. QED  BY <1>0, <1>2, <2>1, <3>1 DEF Counted
    <2>5. CASE SaveEnd
        <3>1. UNCHANGED <<packet, LOG, tlog, lost>>
            BY <2>5 DEF SaveEnd, tableVars
        <3>. QED  BY <1>0, <1>2, <1>3, <2>1, <3>1 DEF Counted
    <2>6. ASSUME NEW c \in Clients, Save(c) PROVE Counted'
        <3>1. Logged' = Logged - LOG[c] /\ OfTheDay' = OfTheDay + LOG[c] /\ UNCHANGED <<packet, lost>>
            BY <2>6, SavedMoves DEF Save
        <3>2. LOG[c] \in Nat
            BY DEF Types, ReaderTypes
        <3>3. TakenOut' = TakenOut /\ stored' = flushed' + Taken' + reply'.left + TakenOut'
            BY <1>2, <2>1
        <3>4. \A p, i, j, k, l \in Nat : p + (i - l) + (j + l) + k = p + i + j + k
            OBVIOUS
        <3>5. TakenOut = Len(packet) + (Logged - LOG[c]) + (OfTheDay + LOG[c]) + lost
            BY <1>0, <3>2, <3>4
        <3>. QED  BY <3>1, <3>3, <3>5 DEF Counted
    <2>. QED  BY <1>6, <2>2, <2>3, <2>4, <2>5, <2>6 DEF Silent
<1>7. CASE Emptied
    <2>1. /\ pkt_mutex = NoOne /\ num_packets' = 0 /\ flushed' = flushed + num_packets
          /\ UNCHANGED <<pkt_mutex, reply, stored, got, packet, LOG, tlog, lost>>
        BY <1>7, EmptiedIs DEF readerVars
    <2>2. Taken = num_packets /\ Taken' = 0 /\ TakenOut' = TakenOut
        BY <1>0, <2>1, SumsStay DEF Taken, Storing
    <2>. QED  BY <1>0, <1>3, <2>1, <2>2 DEF Counted
<1>8. CASE Read
    <2>1. /\ pkt_mutex = NoOne /\ ~Serving /\ Npkts \in Nat /\ Npkts =< num_packets
          /\ num_packets' = num_packets - Npkts /\ reply'.left = Npkts
          /\ UNCHANGED <<pkt_mutex, stored, flushed, got>>
        BY <1>8, ReadIs
    <2>2. packet = <<>> /\ packet' = packet /\ UNCHANGED <<LOG, tlog, lost>>
        BY <1>8 DEF Read, Places, tableVars
    <2>3. Taken = num_packets /\ Taken' = num_packets - Npkts /\ TakenOut' = TakenOut /\ reply.left = 0
        BY <1>0, <2>1, SumsStay DEF Taken, Storing, Serving
    <2>. QED  BY <1>0, <1>3, <2>1, <2>2, <2>3 DEF Counted
<1>9. CASE Reply /\ Serving
    <2>1. PICK n \in Slots : n = reply.next
        BY <1>9, ReplyIs
    <2>2. /\ n \in InUse
          /\ packet' = Append(packet, pktq[n])
          /\ got' = [got EXCEPT ![pktq[n].id] = @ + 1]
          /\ reply' = [next |-> reply.next + 1, left |-> reply.left - 1]
          /\ UNCHANGED <<num_packets, pkt_mutex, stored, flushed>>
        BY <1>9, <2>1, ReplyIs
    <2>3. pktq[n].id \in Frames
        <3>1. /\ pktq[n].id \in Nat /\ sent \in Nat /\ budget.frames \in Nat
              /\ pktq[n].id # 0 /\ pktq[n].id =< sent /\ sent + budget.frames =< MaxFrames
            BY <2>2 DEF Types, QueueTypes, PacketType, BudgetType, Numbered
        <3>2. Frames = 1 .. MaxFrames
            BY <1>0, FramesAre
        <3>3. pktq[n].id \in 1 .. MaxFrames
            BY <1>0, <3>1
        <3>. QED  BY <3>2, <3>3
    <2>4. TakenOut' = TakenOut + 1
        BY <1>0, <2>2, <2>3, HandedIsTaken
    <2>5. Len(packet') = Len(packet) + 1
        <3>1. packet \in Seq(PacketType) /\ pktq[n] \in PacketType
            BY DEF Types, ReaderTypes, QueueTypes
        <3>. QED  BY <2>2, <3>1, AppendProperties
    <2>6. UNCHANGED <<LOG, tlog, lost>>
        BY <1>9 DEF Reply, tableVars
    <2>7. Logged' = Logged /\ OfTheDay' = OfTheDay /\ Taken' = Taken
        BY <2>2, <2>6, SumsStay DEF Taken, Storing
    <2>8. reply'.left = reply.left - 1
        BY <2>2
    <2>9. stored' = stored /\ flushed' = flushed /\ lost' = lost
        BY <2>2, <2>6
    <2>10. stored = flushed + Taken + (reply.left - 1) + (TakenOut + 1)
        BY <1>0
    <2>11. TakenOut + 1 = (Len(packet) + 1) + Logged + OfTheDay + lost
        BY <1>0
    <2>. QED  BY ONLY <2>4, <2>5, <2>7, <2>8, <2>9, <2>10, <2>11 DEF Counted
<1>10. ASSUME ReaderAlone
       PROVE  UNCHANGED <<packet, LOG, tlog, lost, got>> /\ TakenOut' = TakenOut
    BY <1>10, SumsStay DEF ReaderAlone, tableVars, readerVars
<1>11. ASSUME NEW t \in Threads, FrameComes(t) \/ LooksOn(t), ReaderAlone PROVE Counted'
    BY <1>0, <1>2, <1>3, <1>10, <1>11, FrameLeaves, OnlyLooks DEF Counted
<1>12. ASSUME NEW t \in Threads, LogFrame(t), ReaderAlone PROVE Counted'
    <2>1. CASE QueueFull
        <3>1. QueueAlone
            BY <1>12, <2>1 DEF LogFrame, QueueAlone
        <3>. QED  BY <1>0, <1>2, <1>3, <1>10, <1>12, <3>1 DEF Counted
    <2>2. CASE ~QueueFull
        <3>1. Taken = num_packets /\ Taken' = num_packets + 1 /\ stored' = stored + 1 /\ UNCHANGED <<reply, flushed>>
            BY <1>1, <1>12, <2>2, LogFrameIs
        <3>2. reply'.left = reply.left /\ flushed' = flushed /\ Logged' = Logged /\ OfTheDay' = OfTheDay
              /\ TakenOut' = TakenOut /\ packet' = packet /\ lost' = lost
            BY <1>3, <1>10, <1>12, <3>1
        <3>3. stored + 1 = flushed + (num_packets + 1) + reply.left + TakenOut
            BY <1>0, <3>1
        <3>. QED  BY <1>0, <3>1, <3>2, <3>3 DEF Counted
    <2>. QED  BY <2>1, <2>2
<1>13. ASSUME NEW t \in Threads, LogLength(t), ReaderAlone PROVE Counted'
    <2>1. Taken' = Taken /\ UNCHANGED <<reply, stored, flushed>>
        BY <1>1, <1>13, LogLengthIs
    <2>. QED  BY <1>0, <1>3, <1>10, <1>13, <2>1 DEF Counted
<1>14. CASE Reply /\ ~Serving
    <2>1. QueueAlone /\ UNCHANGED <<got, packet, LOG, tlog, lost>>
        BY <1>14 DEF Reply, filterVars, queueVars, historyVars, tableVars, QueueAlone
    <2>. QED  BY <1>0, <1>2, <1>3, <2>1 DEF Counted
<1>. QED  BY <1>4, <1>5, <1>6, <1>7, <1>8, <1>9, <1>11, <1>12, <1>13, <1>14, Steps
----------------------------------------------------------------------------
(* A card is in the table or was taken out, and ntcread knows those of when *)
(* it was started.                                                          *)
LEMMA CardSteps ==
    ASSUME Types, [Next]_vars
    PROVE  /\ nics' \cup removed' = nics \cup removed /\ removed \subseteq removed'
           /\ \/ known' = nics /\ removed' = removed
              \/ known' = known /\ (place' # "off" => place # "off")
<1>1. CASE Silent
    <2>1. UNCHANGED <<nics, removed>>
        BY <1>1, SilentLeaves
    <2>. QED  BY <1>1, <2>1 DEF Silent, Start, Alert, Count, SaveEnd, Exit, Save
<1>2. CASE Orders
    <2>1. CASE AddIf \/ Allow
        BY <2>1 DEF AddIf, Allow, tableVars
    <2>2. CASE Administrate
        <3>1. /\ nics' \cup removed' = nics \cup removed /\ removed \subseteq removed'
            BY <2>2 DEF Administrate, Command, TakeOut
        <3>. QED  BY <2>2, <3>1 DEF Administrate, readerVars
    <2>. QED  BY <1>2, <2>1, <2>2 DEF Orders
<1>3. CASE Emptied \/ UNCHANGED vars
    BY <1>3 DEF Emptied, Administrate, vars, tableVars, readerVars
<1>4. CASE Read \/ Reply
    BY <1>4 DEF Read, Reply, tableVars
<1>5. CASE ReaderAlone
    BY <1>5 DEF ReaderAlone, tableVars, readerVars
<1>. QED  BY <1>1, <1>2, <1>3, <1>4, <1>5, Steps

(* ntcread started with the table as it was, and what is missing from the   *)
(* table since is in the history.                                           *)
LEMMA CardsKept == Types /\ CardsKnown /\ [Next]_vars => CardsKnown'
    BY CardSteps DEF CardsKnown

(* A frame that comes is from or to a station.                              *)
LEMMA FrameIs ==
    ASSUME Types, NEW t \in Threads, FrameComes(t)
    PROVE  /\ pc[t] = "idle" /\ pc' = [pc EXCEPT ![t] = "iface"]
           /\ \E m : Station(m) \in Clients /\ msg' = [msg EXCEPT ![t] = m]
<1>1. PICK c \in Clients, dir \in {"in", "out"} : Frame(t, c, dir)
    BY DEF FrameComes
<1>. DEFINE m == [kind |-> "frame", id |-> sent', dir |-> dir,
                  src |-> IF dir = "in" THEN c ELSE Server, dst |-> IF dir = "in" THEN Server ELSE c]
<1>2. pc[t] = "idle" /\ pc' = [pc EXCEPT ![t] = "iface"] /\ msg' = [msg EXCEPT ![t] = m]
    BY <1>1 DEF Frame
<1>3. Station(m) \in Clients
    BY DEF Station
<1>. HIDE DEF m
<1>. QED  BY <1>2, <1>3

(* Frames in hand are from or to a station, and what has been written of a  *)
(* packet is what its thread has in hand.                                   *)
LEMMA HandsKnownKept == Types /\ HandsKnown /\ [Next]_vars => HandsKnown'
<1>. SUFFICES ASSUME Types, HandsKnown, [Next]_vars PROVE HandsKnown'
    OBVIOUS
<1>. USE FilterAssumption
<1>0. ThreadTypes /\ ThreadTypes' /\ Slots' = Slots
    BY TypesKept, SlotsStay DEF Types
<1>1. /\ \A t \in Threads : pkt_mutex = t <=> pc[t] = "length"
      /\ \A t \in Threads : pkt_mutex' = t <=> pc'[t] = "length"
    BY <1>0 DEF ThreadTypes
<1>2. \A t \in Threads : pc'[t] = "length" => HasFrame(t)'
    BY DEF HasFrame
<1>3. ASSUME QueueAlone, HandsKept PROVE HandsKnown'
    <2>1. UNCHANGED <<pktq, num_packets, pkt_mutex>>
        BY <1>3 DEF QueueAlone
    <2>2. \A t \in Threads : pc'[t] = "length" => pc[t] = "length" /\ msg'[t] = msg[t]
        BY <1>1, <1>2, <1>3, <2>1 DEF HandsKept
    <2>. QED  BY <1>3, <2>1, <2>2 DEF HandsKept, HandsKnown
<1>4. ASSUME threadVars' = threadVars, pktq' = pktq, num_packets' = num_packets \/ pkt_mutex' = NoOne
      PROVE  HandsKnown'
    <2>1. pc' = pc /\ msg' = msg
        BY <1>4 DEF threadVars
    <2>2. \A t \in Threads : pc'[t] = "length" => num_packets' = num_packets
        BY <1>1, <1>4
    <2>. QED  BY <1>4, <2>1, <2>2 DEF HandsKnown, HasFrame
<1>5. CASE Emptied
    BY <1>4, <1>5, EmptiedIs
<1>6. CASE Read
    BY <1>4, <1>6, ReadIs
<1>7. CASE Reply /\ Serving
    BY <1>4, <1>7, ReplyIs
<1>8. ASSUME NEW t \in Threads, FrameComes(t) PROVE HandsKnown'
    <2>1. UNCHANGED <<pktq, num_packets, pkt_mutex>>
        BY <1>8, FrameLeaves DEF QueueAlone
    <2>2. PICK m : /\ pc[t] = "idle" /\ pc' = [pc EXCEPT ![t] = "iface"]
                   /\ Station(m) \in Clients /\ msg' = [msg EXCEPT ![t] = m]
        BY <1>8, FrameIs
    <2>3. /\ msg'[t] = m /\ pc'[t] # "length"
          /\ \A u \in Threads : u # t => msg'[u] = msg[u] /\ pc'[u] = pc[u]
        BY <1>0, <2>2 DEF ThreadTypes
    <2>. QED  BY <2>1, <2>2, <2>3 DEF HandsKnown, HasFrame
<1>9. ASSUME NEW t \in Threads, LogFrame(t), ~QueueFull PROVE HandsKnown'
    <2>0. PICK n \in Slots : n = num_packets
        BY <1>0, <1>9, LogFrameIs
    <2>1. /\ pkt_mutex' = t /\ num_packets' = n /\ msg' = msg
          /\ pktq'[n] = [pktq[n] EXCEPT !.id = msg[t].id, !.src = msg[t].src, !.dst = msg[t].dst]
        BY <1>0, <1>9, <2>0, LogFrameIs
    <2>2. HandsKept /\ pktq[n] \in PacketType
        BY <1>9, ThreadsKeepHands DEF Types, QueueTypes
    <2>3. pktq'[n].src = msg[t].src /\ pktq'[n].dst = msg[t].dst
        BY <2>1, <2>2 DEF PacketType
    <2>4. \A u \in Threads : pc'[u] = "length" => u = t
        BY <1>1, <2>1
    <2>. QED  BY <2>1, <2>2, <2>3, <2>4 DEF HandsKnown, HandsKept
<1>10. ASSUME NEW t \in Threads, LogLength(t) PROVE HandsKnown'
    <2>1. pkt_mutex' = NoOne /\ HandsKept
        BY <1>0, <1>10, LogLengthIs, ThreadsKeepHands
    <2>2. \A u \in Threads : pc'[u] # "length"
        BY <1>1, <2>1
    <2>. QED  BY <2>1, <2>2 DEF HandsKnown, HandsKept
<1>. QED  BY <1>3, <1>5, <1>6, <1>7, <1>8, <1>9, <1>10, QueueSteps

(* A packet that is complete is from or to a station, unless it was written *)
(* where a reply was still to copy.                                         *)
LEMMA SlotsKnownKept == Types /\ HandsKnown /\ SlotsKnown /\ [Next]_vars => SlotsKnown'
<1>. SUFFICES ASSUME Types, HandsKnown, SlotsKnown, [Next]_vars PROVE SlotsKnown'
    OBVIOUS
<1>0. /\ Slots' = Slots /\ num_packets \in Nat
      /\ \A k \in Slots : k \in Nat /\ pktq[k] \in PacketType
    BY SlotsStay DEF Types, QueueTypes, Slots, BudgetType, pkt_log_limit
<1>1. ASSUME pktq' = pktq, clobbered => clobbered',
             \A k \in Slots : k < num_packets' \/ k \in InReply' => k < num_packets \/ k \in InReply
      PROVE  SlotsKnown'
    BY <1>0, <1>1 DEF SlotsKnown
<1>2. CASE QueueAlone
    BY <1>1, <1>2 DEF QueueAlone, InReply
<1>3. CASE Emptied
    <2>1. pktq' = pktq /\ num_packets' = 0 /\ InReply' = InReply /\ clobbered' = clobbered
        BY <1>3, EmptiedIs DEF InReply
    <2>. QED  BY <1>0, <1>1, <2>1
<1>4. CASE Read
    <2>1. /\ Npkts \in Nat /\ Npkts =< num_packets /\ num_packets' = num_packets - Npkts
          /\ reply'.next = num_packets - Npkts /\ reply'.left = Npkts
          /\ pktq' = pktq /\ clobbered' = clobbered
        BY <1>4, ReadIs
    <2>2. InReply' = (num_packets - Npkts) .. (num_packets - Npkts + Npkts - 1)
        BY <2>1 DEF InReply
    <2>3. \A k \in Slots : k < num_packets' \/ k \in InReply' => k < num_packets
        BY <1>0, <2>1, <2>2
    <2>. QED  BY <1>1, <2>1, <2>3
<1>5. CASE Reply /\ Serving
    <2>1. pktq' = pktq /\ num_packets' = num_packets /\ InReply' \subseteq InReply /\ clobbered' = clobbered
        BY <1>5, ReplyIs
    <2>. QED  BY <1>1, <2>1
<1>6. ASSUME NEW t \in Threads, LogFrame(t), ~QueueFull PROVE SlotsKnown'
    <2>0. PICK n \in Slots : n = num_packets
        BY <1>0, <1>6, LogFrameIs
    <2>1. /\ num_packets' = n /\ InReply' = InReply /\ clobbered' = (clobbered \/ n \in InReply)
          /\ \A k \in Slots : k # n => pktq'[k] = pktq[k]
        BY <1>0, <1>6, <2>0, LogFrameIs
    <2>2. \A k \in Slots : k < n => k # n
        BY <1>0
    <2>. QED  BY <1>0, <2>0, <2>1, <2>2 DEF SlotsKnown
<1>7. ASSUME NEW t \in Threads, LogLength(t) PROVE SlotsKnown'
    <2>0. PICK n \in Slots : n = num_packets
        BY <1>0, <1>7, LogLengthIs
    <2>1. /\ pc[t] = "length" /\ num_packets' = n + 1 /\ InReply' = InReply
          /\ clobbered' = (clobbered \/ n \in InReply)
          /\ pktq'[n] = [pktq[n] EXCEPT !.dir = msg[t].dir]
          /\ \A k \in Slots : k # n => pktq'[k] = pktq[k]
        BY <1>0, <1>7, <2>0, LogLengthIs
    <2>2. \A k \in Slots : k < n + 1 => k = n \/ k < n
        BY <1>0
    <2>3. /\ pktq'[n].dir = msg[t].dir /\ pktq'[n].src = pktq[n].src /\ pktq'[n].dst = pktq[n].dst
        BY <1>0, <2>1 DEF PacketType
    <2>4. pktq[n].src = msg[t].src /\ pktq[n].dst = msg[t].dst /\ Station(msg[t]) \in Clients
        BY <2>0, <2>1 DEF HandsKnown, HasFrame
    <2>5. Station(pktq'[n]) \in Clients
        BY <2>3, <2>4 DEF Station
    <2>. QED  BY <1>0, <2>0, <2>1, <2>2, <2>5 DEF SlotsKnown
<1>8. ASSUME NEW t \in Threads, FrameComes(t) PROVE QueueAlone
    BY <1>8, FrameLeaves
<1>. QED  BY <1>2, <1>3, <1>4, <1>5, <1>6, <1>7, <1>8, QueueSteps

(* ntcread has copied what was in the reply.                                *)
LEMMA PacketSteps ==
    ASSUME Types, [Next]_vars
    PROVE  packet' \in {packet, <<>>} \/ (Reply /\ Serving)
<1>1. CASE Silent
    BY <1>1 DEF Silent, Start, Alert, Count, SaveEnd, Exit, Save
<1>2. CASE Orders
    BY <1>2, OrdersLeave
<1>3. CASE Emptied \/ UNCHANGED vars
    BY <1>3 DEF Emptied, Administrate, vars, readerVars
<1>4. CASE Read \/ Reply
    BY <1>4 DEF Read, Reply
<1>5. CASE ReaderAlone
    BY <1>5 DEF ReaderAlone, readerVars
<1>. QED  BY <1>1, <1>2, <1>3, <1>4, <1>5, Steps

(* Once a slot was overwritten, it was.                                     *)
LEMMA ClobberedStays ==
    ASSUME Types, [Next]_vars, clobbered
    PROVE  clobbered'
<1>0. Slots' = Slots
    BY SlotsStay
<1>1. CASE QueueAlone
    BY <1>1 DEF QueueAlone
<1>2. CASE Emptied \/ Read \/ (Reply /\ Serving)
    BY <1>2, EmptiedIs, ReadIs, ReplyIs
<1>3. ASSUME NEW t \in Threads, FrameComes(t) \/ (LogFrame(t) /\ ~QueueFull) \/ LogLength(t) PROVE clobbered'
    BY <1>0, <1>3, FrameLeaves, LogFrameIs, LogLengthIs DEF QueueAlone
<1>. QED  BY <1>1, <1>2, <1>3, QueueSteps

(* A round has no other packets than its reply had.                         *)
LEMMA PacketsKnownKept == Types /\ SlotsKnown /\ PacketsKnown /\ [Next]_vars => PacketsKnown'
<1>. SUFFICES ASSUME Types, SlotsKnown, PacketsKnown, [Next]_vars, ~clobbered'
              PROVE  \A k \in DOMAIN packet' : Station(packet'[k]) \in Clients
    BY DEF PacketsKnown
<1>0. ~clobbered /\ packet \in Seq(PacketType)
    BY ClobberedStays DEF Types, ReaderTypes
<1>1. CASE packet' \in {packet, <<>>}
    BY <1>0, <1>1 DEF PacketsKnown
<1>2. CASE Reply /\ Serving
    <2>1. PICK n \in Slots : n = reply.next
        BY <1>2, ReplyIs
    <2>2. n \in InReply /\ packet' = Append(packet, pktq[n]) /\ pktq[n] \in PacketType
        BY <1>2, <2>1, ReplyIs DEF Types, QueueTypes
    <2>3. Station(pktq[n]) \in Clients
        BY <1>0, <2>2 DEF SlotsKnown
    <2>4. /\ DOMAIN packet = 1 .. Len(packet) /\ DOMAIN packet' = 1 .. Len(packet) + 1 /\ Len(packet) \in Nat
          /\ packet'[Len(packet) + 1] = pktq[n] /\ \A k \in 1 .. Len(packet) : packet'[k] = packet[k]
        BY <1>0, <2>2, AppendProperties, LenProperties
    <2>. QED  BY <1>0, <2>3, <2>4 DEF PacketsKnown
<1>. QED  BY <1>1, <1>2, PacketSteps

(* At the start all cards are in the table, and nothing waits.              *)
LEMMA InitKnown == Init => Known
<1>. SUFFICES ASSUME Init PROVE Known
    OBVIOUS
<1>1. CardsKnown
    BY DEF Init, CardsKnown
<1>2. \A t \in Threads : pc[t] = "idle"
    BY DEF Init, FilterInit
<1>3. HandsKnown
    BY <1>2 DEF HandsKnown, HasFrame
<1>4. packet = <<>> /\ num_packets = 0 /\ reply = NoReply
    BY DEF Init, FilterInit
<1>5. \A k \in Slots : ~(k < num_packets \/ k \in InReply)
    <2>1. budget.slots \in Nat
        BY FilterAssumption DEF Init, FilterInit
    <2>. QED  BY <1>4, <2>1 DEF Slots, InReply, NoReply, pkt_log_limit
<1>. QED  BY <1>1, <1>3, <1>4, <1>5 DEF Known, SlotsKnown, PacketsKnown

(* The four together are kept by every step.                                *)
LEMMA KnownKept == Types /\ Known /\ [Next]_vars => Known'
    BY CardsKept, HandsKnownKept, SlotsKnownKept, PacketsKnownKept DEF Known
----------------------------------------------------------------------------
(* The station that ends ntcread is one of a complete packet, and those it  *)
(* does not know were taken out of the table.                               *)
LEMMA AlertKept == Types /\ Known /\ AlertIsExplained /\ [Next]_vars => AlertIsExplained'
<1>. SUFFICES ASSUME Types, Known, AlertIsExplained, [Next]_vars PROVE AlertIsExplained'
    OBVIOUS
<1>0. (clobbered => clobbered') /\ removed \subseteq removed'
    BY ClobberedStays, CardSteps
<1>1. CASE alert' \in {alert, Nobody}
    BY <1>0, <1>1 DEF AlertIsExplained
<1>2. CASE Alert
    <2>0. packet \in Seq(PacketType)
        BY DEF Types, ReaderTypes
    <2>1. DOMAIN packet = 1 .. Len(packet) /\ Len(packet) \in Nat
        BY <2>0, LenProperties
    <2>2. Unknown \subseteq Nat /\ Unknown \subseteq DOMAIN packet /\ Unknown # {}
        BY <1>2, <2>1 DEF Alert, Unknown
    <2>3. PICK k \in DOMAIN packet : k = Min(Unknown) /\ Station(packet[k]) \notin known
        <3>1. Min(Unknown) \in Unknown
            BY <2>2, MinIn
        <3>. QED  BY <3>1 DEF Unknown
    <2>4. alert' = Station(packet[k]) /\ place # "off"
        BY <1>2, <2>3 DEF Alert
    <2>5. ASSUME ~clobbered PROVE alert' \in removed
        BY <2>3, <2>4, <2>5 DEF Known, CardsKnown, PacketsKnown
    <2>. QED  BY <1>0, <2>5 DEF AlertIsExplained
<1>3. CASE Silent /\ ~Alert
    BY <1>1, <1>3 DEF Silent, Start, Count, SaveEnd, Exit, Save
<1>4. CASE Orders
    BY <1>1, <1>4, OrdersLeave
<1>5. CASE Emptied \/ UNCHANGED vars
    BY <1>1, <1>5 DEF Emptied, Administrate, vars, readerVars
<1>6. CASE Read \/ Reply
    BY <1>1, <1>6 DEF Read, Reply
<1>7. CASE ReaderAlone
    BY <1>1, <1>7 DEF ReaderAlone, readerVars
<1>. QED  BY <1>2, <1>3, <1>4, <1>5, <1>6, <1>7, Steps

----------------------------------------------------------------------------
(* Nobody is in the list more often than he was allowed: to allow him adds  *)
(* him once, ...                                                            *)
LEMMA OccursAre ==
    ASSUME NEW list \in Seq(Clients), NEW c
    PROVE  LET K == OccursIn(list, c)
           IN K \subseteq 1 .. Len(list) /\ IsFiniteSet(K) /\ Cardinality(K) \in Nat
<1>. DEFINE K == OccursIn(list, c)
<1>1. K \in SUBSET (1 .. Len(list)) /\ Len(list) \in Nat
    BY LenProperties DEF OccursIn
<1>2. IsFiniteSet(1 .. Len(list))
    BY <1>1, FS_Interval
<1>. HIDE DEF K
<1>3. IsFiniteSet(K)
    BY <1>1, <1>2, FS_Subset
<1>4. Cardinality(K) \in Nat
    BY <1>3, FS_CardinalityType
<1>. QED  BY <1>1, <1>3, <1>4 DEF K

(* ... and whatever is a piece of the list has him no more often.           *)
LEMMA FewerOccur ==
    ASSUME NEW K, IsFiniteSet(K), NEW L, NEW n \in Int, L \subseteq Int, \A i \in L : n + i \in K
    PROVE  IsFiniteSet(L) /\ Cardinality(L) =< Cardinality(K)
<1>. DEFINE f == [i \in L |-> n + i]
<1>1. f \in Injection(L, K)
    BY DEF Injection, IsInjective
<1>. HIDE DEF f
<1>. QED  BY <1>1, FS_Injection

(* To allow a station adds it once, and to forbid it takes out one entry    *)
(* of it at least, if there is one.                                         *)
LEMMA AddedOnce ==
    ASSUME Types, LetThrough, NEW d \in Clients, AddBlock(d), NEW c \in Clients
    PROVE  Cardinality(Occurs(c))' =< allowed'[c]
<1>0. blocklist \in Seq(Clients) /\ allowed \in [Clients -> Nat]
    BY DEF Types, ListTypes
<1>1. blocklist' = <<d>> \o blocklist /\ allowed' = [allowed EXCEPT ![d] = @ + 1]
    BY DEF AddBlock
<1>2. PICK K, L : K = Occurs(c) /\ L = OccursIn(blocklist', c)
    OBVIOUS
<1>3. IsFiniteSet(K) /\ Cardinality(K) \in Nat /\ Cardinality(K) =< allowed[c]
    BY <1>0, <1>2, OccursAre DEF Occurs, LetThrough
<1>4. /\ DOMAIN blocklist = 1 .. Len(blocklist) /\ DOMAIN blocklist' = 1 .. Len(blocklist) + 1
      /\ Len(blocklist) \in Nat
      /\ blocklist'[1] = d /\ \A k \in DOMAIN blocklist : blocklist'[k + 1] = blocklist[k]
      /\ blocklist' \in Seq(Clients)
    BY <1>0, <1>1, PutsInFront
<1>5. L \subseteq Int /\ IsFiniteSet(L) /\ Cardinality(L) \in Nat
    BY <1>2, <1>4, OccursAre
<1>6. \A i \in L \ {1} : -1 + i \in K
    <2>. TAKE i \in L \ {1}
    <2>1. i \in 1 .. Len(blocklist) + 1 /\ i # 1 /\ blocklist'[i] = c
        BY <1>2, <1>4 DEF OccursIn
    <2>2. -1 + i \in 1 .. Len(blocklist) /\ (-1 + i) + 1 = i
        BY <1>4, <2>1
    <2>. QED  BY <1>2, <1>4, <2>1, <2>2 DEF Occurs, OccursIn
<1>7. Cardinality(L \ {1}) =< Cardinality(K)
    <2>1. L \ {1} \subseteq Int /\ -1 \in Int
        BY <1>5
    <2>. QED  BY ONLY <1>3, <1>6, <2>1, FewerOccur
<1>8. Cardinality(L \ {1}) = IF 1 \in L THEN Cardinality(L) - 1 ELSE Cardinality(L)
    BY <1>5, FS_RemoveElement
<1>9. 1 \in L => c = d
    BY <1>2, <1>4 DEF OccursIn
<1>10. allowed'[c] = (IF c = d THEN allowed[c] + 1 ELSE allowed[c]) /\ allowed[c] \in Nat
    BY <1>0, <1>1
<1>11. Cardinality(L) =< allowed'[c]
    BY <1>3, <1>5, <1>7, <1>8, <1>9, <1>10
<1>. QED  BY <1>2, <1>11 DEF Occurs

(* To forbid a station takes one entry of it at least, if there is one,     *)
(* with those in front of it.                                               *)
LEMMA TakenOutOnce ==
    ASSUME Types, LetThrough, NEW d \in Clients, DelBlock(d), NEW c \in Clients
    PROVE  Cardinality(Occurs(c))' =< allowed'[c]
<1>0. blocklist \in Seq(Clients) /\ allowed \in [Clients -> Nat]
    BY DEF Types, ListTypes
<1>1. PICK k : k = FirstAt(d)
    OBVIOUS
<1>2. /\ blocklist' = IF k = 0 THEN blocklist ELSE AfterDel(k)
      /\ allowed' = [allowed EXCEPT ![d] = IF @ = 0 THEN 0 ELSE @ - 1]
    BY <1>1 DEF DelBlock, FirstAt
<1>3. /\ k = 0 => \A i \in DOMAIN blocklist : blocklist[i] # d
      /\ k # 0 => k \in DOMAIN blocklist /\ blocklist[k] = d
    BY <1>0, <1>1, FirstOfAddress
<1>4. PICK K, L : K = Occurs(c) /\ L = OccursIn(blocklist', c)
    OBVIOUS
<1>5. IsFiniteSet(K) /\ Cardinality(K) \in Nat /\ Cardinality(K) =< allowed[c]
    BY <1>0, <1>4, OccursAre DEF Occurs, LetThrough
<1>6. /\ allowed[c] \in Nat
      /\ allowed'[c] = IF c = d THEN (IF allowed[c] = 0 THEN 0 ELSE allowed[c] - 1) ELSE allowed[c]
    BY <1>0, <1>2
<1>7. CASE k = 0
    <2>1. L = K
        BY <1>2, <1>4, <1>7 DEF Occurs
    <2>2. c = d => K = {}
        BY <1>3, <1>4, <1>7 DEF Occurs, OccursIn
    <2>3. c = d => Cardinality(K) = 0
        BY <2>2, FS_EmptySet
    <2>4. Cardinality(L) =< allowed'[c]
        BY <1>5, <1>6, <2>1, <2>3
    <2>. QED  BY <1>4, <2>4 DEF Occurs
<1>8. CASE k # 0
    <2>1. k \in DOMAIN blocklist /\ blocklist[k] = d /\ blocklist' = AfterDel(k)
        BY <1>2, <1>3, <1>8
    <2>2. /\ DOMAIN blocklist = 1 .. Len(blocklist) /\ Len(blocklist) \in Nat
          /\ blocklist' \in Seq(Clients) /\ DOMAIN blocklist' = 1 .. Len(blocklist) - k
          /\ \A i \in 1 .. Len(blocklist) - k : blocklist'[i] = blocklist[k + i]
        BY <1>0, <2>1, AfterDelIs, LenProperties
    <2>3. L \subseteq Int /\ IsFiniteSet(L) /\ Cardinality(L) \in Nat
        BY <1>4, <2>2, OccursAre
    <2>4. \A i \in L : k + i \in K \ {k}
        <3>. TAKE i \in L
        <3>1. i \in 1 .. Len(blocklist) - k /\ blocklist'[i] = c
            BY <1>4, <2>2 DEF OccursIn
        <3>2. k + i \in 1 .. Len(blocklist) /\ k + i # k
            BY <2>1, <2>2, <3>1
        <3>. QED  BY <1>4, <2>2, <3>1, <3>2 DEF Occurs, OccursIn
    <2>5. IsFiniteSet(K \ {k}) /\ Cardinality(K \ {k}) = IF k \in K THEN Cardinality(K) - 1 ELSE Cardinality(K)
        BY <1>5, FS_RemoveElement
    <2>6. Cardinality(L) =< Cardinality(K \ {k})
        <3>1. k \in Int
            BY <2>1, <2>2
        <3>. QED  BY ONLY <2>3, <2>4, <2>5, <3>1, FewerOccur
    <2>7. c = d => k \in K
        BY <1>4, <2>1 DEF Occurs, OccursIn
    <2>8. Cardinality(L) =< allowed'[c]
        BY <1>5, <1>6, <2>3, <2>5, <2>6, <2>7
    <2>. QED  BY <1>4, <2>8 DEF Occurs
<1>. QED  BY <1>7, <1>8

(* At the start nobody is let through.                                      *)
LEMMA InitLetThrough == Init => LetThrough
<1>. SUFFICES ASSUME Init, NEW c \in Clients PROVE Cardinality(Occurs(c)) =< allowed[c]
    BY DEF LetThrough
<1>1. blocklist = <<>> /\ allowed[c] = 0
    BY DEF Init, FilterInit
<1>2. Occurs(c) = {}
    BY <1>1 DEF Occurs, OccursIn
<1>. QED  BY <1>1, <1>2, FS_EmptySet

(* No other step changes the list of stations or what was allowed.          *)
LEMMA LetThroughKept == Types /\ LetThrough /\ [Next]_vars => LetThrough'
<1>. SUFFICES ASSUME Types, LetThrough, [Next]_vars PROVE LetThrough'
    OBVIOUS
<1>1. CASE UNCHANGED <<blocklist, allowed>>
    BY <1>1 DEF LetThrough, Occurs, OccursIn
<1>2. ASSUME NEW d \in Clients, AddBlock(d) \/ DelBlock(d) PROVE LetThrough'
    BY <1>2, AddedOnce, TakenOutOnce DEF LetThrough
<1>. QED  BY <1>1, <1>2, StationSteps
----------------------------------------------------------------------------
(* A thread that is to add an interface keeps its message and what it read, *)
(* from when it did not find the name.                                      *)
StillToLink(t) == pc[t] = "link" /\ msg'[t] = msg[t] /\ ifs'[t] = ifs[t]
NotFound(t) ==
    /\ HasAdvert(t) /\ NameAt(Seen(t), msg[t].name) = 0
    /\ UNCHANGED <<ntc_ifs, msg, ifs>>

(* No other step brings a thread to where it adds an interface.             *)
LEMMA LinkSteps ==
    ASSUME Types, [Next]_vars, NEW t \in Threads, pc'[t] = "link"
    PROVE  StillToLink(t) \/ NotFound(t)
<1>0. ThreadTypes
    BY DEF Types
<1>1. ASSUME threadVars' = threadVars PROVE StillToLink(t)
    BY <1>1 DEF threadVars, StillToLink
<1>2. CASE Silent \/ Orders \/ UNCHANGED vars
    BY <1>1, <1>2, SilentLeaves, OrdersLeave DEF vars, filterVars
<1>3. CASE Emptied \/ Read \/ Reply
    BY <1>1, <1>3 DEF Emptied, Flush, Administrate, Read, NtcRead, Reply, CopySlot, filterVars
<1>4. ASSUME NEW u \in Threads, Done(u) PROVE StillToLink(t)
    BY <1>0, <1>4 DEF Done, StillToLink, ThreadTypes
<1>5. ASSUME NEW u \in Threads, NEW to, pc' = [pc EXCEPT ![u] = to], to # "link",
             \A v \in Threads : v # u => msg'[v] = msg[v] /\ ifs'[v] = ifs[v]
      PROVE  StillToLink(t)
    BY <1>0, <1>5 DEF StillToLink, ThreadTypes
<1>6. ASSUME NEW u \in Threads, FrameComes(u) PROVE StillToLink(t)
    <2>1. pc' = [pc EXCEPT ![u] = "iface"]
          /\ \E m, l : msg' = [msg EXCEPT ![u] = m] /\ ifs' = [ifs EXCEPT ![u] = l]
        BY <1>6 DEF FrameComes, Frame
    <2>. QED  BY <1>0, <1>5, <2>1 DEF ThreadTypes
<1>7. ASSUME NEW u \in Threads, LogFrame(u) \/ LogLength(u) PROVE StillToLink(t)
    BY <1>4, <1>5, <1>7 DEF LogFrame, LogLength
<1>8. ASSUME NEW u \in Threads, NEW cell \in Cells, Dying(u, cell) \/ \E name \in Names : Advert(u, name, cell)
      PROVE  StillToLink(t)
    <2>1. \E to, m, l : /\ to \in {"dying", "advert"} /\ pc' = [pc EXCEPT ![u] = to]
                        /\ msg' = [msg EXCEPT ![u] = m] /\ ifs' = [ifs EXCEPT ![u] = l]
        BY <1>8 DEF Dying, Advert
    <2>. QED  BY <1>0, <1>5, <2>1 DEF ThreadTypes
<1>9. ASSUME NEW u \in Threads, SearchName(u) PROVE StillToLink(t) \/ NotFound(t)
    <2>1. CASE NameAt(Seen(u), msg[u].name) = 0
        <3>1. pc' = [pc EXCEPT ![u] = "link"] /\ UNCHANGED <<ntc_ifs, msg, ifs>> /\ HasAdvert(u)
            BY <1>9, <2>1 DEF SearchName, HasAdvert
        <3>2. t # u => pc[t] = "link"
            BY <1>0, <3>1 DEF ThreadTypes
        <3>. QED  BY <2>1, <3>1, <3>2 DEF StillToLink, NotFound
    <2>2. CASE NameAt(Seen(u), msg[u].name) # 0
        <3>1. Done(u) \/ (pc' = [pc EXCEPT ![u] = "cell"] /\ msg' = msg /\ \E l : ifs' = [ifs EXCEPT ![u] = l])
            BY <1>9, <2>2 DEF SearchName
        <3>2. ASSUME pc' = [pc EXCEPT ![u] = "cell"], msg' = msg, NEW l, ifs' = [ifs EXCEPT ![u] = l]
              PROVE  StillToLink(t)
            BY <1>0, <1>5, <3>2 DEF ThreadTypes
        <3>. QED  BY <1>4, <3>1, <3>2
    <2>. QED  BY <2>1, <2>2
<1>10. ASSUME NEW u \in Threads, LooksOn(u) PROVE StillToLink(t) \/ NotFound(t)
    <2>1. CASE \E cell \in Cells, arp \in BOOLEAN : CheckIface(u, cell, arp)
        BY <1>4, <1>5, <2>1 DEF CheckIface
    <2>2. CASE Scan(u)
        BY <1>4, <1>5, <2>2 DEF Scan
    <2>3. CASE MarkDead(u) \/ SetCell(u) \/ LinkName(u)
        BY <1>4, <2>3 DEF MarkDead, SetCell, LinkName
    <2>. QED  BY <1>8, <1>9, <1>10, <2>1, <2>2, <2>3 DEF LooksOn
<1>. QED  BY <1>2, <1>3, <1>6, <1>7, <1>10, Steps

(* What an interface that is added does to the list                         *)
LEMMA LinkIs ==
    ASSUME Types, NEW t \in Threads, LinkName(t)
    PROVE  /\ pc[t] = "link" /\ twin' = (twin \/ Len(ntc_ifs) # ifs[t])
           /\ Len(ntc_ifs) \in Nat /\ Len(ntc_ifs') = Len(ntc_ifs) + 1
           /\ DOMAIN ntc_ifs = 1 .. Len(ntc_ifs) /\ DOMAIN ntc_ifs' = 1 .. Len(ntc_ifs) + 1
           /\ ntc_ifs'[1].name = msg[t].name
           /\ \A k \in DOMAIN ntc_ifs : ntc_ifs'[k + 1] = ntc_ifs[k]
           /\ \A k \in DOMAIN ntc_ifs' : k = 1 \/ (k - 1 \in DOMAIN ntc_ifs /\ ntc_ifs'[k] = ntc_ifs[k - 1])
<1>0. ThreadTypes /\ ntc_ifs \in Seq(IfaceType)
    BY DEF Types, ListTypes
<1>. DEFINE e == [name |-> msg[t].name, cell |-> msg[t].cell, dead |-> FALSE, ofinterest |-> FALSE]
<1>1. e \in IfaceType /\ e.name = msg[t].name
    BY <1>0 DEF LinkName, ThreadTypes, HasAdvert, AdvertType, IfaceType
<1>2. ntc_ifs' = <<e>> \o ntc_ifs /\ pc[t] = "link" /\ twin' = (twin \/ Len(ntc_ifs) # ifs[t])
    BY DEF LinkName
<1>. HIDE DEF e
<1>3. /\ Len(ntc_ifs) \in Nat /\ Len(ntc_ifs') = Len(ntc_ifs) + 1
      /\ DOMAIN ntc_ifs = 1 .. Len(ntc_ifs) /\ DOMAIN ntc_ifs' = 1 .. Len(ntc_ifs) + 1
      /\ ntc_ifs'[1] = e
      /\ \A k \in DOMAIN ntc_ifs : ntc_ifs'[k + 1] = ntc_ifs[k]
    BY <1>0, <1>1, <1>2, PutsInFront
<1>4. \A k \in DOMAIN ntc_ifs' : k = 1 \/ (k - 1 \in DOMAIN ntc_ifs /\ (k - 1) + 1 = k)
    BY <1>3
<1>5. \A k \in DOMAIN ntc_ifs' : k = 1 \/ (k - 1 \in DOMAIN ntc_ifs /\ ntc_ifs'[k] = ntc_ifs[k - 1])
    BY <1>3, <1>4
<1>. QED  BY <1>1, <1>2, <1>3, <1>5

(* The name a thread is to add is in nothing it has seen.                   *)
LEMMA NotSeenKept == Types /\ NotSeen /\ [Next]_vars => NotSeen'
<1>. SUFFICES ASSUME Types, NotSeen, [Next]_vars, NEW t \in Threads, pc'[t] = "link"
              PROVE  \A k \in DOMAIN ntc_ifs' : k > Len(ntc_ifs') - ifs'[t] => ntc_ifs'[k].name # msg'[t].name
    BY DEF NotSeen
<1>0. ThreadTypes /\ ListTypes
    BY DEF Types
<1>1. CASE NotFound(t)
    BY <1>0, <1>1, FoundAt DEF NotFound
<1>2. CASE StillToLink(t)
    <2>0. \A k \in DOMAIN ntc_ifs : k > Len(ntc_ifs) - ifs[t] => ntc_ifs[k].name # msg[t].name
        BY <1>2 DEF NotSeen, StillToLink
    <2>1. ASSUME NEW n, NEW i \in IfaceType, Writes(n, i)
          PROVE  \A k \in DOMAIN ntc_ifs' : k > Len(ntc_ifs') - ifs'[t] => ntc_ifs'[k].name # msg'[t].name
        BY <1>0, <1>2, <2>0, <2>1, WritesKeep DEF StillToLink
    <2>2. CASE ListStays
        BY <1>2, <2>0, <2>1, <2>2 DEF ListStays, StillToLink
    <2>3. ASSUME NEW interest \in BOOLEAN, Interests(Interest, interest)
          PROVE  \A k \in DOMAIN ntc_ifs' : k > Len(ntc_ifs') - ifs'[t] => ntc_ifs'[k].name # msg'[t].name
        BY <2>1, <2>3 DEF Interests, Writes
    <2>4. ASSUME NEW u \in Threads, LinkName(u)
          PROVE  \A k \in DOMAIN ntc_ifs' : k > Len(ntc_ifs') - ifs'[t] => ntc_ifs'[k].name # msg'[t].name
        <3>1. /\ Len(ntc_ifs) \in Nat /\ Len(ntc_ifs') = Len(ntc_ifs) + 1
              /\ DOMAIN ntc_ifs = 1 .. Len(ntc_ifs) /\ DOMAIN ntc_ifs' = 1 .. Len(ntc_ifs) + 1
              /\ \A k \in DOMAIN ntc_ifs' : k = 1 \/ (k - 1 \in DOMAIN ntc_ifs /\ ntc_ifs'[k] = ntc_ifs[k - 1])
            BY <2>4, LinkIs
        <3>2. ifs[t] \in 0 .. Len(ntc_ifs) /\ ifs'[t] = ifs[t] /\ msg'[t] = msg[t]
            BY <1>0, <1>2 DEF ThreadTypes, StillToLink
        <3>. TAKE k \in DOMAIN ntc_ifs'
        <3>. HAVE k > Len(ntc_ifs') - ifs'[t]
        <3>3. k # 1 /\ k - 1 > Len(ntc_ifs) - ifs[t]
            BY <3>1, <3>2
        <3>. QED  BY <2>0, <3>1, <3>2, <3>3
    <2>. QED  BY <2>2, <2>3, <2>4, ListSteps
<1>. QED  BY <1>1, <1>2, LinkSteps

(* Once two threads have announced an interface at a time, they have.       *)
LEMMA TwinStays ==
    ASSUME Types, [Next]_vars
    PROVE  twin' = twin \/ \E t \in Threads : LinkName(t)
<1>1. CASE Silent \/ Orders \/ UNCHANGED vars
    BY <1>1, SilentLeaves, OrdersLeave DEF vars, filterVars, historyVars
<1>2. CASE Emptied \/ Read \/ Reply
    <2>1. twin' = twin
        BY <1>2 DEF Emptied, Flush, Administrate, Read, NtcRead, Reply, CopySlot, filterVars, historyVars
    <2>. QED  BY <2>1
<1>3. ASSUME NEW t \in Threads, FrameComes(t) \/ LogFrame(t) \/ LogLength(t) PROVE twin' = twin
    BY <1>3, FrameLeaves DEF LogFrame, LogLength
<1>4. ASSUME NEW t \in Threads, LooksOn(t), ~LinkName(t) PROVE twin' = twin
    BY <1>4 DEF LooksOn, CheckIface, Scan, MarkDead, SearchName, SetCell, Dying, Advert, historyVars
<1>. QED  BY <1>1, <1>2, <1>3, <1>4, Steps

(* A step that writes an interface leaves the names as they are.            *)
LEMMA WritesKeepNames ==
    ASSUME ListTypes, NEW n, NEW i \in IfaceType, Writes(n, i)
    PROVE  /\ NamesDistinct => NamesDistinct'
           /\ AskedAreThere /\ asked' \subseteq asked \cup {ntc_ifs[n].name} => AskedAreThere'
           /\ \A k \in DOMAIN ntc_ifs : OwnName(k)' <=> OwnName(k)
<1>1. /\ DOMAIN ntc_ifs' = DOMAIN ntc_ifs /\ n \in DOMAIN ntc_ifs
      /\ \A k \in DOMAIN ntc_ifs : ntc_ifs'[k].name = ntc_ifs[k].name
    BY WritesKeep DEF Writes
<1>2. NamesDistinct => NamesDistinct'
    BY <1>1 DEF NamesDistinct
<1>3. AskedAreThere /\ asked' \subseteq asked \cup {ntc_ifs[n].name} => AskedAreThere'
    BY <1>1 DEF AskedAreThere
<1>4. \A k \in DOMAIN ntc_ifs : OwnName(k)' <=> OwnName(k)
    BY <1>1 DEF OwnName
<1>. QED  BY <1>2, <1>3, <1>4

(* The names in the list are distinct, those that were asked for are in it  *)
(* and of interest.                                                         *)
LEMMA NamesKept == Types /\ Named /\ [Next]_vars => Named'
<1>. SUFFICES ASSUME Types, Named, [Next]_vars
              PROVE  (~twin' => NamesDistinct') /\ AskedAreThere' /\ AskedAreOfInterest'
    BY NotSeenKept DEF Named
<1>0. /\ ListTypes /\ ThreadTypes /\ NotSeen /\ AskedAreThere /\ AskedAreOfInterest
      /\ ~twin' => ~twin /\ NamesDistinct
    <2>1. ~twin' => ~twin
        BY TwinStays, LinkIs
    <2>. QED  BY <2>1 DEF Types, Named
<1>1. ASSUME NEW n \in DOMAIN ntc_ifs, NEW i \in IfaceType, Writes(n, i),
             asked' \in {asked \cup {ntc_ifs[n].name}, asked, asked \ {ntc_ifs[n].name}},
             \/ i.ofinterest = ntc_ifs[n].ofinterest /\ asked' \subseteq asked
             \/ i.ofinterest
             \/ ntc_ifs[n].name \notin asked'
      PROVE  (~twin' => NamesDistinct') /\ AskedAreThere' /\ AskedAreOfInterest'
    <2>1. /\ NamesDistinct => NamesDistinct'
          /\ AskedAreThere'
          /\ \A k \in DOMAIN ntc_ifs : OwnName(k)' <=> OwnName(k)
        BY <1>0, <1>1, WritesKeepNames
    <2>2. /\ DOMAIN ntc_ifs' = DOMAIN ntc_ifs
          /\ \A k \in DOMAIN ntc_ifs : /\ ntc_ifs'[k].name = ntc_ifs[k].name
                                       /\ ntc_ifs'[k] = IF k = n THEN i ELSE ntc_ifs[k]
        BY <1>0, <1>1, WritesKeep
    <2>3. ASSUME NEW k \in DOMAIN ntc_ifs, ntc_ifs[k].name \in asked', OwnName(k) PROVE ntc_ifs'[k].ofinterest
        <3>1. CASE k = n
            BY <1>0, <1>1, <2>2, <2>3, <3>1 DEF AskedAreOfInterest
        <3>2. CASE k # n
            <4>1. ntc_ifs[k].name # ntc_ifs[n].name
                BY <2>3, <3>2 DEF OwnName
            <4>2. ntc_ifs[k].name \in asked
                BY <1>1, <2>3, <4>1
            <4>. QED  BY <1>0, <2>2, <2>3, <3>2, <4>2 DEF AskedAreOfInterest
        <3>. QED  BY <3>1, <3>2
    <2>4. AskedAreOfInterest'
        BY <2>1, <2>2, <2>3 DEF AskedAreOfInterest
    <2>. QED  BY <1>0, <2>1, <2>4
<1>2. CASE ListStays
    <2>1. CASE UNCHANGED <<asked, ntc_ifs>>
        BY <1>0, <2>1 DEF NamesDistinct, AskedAreThere, AskedAreOfInterest, OwnName
    <2>. QED  BY <1>1, <1>2, <2>1 DEF ListStays
<1>3. ASSUME NEW interest \in BOOLEAN, Interests(Interest, interest)
      PROVE  (~twin' => NamesDistinct') /\ AskedAreThere' /\ AskedAreOfInterest'
    <2>1. PICK n : n = NameAt(ntc_ifs, Interest)
        OBVIOUS
    <2>2. PICK i : i = [ntc_ifs[n] EXCEPT !.ofinterest = interest]
        OBVIOUS
    <2>3. /\ n # 0 /\ Writes(n, i) /\ i \in IfaceType
          /\ asked' = IF interest THEN asked \cup {Interest} ELSE asked \ {Interest}
        BY <1>3, <2>1, <2>2 DEF Interests, Writes
    <2>4. n \in DOMAIN ntc_ifs /\ ntc_ifs[n].name = Interest
        BY <1>0, <2>1, <2>3, FirstOfName DEF ListTypes
    <2>5. i.ofinterest = interest
        <3>1. ntc_ifs[n] \in IfaceType
            BY <1>0, <2>4, LenProperties, ElementOfSeq DEF ListTypes
        <3>. QED  BY <2>2, <3>1 DEF IfaceType
    <2>. QED  BY <1>1, <2>3, <2>4, <2>5
<1>4. ASSUME NEW t \in Threads, LinkName(t), asked' = asked
      PROVE  (~twin' => NamesDistinct') /\ AskedAreThere' /\ AskedAreOfInterest'
    <2>1. /\ pc[t] = "link" /\ twin' = (twin \/ Len(ntc_ifs) # ifs[t]) /\ Len(ntc_ifs) \in Nat
          /\ DOMAIN ntc_ifs = 1 .. Len(ntc_ifs) /\ DOMAIN ntc_ifs' = 1 .. Len(ntc_ifs) + 1
          /\ ntc_ifs'[1].name = msg[t].name
          /\ \A k \in DOMAIN ntc_ifs : ntc_ifs'[k + 1] = ntc_ifs[k]
          /\ \A k \in DOMAIN ntc_ifs' : k = 1 \/ (k - 1 \in DOMAIN ntc_ifs /\ ntc_ifs'[k] = ntc_ifs[k - 1])
        BY <1>4, LinkIs
    <2>2. \A k \in DOMAIN ntc_ifs : k + 1 \in DOMAIN ntc_ifs' /\ k + 1 # 1
        BY <2>1
    <2>3. AskedAreThere'
        BY <1>0, <1>4, <2>1, <2>2 DEF AskedAreThere
    <2>4. ~twin' => NamesDistinct'
        <3>. SUFFICES ASSUME ~twin' PROVE NamesDistinct'
            OBVIOUS
        <3>1. \A k \in DOMAIN ntc_ifs : ntc_ifs[k].name # msg[t].name
            <4>1. Len(ntc_ifs) = ifs[t]
                BY <2>1, Zenon
            <4>2. \A k \in DOMAIN ntc_ifs : k > Len(ntc_ifs) - ifs[t]
                BY <2>1, <4>1
            <4>. QED  BY <1>0, <2>1, <4>2 DEF NotSeen
        <3>2. \A k \in DOMAIN ntc_ifs' : k # 1 => ntc_ifs'[k].name # ntc_ifs'[1].name
            BY <2>1, <3>1
        <3>3. ASSUME NEW j \in DOMAIN ntc_ifs', NEW k \in DOMAIN ntc_ifs', j # 1, k # 1,
                     ntc_ifs'[j].name = ntc_ifs'[k].name
              PROVE  j = k
            <4>1. j - 1 = k - 1
                BY <1>0, <2>1, <3>3 DEF NamesDistinct
            <4>. QED  BY <2>1, <4>1
        <3>. QED  BY <3>2, <3>3 DEF NamesDistinct
    <2>5. ASSUME NEW k \in DOMAIN ntc_ifs', ntc_ifs'[k].name \in asked, OwnName(k)' PROVE ntc_ifs'[k].ofinterest
        <3>1. PICK j \in DOMAIN ntc_ifs : ntc_ifs[j].name = ntc_ifs'[k].name
            BY <1>0, <2>5 DEF AskedAreThere
        <3>2. k = j + 1 /\ ntc_ifs'[k] = ntc_ifs[j]
            BY <2>1, <2>2, <2>5, <3>1 DEF OwnName
        <3>3. OwnName(j)
            <4>. SUFFICES ASSUME NEW m \in DOMAIN ntc_ifs, ntc_ifs[m].name = ntc_ifs[j].name PROVE m = j
                BY DEF OwnName
            <4>1. m + 1 = k
                BY <2>1, <2>2, <2>5, <3>2 DEF OwnName
            <4>. QED  BY <2>1, <3>2, <4>1
        <3>. QED  BY <1>0, <2>5, <3>2, <3>3 DEF AskedAreOfInterest
    <2>6. AskedAreOfInterest'
        BY <1>4, <2>5 DEF AskedAreOfInterest
    <2>. QED  BY <2>3, <2>4, <2>6
<1>. QED  BY <1>2, <1>3, <1>4, ListSteps

(* At the start there are no interfaces, and none was asked for.            *)
LEMMA InitNamed == Init => Named
<1>. SUFFICES ASSUME Init PROVE Named
    OBVIOUS
<1>1. ntc_ifs = <<>> /\ asked = {} /\ \A t \in Threads : pc[t] = "idle"
    BY DEF Init, FilterInit
<1>. QED  BY <1>1 DEF Named, NotSeen, NamesDistinct, AskedAreThere, AskedAreOfInterest

----------------------------------------------------------------------------
(* The inductive invariant holds in every state.                            *)
LEMMA IInvAlways == Spec => []IInv
<1>1. Init => IInv
    <2>1. Init => AlertIsExplained
        BY DEF Init, AlertIsExplained
    <2>. QED  BY <2>1, InitTypes, InitPlaces, InitNumbered, InitHanding, InitCounted, InitKnown, InitNamed,
                 InitLetThrough DEF IInv
<1>2. IInv /\ [Next]_vars => IInv'
    BY TypesKept, PlacesKept, NumberedKept, HandingKept, CountedKept, KnownKept, AlertKept, NamesKept,
       LetThroughKept DEF IInv
<1>. QED  BY <1>1, <1>2, PTL DEF Spec

(* At most one thread has written half a packet.                            *)
LEMMA StoringIs ==
    Types => Storing = Cardinality({t \in Threads : pc[t] = "length"})
<1>. SUFFICES ASSUME Types PROVE Storing = Cardinality({t \in Threads : pc[t] = "length"})
    OBVIOUS
<1>1. /\ \A t \in Threads : pkt_mutex = t <=> pc[t] = "length"
      /\ pkt_mutex \in Threads \cup {NoOne}
    BY DEF Types, ThreadTypes
<1>2. CASE pkt_mutex = NoOne
    <2>1. {t \in Threads : pc[t] = "length"} = {}
        BY <1>1, <1>2, FilterAssumption
    <2>. QED  BY <1>2, <2>1, FS_EmptySet DEF Storing
<1>3. CASE pkt_mutex # NoOne
    <2>1. {t \in Threads : pc[t] = "length"} = {pkt_mutex}
        BY <1>1, <1>3
    <2>. QED  BY <1>3, <2>1, FS_Singleton DEF Storing
<1>. QED  BY <1>2, <1>3

(* The first interface that has the numbers of one that has its own         *)
LEMMA FirstOfCell ==
    ASSUME NEW list \in Seq(IfaceType), NEW k \in DOMAIN list,
           \A j \in DOMAIN list : list[j].cell = list[k].cell => j = k
    PROVE  CellAt(list, list[k].cell) = k
<1>. DEFINE I == {i \in 1 .. Len(list) : list[i].cell = list[k].cell}
<1>1. CellAt(list, list[k].cell) = IF I # {} THEN Min(I) ELSE 0
    BY DEF CellAt, SelectInSeq
<1>2. DOMAIN list = 1 .. Len(list) /\ Len(list) \in Nat
    BY LenProperties
<1>3. I = {k} /\ k \in Nat
    BY <1>2
<1>4. Min(I) \in I
    <2>1. I # {} /\ I \in SUBSET Nat
        BY <1>3
    <2>. HIDE DEF I
    <2>. QED  BY <2>1, MinIn
<1>. QED  BY <1>1, <1>3, <1>4

----------------------------------------------------------------------------
(* Of the frames nfm-ntc has put into its queue, as many were taken out by  *)
(* NTC_FLUSH, wait in the queue, are to be copied to ntcread or have been;  *)
(* and of those that have been, as many wait to be counted, are in the log, *)
(* are in the table of the day or were lost with an ntcread that ended.     *)
(* None is given to ntcread twice unless a slot was written while a reply   *)
(* was copied from it (then a frame may be lost and another given twice,    *)
(* but no more often).                                                      *)
THEOREM PacketsAlwaysAddUp == Spec => []PacketsAddUp
<1>1. IInv => PacketsAddUp
    <2>. SUFFICES ASSUME IInv PROVE PacketsAddUp
        OBVIOUS
    <2>0. Types /\ Numbered /\ Handing /\ Counted
        BY DEF IInv
    <2>1. TypeOK
        BY <2>0, TypesAreOK
    <2>2. /\ TakenOut \in Nat /\ Logged \in Nat /\ OfTheDay \in Nat /\ lost \in Nat /\ flushed \in Nat
          /\ num_packets \in Nat /\ Storing \in {0, 1} /\ reply.left \in Nat /\ Len(packet) \in Nat
        BY <2>0, CountsAreNat DEF Numbered
    <2>3. Storing = Cardinality({t \in Threads : pc[t] = "length"})
        BY <2>0, StoringIs
    <2>4. /\ stored = flushed + num_packets + Storing + reply.left + TakenOut
          /\ TakenOut = Len(packet) + Logged + OfTheDay + lost
        BY <2>0, <2>2 DEF Counted, Taken
    <2>5. \A f \in Frames : got[f] <= 2 /\ (~clobbered => got[f] <= 1)
        BY <2>0 DEF Handing
    <2>6. \A k \in Waiting : k \in InUse /\ k \in Slots
        <3>1. num_packets =< Taken
            BY <2>2 DEF Taken
        <3>2. \A k \in Slots : k \in Int
            BY DEF Slots
        <3>3. \A k \in Slots : k < num_packets => k < Taken
            BY <2>2, <3>1, <3>2 DEF Taken
        <3>. QED  BY <3>3 DEF Waiting, InUse, Slots
    <2>7. ASSUME ~clobbered
          PROVE  /\ \A k \in Waiting : got[pktq[k].id] = 0
                 /\ \A j, k \in Waiting : pktq[j].id = pktq[k].id => j = k
        BY <2>0, <2>6, <2>7 DEF Handing, Handed, Numbered
    <2>. QED  BY <2>1, <2>3, <2>4, <2>5, <2>7 DEF PacketsAddUp, TakenOut, OfTheDay
<1>. QED  BY <1>1, IInvAlways, PTL

(* The unknown station that ended ntcread ("IT SHOULD NOT HAPPEN") comes    *)
(* from a reply whose slots were written while it was copied, or its card   *)
(* was taken out of the table.                                              *)
THEOREM AlertIsAlwaysExplained == Spec => []AlertIsExplained
<1>1. IInv => AlertIsExplained
    BY DEF IInv
<1>. QED  BY <1>1, IInvAlways, PTL

(* An interface that NTC_ADDIF found is watched until NTC_DELIF or until    *)
(* its adapter dies, whatever adapters announce, unless its name or numbers *)
(* are in the list twice; a name is there twice only after two threads have *)
(* announced at the same time; and no station is in the list of those let   *)
(* through more often than NTC_ADDBLOCK was called for it (it may be there  *)
(* less often: NTC_DELBLOCK of another drops it).                           *)
THEOREM AskedIsAlwaysKept == Spec => []AskedIsKept
<1>1. IInv => AskedIsKept
    <2>. SUFFICES ASSUME IInv PROVE AskedIsKept
        OBVIOUS
    <2>0. ntc_ifs \in Seq(IfaceType) /\ Named /\ LetThrough
        BY DEF IInv, Types, ListTypes
    <2>1. ~twin => \A k \in DOMAIN ntc_ifs : OwnName(k)
        BY <2>0 DEF Named, NamesDistinct, OwnName
    <2>2. ASSUME NEW k \in DOMAIN ntc_ifs, ntc_ifs[k].name \in asked, OwnName(k), OwnCell(k)
          PROVE  ntc_ifs[CellAt(ntc_ifs, ntc_ifs[k].cell)].ofinterest
        <3>1. CellAt(ntc_ifs, ntc_ifs[k].cell) = k
            BY <2>0, <2>2, FirstOfCell DEF OwnCell
        <3>2. ntc_ifs[k].ofinterest
            BY <2>0, <2>2 DEF Named, AskedAreOfInterest
        <3>. QED  BY <3>1, <3>2
    <2>3. \A c \in Clients : Cardinality({k \in DOMAIN blocklist : blocklist[k] = c}) <= allowed[c]
        BY <2>0 DEF LetThrough, Occurs, OccursIn
    <2>. QED  BY <2>1, <2>2, <2>3 DEF AskedIsKept
<1>. QED  BY <1>1, IInvAlways, PTL
=============================================================================
