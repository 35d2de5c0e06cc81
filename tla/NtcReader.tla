----------------------------- MODULE NtcReader -----------------------------
(***************************************************************************)
(* ntcread (ntcread.c), the program that tells nfm-ntc whom to let through *)
(* and bills what passed: composed with the filter it reads from.          *)
(*                                                                         *)
(* A packet counts 1 for its station, whatever its session, length and     *)
(* direction.  The table of the day is one counter per station.            *)
(***************************************************************************)
EXTENDS NtcFilter, FiniteSetsExt

CONSTANTS Interest,   \* name of the adapter ntcread counts on
          LogPeriod   \* reads that found something before the log is saved

ASSUME ReaderAssumption ==
    /\ Interest \in Names /\ LogPeriod \in Nat \ {0}
    /\ IsFiniteSet(Clients) /\ IsFiniteSet(Setups)

VARIABLES
    nics,       \* table NICS: registered cards
    open,       \* table NICS: those that are not closed
    place,      \* ntcread: where it is, "off" if it does not run
    known,      \* ntcread: the cards it read when it was started
    toAllow,    \* ntcread: open cards it has still to allow
    packet,     \* ntcread: the packets it read
    LOG,        \* ntcread: packets counted per station and not saved
    ItIsTimeToLog,
    tlog,       \* table of the day: packets per station
    alert,      \* the unknown station that ended ntcread
    removed,    \* (history) cards that were taken out of the table
    lost,       \* (history) packets that ntcread had read and not saved when it ended
    got         \* (history) how often ntcread was handed each frame

tableVars == <<nics, open, tlog>>
readerVars == <<place, known, toAllow, packet, LOG, ItIsTimeToLog, alert>>
vars == <<filterVars, tableVars, readerVars, removed, lost, got>>

Nobody == "nobody"
Frames == 1 .. Max({s.frames : s \in Setups})
None == [c \in Clients |-> 0]

Init ==
    /\ FilterInit
    /\ nics = Clients /\ open = Clients /\ tlog = None
    /\ place = "off" /\ known = {} /\ toAllow = {} /\ packet = <<>> /\ LOG = None
    /\ ItIsTimeToLog = 0 /\ alert = Nobody
    /\ removed = {} /\ lost = 0 /\ got = [f \in Frames |-> 0]

----------------------------------------------------------------------------
(* Started: it reads the cards of the table, ...                            *)
Start ==
    /\ place = "off"
    /\ place' = "addif" /\ known' = nics /\ toAllow' = open
    /\ packet' = <<>> /\ LOG' = None /\ ItIsTimeToLog' = 0 /\ alert' = Nobody
    /\ UNCHANGED <<filterVars, tableVars, removed, lost, got>>

(* ... names the interface, whose absence it only reports, ...              *)
AddIf ==
    /\ place = "addif" /\ SetInterest(Interest, TRUE)
    /\ place' = "allow"
    /\ UNCHANGED <<budget, tableVars, known, toAllow, packet, LOG, ItIsTimeToLog, alert, removed, lost, got>>

(* ... and allows every open card.                                          *)
Allow ==
    /\ place = "allow"
    /\ \/ \E c \in toAllow : AddBlock(c) /\ toAllow' = toAllow \ {c} /\ UNCHANGED place
       \/ toAllow = {} /\ place' = "read" /\ UNCHANGED <<filterVars, toAllow>>
    /\ UNCHANGED <<budget, tableVars, known, packet, LOG, ItIsTimeToLog, alert, removed, lost, got>>

(* Step 1: read; an answer without packets changes nothing: it sleeps and   *)
(* tries again.                                                             *)
Read ==
    /\ place = "read" /\ num_packets > 0
    /\ NtcRead
    /\ packet' = <<>>
    /\ place' = "reply"
    /\ UNCHANGED <<tableVars, known, toAllow, LOG, ItIsTimeToLog, alert, removed, lost, got>>

Reply ==
    /\ place = "reply"
    /\ IF Serving
          THEN /\ CopySlot
               /\ packet' = Append(packet, pktq[reply.next])
               /\ got' = [got EXCEPT ![pktq[reply.next].id] = @ + 1]
               /\ UNCHANGED place
          ELSE place' = "count" /\ UNCHANGED <<filterVars, packet, got>>
    /\ UNCHANGED <<tableVars, known, toAllow, LOG, ItIsTimeToLog, alert, removed, lost>>

(* Step 2: the packets are added to the sessions of their stations; one of  *)
(* a station that was not in the table ends the program.                    *)
Unknown == {k \in DOMAIN packet : Station(packet[k]) \notin known}
CountOf(c) == Cardinality({k \in DOMAIN packet : Station(packet[k]) = c})
Logged == MapThenSumSet(LAMBDA c : LOG[c], Clients)

Alert ==
    /\ place = "count" /\ Unknown # {}
    /\ alert' = Station(packet[Min(Unknown)])
    /\ place' = "off" /\ packet' = <<>> /\ LOG' = None
    /\ lost' = lost + Len(packet) + Logged
    /\ UNCHANGED <<filterVars, tableVars, known, toAllow, ItIsTimeToLog, removed, got>>

(* Step 4: the log is saved every LogPeriod rounds that had packets         *)
Count ==
    /\ place = "count" /\ Unknown = {}
    /\ LOG' = [c \in Clients |-> LOG[c] + CountOf(c)]
    /\ packet' = <<>>
    /\ ItIsTimeToLog' = ItIsTimeToLog + 1
    /\ place' = IF ItIsTimeToLog' = LogPeriod THEN "save" ELSE "read"
    /\ UNCHANGED <<filterVars, tableVars, known, toAllow, alert, removed, lost, got>>

(* The sessions of a card go to the table of the day and are freed          *)
AfterSave_slip(c) == LOG
AfterSave(c) == [LOG EXCEPT ![c] = 0]

Save(c) ==
    /\ place = "save" /\ LOG[c] > 0
    /\ tlog' = [tlog EXCEPT ![c] = @ + LOG[c]]
    /\ LOG' = AfterSave(c)
    /\ UNCHANGED <<filterVars, nics, open, place, known, toAllow, packet, ItIsTimeToLog, alert, removed, lost, got>>

SaveEnd ==
    /\ place = "save" /\ LOG = None
    /\ ItIsTimeToLog' = 0
    /\ place' = "read"
    /\ UNCHANGED <<filterVars, tableVars, known, toAllow, packet, LOG, alert, removed, lost, got>>

(* It exits when the device or the table of the day fails it; what it had   *)
(* not saved is lost, and the filter keeps its lists.                       *)
Exit ==
    /\ place \in {"addif", "allow", "read", "save"} /\ Spend("exits")
    /\ place' = "off" /\ LOG' = None
    /\ lost' = lost + Logged
    /\ UNCHANGED <<queueVars, listVars, threadVars, askVars, sent, stored, flushed, clobbered, twin,
                   num_pkt_blocked, reply, tableVars, known, toAllow, packet, ItIsTimeToLog, alert, removed, got>>

(* The administrator closes a card or takes it out of the table, which a    *)
(* running ntcread does not see, or commands the filter himself.            *)
TakeOut(c) ==
    /\ open' = open \ {c}
    /\ \/ nics' = nics \ {c} /\ removed' = removed \cup {c}
       \/ UNCHANGED <<nics, removed>>
    /\ UNCHANGED <<queueVars, listVars, askVars, flushed, reply>>

Command ==
    /\ \/ Flush
       \/ \E c \in Clients : DelBlock(c)
       \/ SetInterest(Interest, FALSE)
    /\ UNCHANGED <<nics, open, removed>>

Administrate ==
    /\ Spend("admin")
    /\ Command \/ \E c \in nics : TakeOut(c)
    /\ UNCHANGED <<tlog, readerVars, lost, got, threadVars, sent, stored, clobbered, twin, num_pkt_blocked>>

Reader == AddIf \/ Allow \/ Read \/ Reply \/ Alert \/ Count \/ SaveEnd \/ \E c \in Clients : Save(c)

Network ==
    /\ \E t \in Threads :
          \/ Thread(t)
          \/ \E c \in Clients, dir \in {"in", "out"} : Frame(t, c, dir)
          \/ \E cell \in Cells : Dying(t, cell) \/ \E name \in Names : Advert(t, name, cell)
    /\ UNCHANGED <<tableVars, readerVars, removed, lost, got>>

Next == Reader \/ Start \/ Exit \/ Administrate \/ Network

Spec == Init /\ [][Next]_vars

(* The reader's loop goes on and every io-net thread inside the filter runs *)
FairSpec ==
    Spec /\ WF_vars(Reader)
         /\ \A t \in Threads : WF_vars(Thread(t) /\ UNCHANGED <<tableVars, readerVars, removed, lost, got>>)

----------------------------------------------------------------------------
TypeOK ==
    /\ ntc_ifs \in Seq([name : Names, cell : Cells \cup {NoCell}, dead : BOOLEAN, ofinterest : BOOLEAN])
    /\ blocklist \in Seq(Clients)
    /\ num_packets \in 0 .. pkt_log_limit /\ num_pkt_missed \in Nat /\ num_pkt_blocked \in Nat
    /\ pkt_mutex \in Threads \cup {NoOne}
    /\ pc \in [Threads -> {"idle", "iface", "scan", "log", "length", "dying", "advert", "link", "cell"}]
    /\ reply \in [next : Nat, left : 0 .. MaxPktRead]
    /\ known \subseteq Clients /\ open \subseteq nics /\ nics \subseteq Clients
    /\ place \in {"off", "addif", "allow", "read", "reply", "count", "save"}
    /\ LOG \in [Clients -> Nat] /\ tlog \in [Clients -> Nat] /\ ItIsTimeToLog \in 0 .. LogPeriod

(* Frames that wait in the queue or in a reply                              *)
Waiting == {k \in 0 .. pkt_log_limit - 1 : k < num_packets \/ k \in InReply}

(* Every frame that was let through and found room is read exactly once,    *)
(* unless the queue fills into the slots of a reply that is still being     *)
(* copied: then a frame may be lost and another read twice, but the numbers *)
(* still agree, and those of the table of the day lack only what ntcread    *)
(* had not saved when it ended.                                             *)
PacketsAddUp ==
    /\ TypeOK
    /\ LET taken == MapThenSumSet(LAMBDA f : got[f], Frames)
           storing == Cardinality({t \in Threads : pc[t] = "length"})
       IN /\ stored = flushed + num_packets + storing + reply.left + taken
          /\ taken = Len(packet) + Logged + MapThenSumSet(LAMBDA c : tlog[c], Clients) + lost
    /\ \A f \in Frames : got[f] <= 2
    /\ ~clobbered =>
          /\ \A f \in Frames : got[f] <= 1
          /\ \A k \in Waiting : got[pktq[k].id] = 0
          /\ \A j, k \in Waiting : pktq[j].id = pktq[k].id => j = k

(* "IT SHOULD NOT HAPPEN": ntcread is ended by a frame of a station it does *)
(* not know only if the reply was overwritten, or if the station's card was *)
(* taken out of the table while the filter went on letting it through.      *)
AlertIsExplained == alert = Nobody \/ clobbered \/ alert \in removed

(* The filter keeps to what it was told.  Only two threads that announce an *)
(* interface at the same time make two entries of one name.  An interface   *)
(* that was asked for, and has not died since, is watched whatever is       *)
(* announced after it, unless there is another entry of its name, or of its *)
(* numbers (that of a dead interface).  No station is in the list of those  *)
(* that are let through more often than it was allowed; but it may be       *)
(* missing, for NTC_DELBLOCK of another drops it (AfterDel).                *)
OwnName(k) == \A j \in DOMAIN ntc_ifs : ntc_ifs[j].name = ntc_ifs[k].name => j = k
OwnCell(k) == \A j \in DOMAIN ntc_ifs : ntc_ifs[j].cell = ntc_ifs[k].cell => j = k
AskedIsKept ==
    /\ ~twin => \A k \in DOMAIN ntc_ifs : OwnName(k)
    /\ \A k \in DOMAIN ntc_ifs :
          ntc_ifs[k].name \in asked /\ ntc_ifs[k].cell # NoCell /\ OwnName(k) /\ OwnCell(k)
              => ntc_ifs[CellAt(ntc_ifs, ntc_ifs[k].cell)].ofinterest
    /\ \A c \in Clients : Cardinality({k \in DOMAIN blocklist : blocklist[k] = c}) <= allowed[c]

(* When no more frames come, what is in the queue is read as long as        *)
(* ntcread runs, although it is read from its end and in pieces.  (While    *)
(* they keep coming, a frame at the bottom may wait for ever.)              *)
QueueDrains == (budget.frames = 0 /\ num_packets > 0) ~> (num_packets = 0 \/ place = "off")
=============================================================================
