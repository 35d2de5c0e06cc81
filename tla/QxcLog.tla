------------------------------- MODULE QxcLog -------------------------------
(***************************************************************************)
(* The double-buffered packet log of nfm-qxc (QX-billing/qxc_logging.c)    *)
(* with its three kinds of users: the io-net threads that store packets    *)
(* (log_store_pkt), the resource manager thread that swaps the two regions *)
(* (log_swap_log, on QXC_SWAP_GET_LOG) and the logger process that reads   *)
(* the region it was given through shared memory (qxl_main.c).             *)
(*                                                                         *)
(* An action is the code between two points where another thread can see a *)
(* difference: the atomic increment, the memcpy of a record, the plain     *)
(* store to active_count and the release of log_rwlock are separate steps. *)
(***************************************************************************)
EXTENDS Naturals, FiniteSets

CONSTANTS Threads,   \* io-net threads that may be inside the filter
          Packets,   \* packets, each seen once
          LogLimit,  \* log_limit: slots of a region
          NoPkt      \* content of a slot never written

ASSUME LogAssumption ==
    /\ LogLimit \in Nat \ {0}
    /\ NoPkt \notin Packets

Regions == {0, 1}          \* /dev/qxc_log0 and /dev/qxc_log1
Slots == 0 .. (LogLimit - 1)

VARIABLES
    logs,          \* content of the two shared memory regions
    active_log,    \* region the filter writes to
    shadow_log,    \* the other one
    active_count,  \* slots reserved in the active region (uint32_t)
    shadow_count,  \* slots used in the region swapped out last
    log_fd_num,    \* number of the region the next swap reports
    readers,       \* threads holding log_rwlock for reading
    pc,            \* where a packet thread is in log_store_pkt
    pkt,           \* its argument
    slot,          \* its local variable slot
    rm_pc,         \* where the resource manager is in log_swap_log
    tmp,           \* its local variable tmp
    captured_log,  \* logger: region it was told to read
    ret_val,       \* logger: number of packets in it
    counter,       \* logger: next packet to read
    fresh,         \* packets that have not arrived yet
    passed,        \* log_store_pkt returned 1: the packet went on
    blocked,       \* log_store_pkt returned 0: the packet was dropped
    billed         \* packets the logger has taken into a session

regionVars == <<logs, active_log, shadow_log, active_count, shadow_count, log_fd_num>>
threadVars == <<readers, pc, pkt, slot>>
rmVars == <<rm_pc, tmp>>
loggerVars == <<captured_log, ret_val, counter, billed>>
pktVars == <<fresh, passed, blocked>>
vars == <<regionVars, threadVars, rmVars, loggerVars, pktVars>>

----------------------------------------------------------------------------
log_init ==
    /\ logs = [r \in Regions |-> [s \in Slots |-> NoPkt]]
    /\ active_log = 0
    /\ shadow_log = 1
    /\ active_count = 0
    /\ shadow_count = 0
    /\ log_fd_num = 0

Init ==
    /\ log_init
    /\ readers = {}
    /\ pc = [t \in Threads |-> "idle"]
    /\ pkt = [t \in Threads |-> NoPkt]
    /\ slot = [t \in Threads |-> 0]
    /\ rm_pc = "idle"
    /\ tmp = 0
    /\ captured_log = 0
    /\ ret_val = 0
    /\ counter = 0
    /\ billed = {}
    /\ fresh = Packets
    /\ passed = {}
    /\ blocked = {}

(* The values and conditions the actions below are built from, each with    *)
(* the slips (named ..._slip) that the properties are meant to catch.       *)

(* pthread_rwlock_wrlock(&log_rwlock) succeeds *)
WriteLockFree == readers = {}

(* active_count after atomic_add_value(&active_count, 1) *)
CountAfterAdd_slip == active_count
CountAfterAdd == active_count + 1

(* active_count after a thread found the log full *)
CountAfterOverflow_slip == active_count
CountAfterOverflow == LogLimit

(* The count the swap reports *)
ReportedCount_slip == IF shadow_count > 0 THEN shadow_count - 1 ELSE 0
ReportedCount == shadow_count

(* log_fd_num after a swap *)
FlippedFd_slip == log_fd_num + 1
FlippedFd_slip_same == log_fd_num
FlippedFd == IF log_fd_num = 1 THEN 0 ELSE 1

(* log_store_pkt: called by qxc_rx_up and qxc_rx_down.  The writer holds    *)
(* log_rwlock only within the one action SwapRegions, so a reader is never  *)
(* found waiting for it.                                                    *)
StoreLock(t) ==
    /\ pc[t] = "idle"
    /\ \E p \in fresh :
          /\ pkt' = [pkt EXCEPT ![t] = p]
          /\ fresh' = fresh \ {p}
    /\ readers' = readers \cup {t}
    /\ pc' = [pc EXCEPT ![t] = "locked"]
    /\ UNCHANGED <<regionVars, slot, rmVars, loggerVars, passed, blocked>>

(* slot = atomic_add_value(&active_count, 1): the value before the addition *)
StoreReserve(t) ==
    /\ pc[t] = "locked"
    /\ slot' = [slot EXCEPT ![t] = active_count]
    /\ active_count' = CountAfterAdd
    /\ pc' = [pc EXCEPT ![t] = IF active_count < LogLimit THEN "copy" ELSE "clamp"]
    /\ UNCHANGED <<logs, active_log, shadow_log, shadow_count, log_fd_num,
                   readers, pkt, rmVars, loggerVars, pktVars>>

StoreCopy(t) ==
    /\ pc[t] = "copy"
    /\ logs' = [logs EXCEPT ![active_log][slot[t]] = pkt[t]]
    /\ pc' = [pc EXCEPT ![t] = "unlock"]
    /\ UNCHANGED <<active_log, shadow_log, active_count, shadow_count, log_fd_num,
                   readers, pkt, slot, rmVars, loggerVars, pktVars>>

(* The counter went past the limit: put it back *)
StoreClamp(t) ==
    /\ pc[t] = "clamp"
    /\ active_count' = CountAfterOverflow
    /\ pc' = [pc EXCEPT ![t] = "unlock"]
    /\ UNCHANGED <<logs, active_log, shadow_log, shadow_count, log_fd_num,
                   readers, pkt, slot, rmVars, loggerVars, pktVars>>

(* Unlock and return slot < log_limit: the caller passes or drops the packet *)
StoreUnlock(t) ==
    /\ pc[t] = "unlock"
    /\ readers' = readers \ {t}
    /\ pc' = [pc EXCEPT ![t] = "idle"]
    /\ pkt' = [pkt EXCEPT ![t] = NoPkt]
    /\ IF slot[t] < LogLimit
          THEN passed' = passed \cup {pkt[t]} /\ UNCHANGED blocked
          ELSE blocked' = blocked \cup {pkt[t]} /\ UNCHANGED passed
    /\ slot' = [slot EXCEPT ![t] = 0]
    /\ UNCHANGED <<regionVars, rmVars, loggerVars, fresh>>

(* log_swap_log: one QXC_SWAP_GET_LOG.  The logger sends it when it has     *)
(* worked off the log before and stays blocked until SwapReply.             *)
SwapRequest ==
    /\ rm_pc = "idle"
    /\ counter = ret_val
    /\ tmp' = active_log
    /\ rm_pc' = "wait"
    /\ UNCHANGED <<regionVars, threadVars, loggerVars, pktVars>>

(* The section under the write lock: no packet thread holds the lock *)
SwapRegions ==
    /\ rm_pc = "wait"
    /\ WriteLockFree
    /\ shadow_count' = active_count
    /\ active_count' = 0
    /\ active_log' = shadow_log
    /\ rm_pc' = "swapped"
    /\ UNCHANGED <<logs, shadow_log, log_fd_num, threadVars, tmp, loggerVars, pktVars>>

SwapReply ==
    /\ rm_pc = "swapped"
    /\ shadow_log' = tmp
    /\ ret_val' = ReportedCount
    /\ captured_log' = log_fd_num
    /\ counter' = 0
    /\ log_fd_num' = FlippedFd
    /\ rm_pc' = "idle"
    /\ UNCHANGED <<logs, active_log, active_count, shadow_count, threadVars, tmp,
                   billed, pktVars>>

(* One turn of the logger's loop that turns packets into sessions *)
LoggerRead ==
    /\ rm_pc = "idle"
    /\ counter < ret_val
    /\ billed' = billed \cup {logs[captured_log][counter]}
    /\ counter' = counter + 1
    /\ UNCHANGED <<regionVars, threadVars, rmVars, captured_log, ret_val, pktVars>>

Store(t) ==
    StoreLock(t) \/ StoreReserve(t) \/ StoreCopy(t) \/ StoreClamp(t) \/ StoreUnlock(t)

Swap == SwapRequest \/ SwapRegions \/ SwapReply

Next == (\E t \in Threads : Store(t)) \/ Swap \/ LoggerRead

Spec == Init /\ [][Next]_vars

(* Every thread inside the filter is scheduled, and so are the resource     *)
(* manager and the logger's endless loop; nothing makes packets arrive.     *)
Fairness ==
    /\ \A t \in Threads :
          WF_vars(StoreReserve(t) \/ StoreCopy(t) \/ StoreClamp(t) \/ StoreUnlock(t))
    /\ WF_vars(Swap)
    /\ WF_vars(LoggerRead)

FairSpec == Spec /\ Fairness

----------------------------------------------------------------------------
TypeOK ==
    /\ logs \in [Regions -> [Slots -> Packets \cup {NoPkt}]]
    /\ active_log \in Regions /\ shadow_log \in Regions /\ log_fd_num \in Regions
    /\ active_count \in Nat /\ shadow_count \in Nat
    /\ readers \subseteq Threads
    /\ pc \in [Threads -> {"idle", "locked", "copy", "clamp", "unlock"}]
    /\ pkt \in [Threads -> Packets \cup {NoPkt}]
    /\ slot \in [Threads -> Nat]
    /\ rm_pc \in {"idle", "wait", "swapped"}
    /\ tmp \in Regions
    /\ captured_log \in Regions /\ ret_val \in Nat /\ counter \in Nat
    /\ fresh \subseteq Packets /\ passed \subseteq Packets /\ blocked \subseteq Packets
    /\ billed \subseteq Packets \cup {NoPkt}

(* The logger never reads a record that a packet thread is still copying,   *)
(* although the shared memory regions are not protected by any lock: no     *)
(* thread inside memcpy targets the region the logger is working off.       *)
NoTornRead ==
    (rm_pc = "idle" /\ counter < ret_val) =>
        \A t \in Threads : pc[t] = "copy" => active_log # captured_log

(* The number of packets the logger is told to read never exceeds the size  *)
(* of the region, whatever the overshoot of active_count by threads that    *)
(* found the log full.                                                      *)
CountWithinRegion == ret_val <= LogLimit

(* Two threads never copy into the same slot of the region.                 *)
SlotsAreExclusive ==
    \A t, u \in Threads :
        (t # u /\ pc[t] = "copy" /\ pc[u] = "copy") => slot[t] # slot[u]

(* The ledger this log implements.  A packet counts as accepted from the    *)
(* moment its slot is reserved; the handover happens under the write lock.  *)
InFlight(s) == {t \in Threads : pc[t] = "copy" /\ slot[t] = s}

Occupant(s) ==
    IF InFlight(s) = {} THEN logs[active_log][s] ELSE pkt[CHOOSE t \in InFlight(s) : TRUE]

Pending == {Occupant(s) : s \in {i \in Slots : i < active_count}}

Captured ==
    IF rm_pc = "swapped"
      THEN {logs[tmp][s] : s \in {i \in Slots : i < shadow_count}}
      ELSE {logs[captured_log][s] : s \in {i \in Slots : counter <= i /\ i < ret_val}}

Refused ==
    blocked \cup
      {pkt[t] : t \in {u \in Threads : pc[u] = "clamp" \/ (pc[u] = "unlock" /\ slot[u] >= LogLimit)}}

Ledger == INSTANCE PktLedger WITH
    pending <- Pending, captured <- Captured, billed <- billed, refused <- Refused

(* log_store_pkt, log_swap_log and the logger's loop implement the ledger:  *)
(* no packet that passed is lost, handed over twice or charged twice, and   *)
(* a packet is only dropped for want of room when the log is really full.   *)
LedgerSpec == Ledger!Spec

(* A packet the filter let pass is eventually read by the logger.           *)
PassedIsBilled == \A p \in Packets : (p \in passed) ~> (p \in billed)
=============================================================================
