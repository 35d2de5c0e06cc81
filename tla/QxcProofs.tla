------------------------------ MODULE QxcProofs -----------------------------
(***************************************************************************)
(* Proofs about the two parts of nfm-qxc: the packet log (QxcLog), for any *)
(* number of threads, packets and slots, and the rules (QxcRules), for any *)
(* threads, cards, exemptions and limits.  The two share no variable.      *)
(***************************************************************************)
EXTENDS QxcLog, QxcRules, FiniteSetTheorems, WellFoundedInduction, TLAPS

(* A thread holds log_rwlock exactly while it is inside log_store_pkt.      *)
Holders == \A t \in Threads : t \in readers <=> pc[t] # "idle"

(* A thread inside log_store_pkt has a packet of its caller.                *)
BusyHasPacket == \A t \in Threads : pc[t] # "idle" => pkt[t] \in Packets

(* The counter is above the limit only while a thread that overshot it has  *)
(* not yet put it back.                                                     *)
OvershootIsOwned == active_count > LogLimit => \E t \in Threads : pc[t] = "clamp"

(* A reserved slot is inside the region and below the counter.              *)
CopyBelowCount ==
    \A t \in Threads : pc[t] = "copy" => slot[t] \in Slots /\ slot[t] < active_count

(* Which region plays which role at each point of log_swap_log.             *)
RegionRoles ==
    /\ rm_pc \in {"idle", "wait"} => active_log # shadow_log /\ log_fd_num = active_log
    /\ rm_pc = "wait" => tmp = active_log
    /\ rm_pc = "swapped" =>
          active_log = shadow_log /\ tmp # active_log /\ log_fd_num = tmp

(* What the logger was told, and that it waits while a swap is in progress. *)
LoggerView ==
    /\ counter <= ret_val
    /\ rm_pc # "idle" => counter = ret_val
    /\ (rm_pc = "idle" /\ counter < ret_val) => captured_log = shadow_log
    /\ ret_val <= LogLimit
    /\ rm_pc = "swapped" => shadow_count <= LogLimit

(* The inductive invariant: the properties of QxcLog follow from it.        *)
IInv ==
    /\ TypeOK
    /\ Holders
    /\ BusyHasPacket
    /\ OvershootIsOwned
    /\ CopyBelowCount
    /\ SlotsAreExclusive
    /\ RegionRoles
    /\ LoggerView

(* The state log_init leaves behind satisfies the invariant.                *)
LEMMA InitIInv == Init => IInv
  BY LogAssumption
  DEF Init, log_init, IInv, TypeOK, Holders, BusyHasPacket, OvershootIsOwned, CopyBelowCount,
      SlotsAreExclusive, RegionRoles, LoggerView, Regions, Slots

(* Every step of log_store_pkt, log_swap_log and the logger keeps it.       *)
LEMMA NextIInv == IInv /\ [Next]_vars => IInv'
<1> SUFFICES ASSUME IInv, [Next]_vars PROVE IInv'
  OBVIOUS
<1> USE LogAssumption
<1>1. ASSUME NEW t \in Threads, StoreLock(t) PROVE IInv'
  BY <1>1 DEF IInv, StoreLock, regionVars, rmVars, loggerVars, TypeOK, Holders, BusyHasPacket, OvershootIsOwned,
       CopyBelowCount, SlotsAreExclusive, RegionRoles, LoggerView
<1>2. ASSUME NEW t \in Threads, StoreReserve(t) PROVE IInv'
  <2> USE <1>2 DEF IInv, StoreReserve, CountAfterAdd, rmVars, loggerVars, pktVars
  <2>1. TypeOK' BY DEF TypeOK
  <2>2. Holders' /\ BusyHasPacket' BY DEF TypeOK, Holders, BusyHasPacket
  <2>3. OvershootIsOwned' BY DEF TypeOK, OvershootIsOwned
  <2>4. CopyBelowCount' BY DEF TypeOK, CopyBelowCount, Slots
  <2>5. SlotsAreExclusive' BY DEF TypeOK, CopyBelowCount, SlotsAreExclusive
  <2>6. RegionRoles' /\ LoggerView' BY DEF RegionRoles, LoggerView
  <2> QED BY <2>1, <2>2, <2>3, <2>4, <2>5, <2>6
<1>3. ASSUME NEW t \in Threads, StoreCopy(t) PROVE IInv'
  <2> USE <1>3 DEF IInv, StoreCopy, rmVars, loggerVars, pktVars
  <2>1. TypeOK' BY DEF TypeOK
  <2>2. Holders' /\ BusyHasPacket' /\ OvershootIsOwned'
    BY DEF TypeOK, Holders, BusyHasPacket, OvershootIsOwned
  <2>3. CopyBelowCount' /\ SlotsAreExclusive' BY DEF TypeOK, CopyBelowCount, SlotsAreExclusive
  <2>4. RegionRoles' /\ LoggerView' BY DEF RegionRoles, LoggerView
  <2> QED BY <2>1, <2>2, <2>3, <2>4
<1>4. ASSUME NEW t \in Threads, StoreClamp(t) PROVE IInv'
  <2> USE <1>4 DEF IInv, StoreClamp, CountAfterOverflow, rmVars, loggerVars, pktVars
  <2>1. TypeOK' BY DEF TypeOK
  <2>2. Holders' /\ BusyHasPacket' /\ OvershootIsOwned'
    BY DEF TypeOK, Holders, BusyHasPacket, OvershootIsOwned
  <2>3. CopyBelowCount' /\ SlotsAreExclusive'
    BY DEF TypeOK, CopyBelowCount, SlotsAreExclusive, Slots
  <2>4. RegionRoles' /\ LoggerView' BY DEF RegionRoles, LoggerView
  <2> QED BY <2>1, <2>2, <2>3, <2>4
<1>5. ASSUME NEW t \in Threads, StoreUnlock(t) PROVE IInv'
  <2> USE <1>5 DEF IInv, StoreUnlock, regionVars, rmVars, loggerVars
  <2>0. t \in readers /\ pkt[t] \in Packets BY DEF Holders, BusyHasPacket
  <2>1. TypeOK' BY <2>0 DEF TypeOK
  <2>2. Holders' /\ BusyHasPacket' /\ OvershootIsOwned'
    BY DEF TypeOK, Holders, BusyHasPacket, OvershootIsOwned
  <2>3. CopyBelowCount' /\ SlotsAreExclusive' BY DEF TypeOK, CopyBelowCount, SlotsAreExclusive
  <2>4. RegionRoles' /\ LoggerView' BY DEF RegionRoles, LoggerView
  <2> QED BY <2>1, <2>2, <2>3, <2>4
<1>6. CASE SwapRequest
  BY <1>6 DEF IInv, SwapRequest, regionVars, threadVars, loggerVars, pktVars, TypeOK, Holders, BusyHasPacket,
       OvershootIsOwned, CopyBelowCount, SlotsAreExclusive, RegionRoles, LoggerView
<1>7. CASE SwapRegions
  <2> USE <1>7 DEF IInv, SwapRegions, WriteLockFree, threadVars, loggerVars, pktVars
  <2>1. \A t \in Threads : pc[t] = "idle" BY DEF Holders
  <2>2. active_count <= LogLimit BY <2>1 DEF OvershootIsOwned, TypeOK
  <2>3. TypeOK' BY DEF TypeOK
  <2>4. Holders' /\ BusyHasPacket' /\ OvershootIsOwned'
    BY <2>1 DEF Holders, BusyHasPacket, OvershootIsOwned
  <2>5. CopyBelowCount' /\ SlotsAreExclusive' BY <2>1 DEF CopyBelowCount, SlotsAreExclusive
  <2>6. RegionRoles' /\ LoggerView' BY <2>2 DEF TypeOK, RegionRoles, LoggerView, Regions
  <2> QED BY <2>3, <2>4, <2>5, <2>6
<1>8. CASE SwapReply
  <2> USE <1>8 DEF IInv, SwapReply, ReportedCount, FlippedFd, threadVars, pktVars
  <2>1. TypeOK' BY DEF TypeOK, Regions
  <2>2. Holders' /\ BusyHasPacket' /\ OvershootIsOwned' /\ CopyBelowCount' /\ SlotsAreExclusive'
    BY DEF Holders, BusyHasPacket, OvershootIsOwned, CopyBelowCount, SlotsAreExclusive
  <2>3. RegionRoles' /\ LoggerView' BY DEF TypeOK, RegionRoles, LoggerView, Regions
  <2> QED BY <2>1, <2>2, <2>3
<1>9. CASE LoggerRead
  <2> USE <1>9 DEF IInv, LoggerRead, regionVars, threadVars, rmVars, pktVars
  <2>1. counter \in Slots BY DEF TypeOK, LoggerView, Slots
  <2>2. TypeOK' BY <2>1 DEF TypeOK
  <2>3. Holders' /\ BusyHasPacket' /\ OvershootIsOwned' /\ CopyBelowCount' /\ SlotsAreExclusive'
    BY DEF Holders, BusyHasPacket, OvershootIsOwned, CopyBelowCount, SlotsAreExclusive
  <2>4. RegionRoles' /\ LoggerView' BY DEF TypeOK, RegionRoles, LoggerView
  <2> QED BY <2>2, <2>3, <2>4
<1>10. CASE UNCHANGED vars
  BY <1>10 DEF IInv, vars, regionVars, threadVars, rmVars, loggerVars, pktVars, TypeOK, Holders, BusyHasPacket,
       OvershootIsOwned, CopyBelowCount, SlotsAreExclusive, RegionRoles, LoggerView
<1> QED
  BY <1>1, <1>2, <1>3, <1>4, <1>5, <1>6, <1>7, <1>8, <1>9, <1>10 DEF Next, Store, Swap

(* The invariant holds in every reachable state.                            *)
LEMMA LogInvariant == Spec => []IInv
  BY InitIInv, NextIInv, PTL DEF Spec

(* All variables keep their types: in particular the logger never takes a   *)
(* record from outside the region.                                          *)
THEOREM LogTypeCorrect == Spec => []TypeOK
<1>1. IInv => TypeOK BY DEF IInv
<1> QED BY LogInvariant, <1>1, PTL

(* log_store_pkt and the logger never touch the same region at the same     *)
(* time, although the logger takes no lock.                                 *)
THEOREM LogNoTornRead == Spec => []NoTornRead
<1>1. IInv => NoTornRead BY DEF IInv, RegionRoles, LoggerView, NoTornRead
<1> QED BY LogInvariant, <1>1, PTL

(* The count log_swap_log reports fits the region, however many threads     *)
(* overshot active_count at the same time.                                  *)
THEOREM LogCountWithinRegion == Spec => []CountWithinRegion
<1>1. IInv => CountWithinRegion BY DEF IInv, LoggerView, CountWithinRegion
<1> QED BY LogInvariant, <1>1, PTL

(* atomic_add_value gives every thread a slot of its own.                   *)
THEOREM LogSlotsAreExclusive == Spec => []SlotsAreExclusive
<1>1. IInv => SlotsAreExclusive BY DEF IInv
<1> QED BY LogInvariant, <1>1, PTL

----------------------------------------------------------------------------
(* The refinement: log_store_pkt, log_swap_log and the logger implement the *)
(* ledger of PktLedger.                                                     *)

(* Packets of threads that hold the lock and have not reserved a slot yet.  *)
Waiting == {pkt[t] : t \in {u \in Threads : pc[u] = "locked"}}

Known == Pending \cup Captured \cup billed \cup Refused

(* A packet is on one side of log_store_pkt only.                           *)
ArrivesOnce ==
    /\ Pending \cup Captured \subseteq Packets
    /\ fresh \cap (Known \cup Waiting) = {}
    /\ Waiting \cap Known = {}
    /\ \A t, u \in Threads :
          (pc[t] = "locked" /\ pc[u] = "locked" /\ pkt[t] = pkt[u]) => t = u

(* No two slots in use hold the same packet, in the region being filled and *)
(* in the region being read.                                                *)
SlotsDiffer ==
    /\ \A i, j \in Slots :
          (i < active_count /\ j < active_count /\ Occupant(i) = Occupant(j)) => i = j
    /\ rm_pc = "swapped" =>
          \A i, j \in Slots :
             (i < shadow_count /\ j < shadow_count /\ logs[tmp][i] = logs[tmp][j]) => i = j
    /\ rm_pc # "swapped" =>
          \A i, j \in Slots :
             (/\ counter <= i /\ i < ret_val /\ counter <= j /\ j < ret_val
              /\ logs[captured_log][i] = logs[captured_log][j]) => i = j

(* A thread that found the log full has not changed that yet.               *)
FullWhileClamping ==
    \A t \in Threads : pc[t] = "clamp" => slot[t] >= LogLimit /\ active_count >= LogLimit

PktInv == ArrivesOnce /\ SlotsDiffer /\ FullWhileClamping

(* What a slot holds: the packet of the thread that is copying into it, or  *)
(* else the record in the region.                                           *)
OccupantIs(s) ==
    /\ \A t \in Threads : (pc[t] = "copy" /\ slot[t] = s) => Occupant(s) = pkt[t]
    /\ (\A t \in Threads : ~(pc[t] = "copy" /\ slot[t] = s)) => Occupant(s) = logs[active_log][s]

(* Because two threads never copy into the same slot, a slot has one        *)
(* occupant.                                                                *)
LEMMA OneOccupant == SlotsAreExclusive => \A s \in Slots : OccupantIs(s)
<1> SUFFICES ASSUME SlotsAreExclusive, NEW s \in Slots PROVE OccupantIs(s)
  OBVIOUS
<1>1. ASSUME NEW t \in Threads, pc[t] = "copy", slot[t] = s PROVE Occupant(s) = pkt[t]
  <2>1. InFlight(s) = {t} BY <1>1 DEF InFlight, SlotsAreExclusive
  <2>2. (CHOOSE u \in InFlight(s) : TRUE) = t BY <2>1
  <2> QED BY <2>1, <2>2 DEF Occupant
<1>2. ASSUME \A t \in Threads : ~(pc[t] = "copy" /\ slot[t] = s)
      PROVE  Occupant(s) = logs[active_log][s]
  BY <1>2 DEF InFlight, Occupant
<1> QED BY <1>1, <1>2 DEF OccupantIs

(* The accepted packets are as many as the reserved slots.                  *)
LEMMA PendingCount ==
    ASSUME TypeOK, SlotsDiffer
    PROVE  /\ active_count < LogLimit => Cardinality(Pending) < LogLimit
           /\ active_count >= LogLimit => Cardinality(Pending) = LogLimit
<1> USE LogAssumption
<1> DEFINE n == IF active_count < LogLimit THEN active_count ELSE LogLimit
           f == [i \in 0 .. (n - 1) |-> Occupant(i)]
<1>1. n \in Nat /\ active_count \in Nat BY DEF TypeOK
<1>2. {i \in Slots : i < active_count} = 0 .. (n - 1) BY <1>1 DEF Slots
<1>3. f \in Bijection(0 .. (n - 1), Pending)
  <2> HIDE DEF n
  <2>1. Pending = {Occupant(i) : i \in 0 .. (n - 1)} BY <1>2 DEF Pending
  <2>2. f \in Injection(0 .. (n - 1), Pending)
    BY <1>2, <2>1 DEF Injection, SlotsDiffer, IsInjective
  <2>3. f \in Surjection(0 .. (n - 1), Pending) BY <2>1 DEF Surjection
  <2> QED BY <2>2, <2>3 DEF Bijection
<1>4. IsFiniteSet(0 .. (n - 1)) /\ Cardinality(0 .. (n - 1)) = n
  BY <1>1, FS_Interval
<1>5. Cardinality(Pending) = n
  <2> HIDE DEF n, f
  <2> QED BY <1>3, <1>4, FS_Bijection DEF ExistsBijection
<1> QED BY <1>1, <1>5

(* The ledger counts as this module does.                                   *)
LEMMA SameCount == \A S : Ledger!Cardinality(S) = Cardinality(S)
  BY Zenon DEF Ledger!Cardinality, Cardinality

(* Every step of log_store_pkt, log_swap_log and the logger is a step of    *)
(* the ledger or leaves it alone, and keeps the invariant above.            *)
LEMMA LedgerStep ==
    ASSUME IInv, IInv', PktInv, [Next]_vars
    PROVE  PktInv' /\ [Ledger!Next]_Ledger!lvars
<1> USE LogAssumption DEF PktInv
<1>o. /\ \A s \in Slots : OccupantIs(s)
      /\ \A s \in Slots : OccupantIs(s)'
  <2>1. SlotsAreExclusive => \A s \in Slots : OccupantIs(s) BY OneOccupant
  <2>2. SlotsAreExclusive' => (\A s \in Slots : OccupantIs(s))' BY OneOccupant, PTL
  <2> QED BY <2>1, <2>2 DEF IInv
<1>1. ASSUME NEW t \in Threads, StoreLock(t) PROVE PktInv' /\ [Ledger!Next]_Ledger!lvars
  <2> USE <1>1 DEF StoreLock, regionVars, rmVars, loggerVars
  <2> PICK p \in fresh : pkt' = [pkt EXCEPT ![t] = p] /\ fresh' = fresh \ {p} BY <1>1
  <2>0. p \in Packets /\ TypeOK BY DEF IInv, TypeOK
  <2>1. \A s \in Slots : Occupant(s)' = Occupant(s) BY <1>o, <2>0 DEF OccupantIs, TypeOK
  <2>2. Pending' = Pending /\ Captured' = Captured BY <2>1 DEF Pending, Captured
  <2>3. Refused' = Refused BY <2>0 DEF Refused, TypeOK
  <2>4. Waiting' = Waiting \cup {p} BY <2>0 DEF Waiting, TypeOK
  <2>5. ArrivesOnce'
    <3>1. Known' = Known BY <2>2, <2>3 DEF Known
    <3>2. \A u \in Threads : pc[u] = "locked" => pkt[u] # p BY DEF ArrivesOnce, Waiting
    <3> QED BY <2>0, <2>2, <2>4, <3>1, <3>2 DEF ArrivesOnce, TypeOK
  <2>6. SlotsDiffer' BY <2>1 DEF SlotsDiffer
  <2>7. FullWhileClamping' BY <2>0 DEF FullWhileClamping, TypeOK
  <2> QED BY <2>2, <2>3, <2>5, <2>6, <2>7 DEF Ledger!lvars
<1>2. ASSUME NEW t \in Threads, StoreReserve(t), active_count < LogLimit
      PROVE  PktInv' /\ [Ledger!Next]_Ledger!lvars
  <2> USE <1>2 DEF StoreReserve, CountAfterAdd, rmVars, loggerVars, pktVars
  <2> DEFINE p == pkt[t]
  <2>0. TypeOK /\ p \in Packets /\ p \in Waiting /\ active_count \in Slots
    BY DEF IInv, TypeOK, BusyHasPacket, Waiting, Slots
  <2>1. /\ \A s \in Slots : s # active_count => Occupant(s)' = Occupant(s)
        /\ \A s \in Slots : s = active_count => Occupant(s)' = p
    <3>1. pc' = [pc EXCEPT ![t] = "copy"] BY <2>0 DEF TypeOK
    <3>2. ASSUME NEW s \in Slots, s # active_count PROVE Occupant(s)' = Occupant(s)
      <4>1. \A u \in Threads : (pc[u] = "copy" /\ slot[u] = s)' <=> (pc[u] = "copy" /\ slot[u] = s)
        BY <2>0, <3>1, <3>2 DEF TypeOK
      <4> QED BY <1>o, <4>1 DEF OccupantIs
    <3>3. \A s \in Slots : s = active_count => Occupant(s)' = p
      BY <1>o, <2>0, <3>1 DEF OccupantIs, TypeOK
    <3> QED BY <3>2, <3>3
  <2>2. Pending' = Pending \cup {p}
    <3>1. \A s \in Slots : s < active_count' <=> s < active_count \/ s = active_count
      BY <2>0 DEF Slots, TypeOK
    <3>2. \A x : x \in Pending' <=> \E s \in Slots : s < active_count' /\ x = Occupant(s)' BY DEF Pending
    <3>3. \A x : x \in Pending <=> \E s \in Slots : s < active_count /\ x = Occupant(s) BY DEF Pending
    <3>4. p \in Pending' BY <2>0, <2>1, <3>1, <3>2
    <3>5. ASSUME NEW x PROVE x \in Pending' => (x \in Pending \/ x = p) BY <2>1, <3>1, <3>2, <3>3
    <3>6. ASSUME NEW x PROVE x \in Pending => x \in Pending'
      <4> SUFFICES ASSUME NEW s \in Slots, s < active_count, x = Occupant(s) PROVE x \in Pending'
        BY <3>3
      <4>1. s # active_count BY <2>0 DEF Slots, TypeOK
      <4> QED BY <2>1, <3>1, <3>2, <4>1
    <3> QED BY <3>4, <3>5, <3>6
  <2>3. Captured' = Captured /\ Refused' = Refused BY <2>0 DEF Captured, Refused, TypeOK, Slots
  <2>4. Waiting' = Waiting \ {p} BY <2>0 DEF Waiting, TypeOK, ArrivesOnce
  <2>5. p \notin Known BY <2>0 DEF ArrivesOnce
  <2>6. Known' = Known \cup {p} BY <2>2, <2>3 DEF Known
  <2>7. ArrivesOnce'
    BY <2>0, <2>2, <2>3, <2>4, <2>6 DEF ArrivesOnce, TypeOK
  <2>8. SlotsDiffer'
    <3>1. \A s \in Slots : s < active_count => Occupant(s) # p
      BY <2>5 DEF Known, Pending
    <3>2. \A s \in Slots : s < active_count' => s < active_count \/ s = active_count
      BY <2>0 DEF Slots, TypeOK
    <3>3. \A i, j \in Slots :
             (i < active_count /\ j < active_count /\ Occupant(i) = Occupant(j))' => i = j
      BY <2>0, <2>1, <3>1, <3>2 DEF SlotsDiffer
    <3> QED BY <3>3 DEF SlotsDiffer
  <2>9. Ledger!Accept(p)
    BY <2>0, <2>2, <2>3, <2>5, PendingCount, SameCount DEF Ledger!Accept, Ledger!Known, Known
  <2>10. FullWhileClamping' BY <2>0 DEF FullWhileClamping, TypeOK
  <2> QED BY <2>0, <2>7, <2>8, <2>9, <2>10 DEF Ledger!Next
<1>3. ASSUME NEW t \in Threads, StoreReserve(t), ~(active_count < LogLimit)
      PROVE  PktInv' /\ [Ledger!Next]_Ledger!lvars
  <2> USE <1>3 DEF StoreReserve, CountAfterAdd, rmVars, loggerVars, pktVars
  <2> DEFINE p == pkt[t]
  <2>0. TypeOK /\ p \in Packets /\ p \in Waiting
    BY DEF IInv, TypeOK, BusyHasPacket, Waiting
  <2>1. \A s \in Slots : Occupant(s)' = Occupant(s) /\ s < active_count /\ s < active_count'
    <3>1. pc' = [pc EXCEPT ![t] = "clamp"] BY <2>0 DEF TypeOK
    <3>2. \A s \in Slots : Occupant(s)' = Occupant(s) BY <1>o, <2>0, <3>1 DEF OccupantIs, TypeOK
    <3>3. \A s \in Slots : s < active_count /\ s < active_count' BY <2>0 DEF TypeOK, Slots
    <3> QED BY <3>2, <3>3
  <2>2. Pending' = Pending /\ Captured' = Captured BY <2>1 DEF Pending, Captured
  <2>3. Refused' = Refused \cup {p} BY <2>0 DEF Refused, TypeOK
  <2>4. Waiting' = Waiting \ {p} BY <2>0 DEF Waiting, TypeOK, ArrivesOnce
  <2>5. p \notin Known BY <2>0 DEF ArrivesOnce
  <2>6. Known' = Known \cup {p} BY <2>2, <2>3 DEF Known
  <2>7. ArrivesOnce'
    BY <2>0, <2>2, <2>4, <2>6 DEF ArrivesOnce, TypeOK
  <2>8. SlotsDiffer' BY <2>1 DEF SlotsDiffer
  <2>9. Ledger!Refuse(p)
    BY <2>0, <2>2, <2>3, <2>5, PendingCount, SameCount DEF Ledger!Refuse, Ledger!Known, Known, TypeOK
  <2>10. FullWhileClamping' BY <2>0 DEF FullWhileClamping, TypeOK
  <2> QED BY <2>0, <2>7, <2>8, <2>9, <2>10 DEF Ledger!Next
<1>4. ASSUME NEW t \in Threads, StoreCopy(t) PROVE PktInv' /\ [Ledger!Next]_Ledger!lvars
  <2> USE <1>4 DEF StoreCopy, rmVars, loggerVars, pktVars
  <2>0. TypeOK /\ slot[t] \in Slots /\ slot[t] < LogLimit /\ t \in readers
    BY DEF IInv, TypeOK, CopyBelowCount, Slots, Holders
  <2>1. \A s \in Slots : Occupant(s)' = Occupant(s)
    <3>1. ASSUME NEW s \in Slots, s # slot[t] PROVE Occupant(s)' = Occupant(s)
      BY <1>o, <2>0, <3>1 DEF OccupantIs, TypeOK
    <3>2. Occupant(slot[t])' = pkt[t]
      <4>1. \A u \in Threads : ~(pc[u] = "copy" /\ slot[u] = slot[t])'
        BY <2>0 DEF TypeOK, IInv, SlotsAreExclusive
      <4>2. Occupant(slot[t])' = logs'[active_log'][slot[t]] BY <1>o, <2>0, <4>1 DEF OccupantIs
      <4> QED BY <2>0, <4>2 DEF TypeOK
    <3>3. Occupant(slot[t]) = pkt[t] BY <1>o, <2>0 DEF OccupantIs
    <3> QED BY <3>1, <3>2, <3>3
  <2>2. Pending' = Pending BY <2>1 DEF Pending
  <2>3. /\ rm_pc = "swapped" => logs'[tmp] = logs[tmp]
        /\ (rm_pc # "swapped" /\ counter < ret_val) => logs'[captured_log] = logs[captured_log]
    BY <2>0 DEF IInv, TypeOK, RegionRoles, LoggerView
  <2>4. Captured' = Captured
    <3>1. CASE rm_pc = "swapped" BY <2>3, <3>1 DEF Captured
    <3>2. CASE rm_pc # "swapped" /\ counter < ret_val BY <2>3, <3>2 DEF Captured
    <3>3. CASE rm_pc # "swapped" /\ ~(counter < ret_val)
      <4>1. \A i \in Slots : ~(counter <= i /\ i < ret_val) BY <2>0, <3>3 DEF TypeOK, Slots
      <4> QED BY <3>3, <4>1 DEF Captured
    <3> QED BY <3>1, <3>2, <3>3
  <2>5. Refused' = Refused
    <3>1. \A u \in Threads : (pc'[u] = "clamp" \/ (pc'[u] = "unlock" /\ slot[u] >= LogLimit))
                          <=> (pc[u] = "clamp" \/ (pc[u] = "unlock" /\ slot[u] >= LogLimit))
      BY <2>0 DEF TypeOK, Slots
    <3> QED BY <3>1 DEF Refused
  <2>6. Waiting' = Waiting BY <2>0 DEF Waiting, TypeOK
  <2>7. ArrivesOnce' BY <2>0, <2>2, <2>4, <2>5, <2>6 DEF ArrivesOnce, Known, TypeOK
  <2>8. SlotsDiffer'
    <3>1. \A i \in Slots : (counter <= i /\ i < ret_val) => counter < ret_val BY <2>0 DEF TypeOK, Slots
    <3> QED BY <2>1, <2>3, <3>1 DEF SlotsDiffer
  <2>9. FullWhileClamping' BY <2>0 DEF FullWhileClamping, TypeOK
  <2> QED BY <2>2, <2>4, <2>5, <2>7, <2>8, <2>9 DEF Ledger!lvars
<1>5. ASSUME NEW t \in Threads, StoreClamp(t) PROVE PktInv' /\ [Ledger!Next]_Ledger!lvars
  <2> USE <1>5 DEF StoreClamp, CountAfterOverflow, rmVars, loggerVars, pktVars
  <2>0. TypeOK /\ active_count >= LogLimit /\ slot[t] >= LogLimit
    BY DEF IInv, FullWhileClamping
  <2>1. \A s \in Slots : Occupant(s)' = Occupant(s) /\ s < active_count /\ s < active_count'
    <3>1. \A s \in Slots : Occupant(s)' = Occupant(s) BY <1>o, <2>0 DEF OccupantIs, TypeOK
    <3>2. \A s \in Slots : s < active_count /\ s < active_count' BY <2>0 DEF TypeOK, Slots
    <3> QED BY <3>1, <3>2
  <2>2. Pending' = Pending /\ Captured' = Captured BY <2>1 DEF Pending, Captured
  <2>3. Refused' = Refused BY <2>0 DEF Refused, TypeOK
  <2>4. Waiting' = Waiting BY <2>0 DEF Waiting, TypeOK
  <2>5. ArrivesOnce' BY <2>0, <2>2, <2>3, <2>4 DEF ArrivesOnce, Known, TypeOK
  <2>6. SlotsDiffer' BY <2>1 DEF SlotsDiffer
  <2>7. FullWhileClamping' BY <2>0 DEF FullWhileClamping, TypeOK
  <2> QED BY <2>2, <2>3, <2>5, <2>6, <2>7 DEF Ledger!lvars
<1>6. ASSUME NEW t \in Threads, StoreUnlock(t) PROVE PktInv' /\ [Ledger!Next]_Ledger!lvars
  <2> USE <1>6 DEF StoreUnlock, regionVars, rmVars, loggerVars
  <2>0. TypeOK BY DEF IInv
  <2>1. \A s \in Slots : Occupant(s)' = Occupant(s)
    <3>1. \A u \in Threads : pc[u] = "copy" => pkt'[u] = pkt[u] /\ slot'[u] = slot[u]
      BY <2>0 DEF TypeOK
    <3>2. \A u \in Threads : pc'[u] = "copy" <=> pc[u] = "copy" BY <2>0 DEF TypeOK
    <3> QED BY <1>o, <3>1, <3>2 DEF OccupantIs
  <2>2. Pending' = Pending /\ Captured' = Captured BY <2>1 DEF Pending, Captured
  <2>3. Refused' = Refused BY <2>0 DEF Refused, TypeOK
  <2>4. Waiting' = Waiting BY <2>0 DEF Waiting, TypeOK
  <2>5. ArrivesOnce' BY <2>0, <2>2, <2>3, <2>4 DEF ArrivesOnce, Known, TypeOK
  <2>6. SlotsDiffer' BY <2>1 DEF SlotsDiffer
  <2>7. FullWhileClamping' BY <2>0 DEF FullWhileClamping, TypeOK
  <2> QED BY <2>2, <2>3, <2>5, <2>6, <2>7 DEF Ledger!lvars
<1>7. CASE SwapRequest
  <2> USE <1>7 DEF SwapRequest, regionVars, threadVars, loggerVars, pktVars
  <2>1. \A s \in Slots : Occupant(s)' = Occupant(s) BY <1>o DEF OccupantIs
  <2>2. Pending' = Pending /\ Refused' = Refused /\ Waiting' = Waiting
    BY <2>1 DEF Pending, Refused, Waiting
  <2>3. Captured' = Captured BY DEF Captured
  <2>4. ArrivesOnce' BY <2>2, <2>3 DEF ArrivesOnce, Known
  <2>5. SlotsDiffer' /\ FullWhileClamping' BY <2>1 DEF SlotsDiffer, FullWhileClamping
  <2> QED BY <2>2, <2>3, <2>4, <2>5 DEF Ledger!lvars
<1>8. CASE SwapRegions
  <2> USE <1>8 DEF SwapRegions, WriteLockFree, threadVars, loggerVars, pktVars
  <2>0. TypeOK /\ \A t \in Threads : pc[t] = "idle" BY DEF IInv, Holders
  <2>1. \A s \in Slots : Occupant(s) = logs[tmp][s]
    BY <1>o, <2>0 DEF OccupantIs, IInv, RegionRoles
  <2>2. Captured = {} BY DEF IInv, LoggerView, TypeOK, Captured, Slots
  <2>3. Captured' = Pending BY <2>1 DEF Captured, Pending
  <2>4. Pending' = {} BY DEF Pending, Slots
  <2>5. Refused' = Refused /\ Waiting' = Waiting BY DEF Refused, Waiting
  <2>6. ArrivesOnce' BY <2>2, <2>3, <2>4, <2>5 DEF ArrivesOnce, Known
  <2>7. SlotsDiffer' BY <2>1 DEF SlotsDiffer, Slots
  <2>8. FullWhileClamping' BY <2>0 DEF FullWhileClamping
  <2>9. Ledger!HandOver BY <2>2, <2>3, <2>4, <2>5 DEF Ledger!HandOver
  <2> QED BY <2>6, <2>7, <2>8, <2>9 DEF Ledger!Next
<1>9. CASE SwapReply
  <2> USE <1>9 DEF SwapReply, ReportedCount, threadVars, pktVars
  <2>0. log_fd_num = tmp /\ TypeOK BY DEF IInv, RegionRoles
  <2>1. \A s \in Slots : Occupant(s)' = Occupant(s) BY <1>o DEF OccupantIs
  <2>2. Pending' = Pending /\ Refused' = Refused /\ Waiting' = Waiting
    BY <2>1 DEF Pending, Refused, Waiting
  <2>3. Captured' = Captured BY <2>0 DEF Captured, Slots
  <2>4. ArrivesOnce' BY <2>2, <2>3 DEF ArrivesOnce, Known
  <2>5. SlotsDiffer' /\ FullWhileClamping' BY <2>0, <2>1 DEF SlotsDiffer, FullWhileClamping
  <2> QED BY <2>2, <2>3, <2>4, <2>5 DEF Ledger!lvars
<1>10. CASE LoggerRead
  <2> USE <1>10 DEF LoggerRead, regionVars, threadVars, rmVars, pktVars
  <2> DEFINE p == logs[captured_log][counter]
  <2>0. TypeOK /\ counter \in Slots BY DEF IInv, TypeOK, LoggerView, Slots
  <2>1. \A s \in Slots : Occupant(s)' = Occupant(s) BY <1>o DEF OccupantIs
  <2>2. Pending' = Pending /\ Refused' = Refused /\ Waiting' = Waiting
    BY <2>1 DEF Pending, Refused, Waiting
  <2>3. p \in Captured BY <2>0 DEF Captured, TypeOK
  <2>4. Captured' = Captured \ {p}
    <3>1. \A s \in Slots : counter' <= s <=> (counter <= s /\ s # counter) BY <2>0 DEF TypeOK, Slots
    <3> QED BY <2>0, <3>1 DEF Captured, SlotsDiffer, TypeOK
  <2>5. ArrivesOnce' BY <2>2, <2>3, <2>4 DEF ArrivesOnce, Known
  <2>6. SlotsDiffer'
    <3>1. \A s \in Slots : counter' <= s => counter <= s BY <2>0 DEF TypeOK, Slots
    <3> QED BY <2>1, <3>1 DEF SlotsDiffer
  <2>7. FullWhileClamping' BY DEF FullWhileClamping
  <2>8. Ledger!Bill(p) BY <2>2, <2>3, <2>4 DEF Ledger!Bill
  <2>9. p \in Packets BY <2>3 DEF ArrivesOnce
  <2> QED BY <2>5, <2>6, <2>7, <2>8, <2>9 DEF Ledger!Next
<1>11. CASE UNCHANGED vars
  BY <1>11 DEF vars, regionVars, threadVars, rmVars, loggerVars, pktVars, ArrivesOnce, SlotsDiffer,
       FullWhileClamping, Known, Waiting, Pending, Captured, Refused, Occupant, InFlight, Ledger!lvars
<1> QED
  BY <1>1, <1>2, <1>3, <1>4, <1>5, <1>6, <1>7, <1>8, <1>9, <1>10, <1>11 DEF Next, Store, Swap

(* log_init leaves the ledger empty.                                        *)
LEMMA LedgerInit == Init => PktInv /\ Ledger!Init
<1> SUFFICES ASSUME Init PROVE PktInv /\ Ledger!Init
  OBVIOUS
<1> USE LogAssumption DEF Init, log_init
<1>1. Pending = {} /\ Captured = {} /\ Refused = {} /\ Waiting = {}
  BY DEF Pending, Captured, Refused, Waiting, Slots
<1> QED BY <1>1 DEF PktInv, ArrivesOnce, SlotsDiffer, FullWhileClamping, Known, Slots, Ledger!Init

(* No packet that passed log_store_pkt is lost, handed over twice or        *)
(* charged twice, and one is dropped only when the log is really full.      *)
THEOREM LogImplementsLedger == Spec => LedgerSpec
<1>1. Init => PktInv /\ Ledger!Init BY LedgerInit
<1>2. IInv /\ IInv' /\ PktInv /\ [Next]_vars => PktInv' /\ [Ledger!Next]_Ledger!lvars
  BY LedgerStep
<1> QED BY <1>1, <1>2, LogInvariant, PTL DEF Spec, LedgerSpec, Ledger!Spec

----------------------------------------------------------------------------
(* The rules of the same filter *)

(* The rules and the arrays of nodes *)
Pairs == [mac : Macs, ip : Ips]
Trees == [Nodes -> [rule : Pairs, left : Links, right : Links]]

(* Where rule_add_nic and rule_match_client go from node n for a card *)
Side(tree, n, mac) == IF tree[n].rule.mac < mac THEN tree[n].left ELSE tree[n].right

(* A set of nodes that the way of a card does not leave; the nodes on the   *)
(* way from n are those in every such set with n.                           *)
Stays(tree, C, mac) == \A c \in C : Side(tree, c, mac) # NULL => Side(tree, c, mac) \in C
Leads(tree, n, k, mac) ==
    \A C \in SUBSET Nodes : n \in C /\ Stays(tree, C, mac) => k \in C

(* Links go to later nodes of the first m, or nowhere *)
Linking(tree, m) ==
    \A n \in 0 .. m - 1 :
        /\ tree[n].left = NULL \/ (tree[n].left \in 0 .. m - 1 /\ tree[n].left > n)
        /\ tree[n].right = NULL \/ (tree[n].right \in 0 .. m - 1 /\ tree[n].right > n)

(* The first m nodes are a search tree of the rules R *)
IsTree(tree, m, R) ==
    /\ Linking(tree, m)
    /\ R = {tree[n].rule : n \in 0 .. m - 1}
    /\ \A n \in 0 .. m - 1 : Leads(tree, 0, n, tree[n].rule.mac)

(* Every set of numbers has a smallest one *)
LEMMA LeastIn ==
    ASSUME NEW S \in SUBSET Nat, S # {}
    PROVE  \E x \in S : \A y \in S : x =< y
<1>1. PICK x \in S : \A y \in S : ~ (<<y, x>> \in OpToRel(<, Nat))
    BY NatLessThanWellFounded, WFMin
<1>2. \A y \in S : x =< y
    <2>. TAKE y \in S
    <2>1. <<y, x>> \in Nat \X Nat /\ <<y, x>>[1] = y /\ <<y, x>>[2] = x
        OBVIOUS
    <2>2. ~ (y < x)
        BY <1>1, <2>1 DEF OpToRel
    <2>. QED  BY <2>2
<1>. QED  BY <1>2

(* A way goes on: if it leads from n to another node, it leaves n by a link *)
(* and leads on from there.                                                 *)
LEMMA StepLeads ==
    ASSUME NEW tree, NEW n \in Nodes, NEW k, NEW mac, Leads(tree, n, k, mac), k # n
    PROVE  Side(tree, n, mac) # NULL /\ Leads(tree, Side(tree, n, mac), k, mac)
<1>1. Side(tree, n, mac) # NULL
    <2>. SUFFICES ASSUME Side(tree, n, mac) = NULL PROVE FALSE
        OBVIOUS
    <2>1. {n} \in SUBSET Nodes /\ n \in {n} /\ Stays(tree, {n}, mac)
        BY DEF Stays
    <2>. QED  BY <2>1 DEF Leads
<1>2. ASSUME NEW C \in SUBSET Nodes, Side(tree, n, mac) \in C, Stays(tree, C, mac)
      PROVE  k \in C
    <2>1. C \cup {n} \in SUBSET Nodes /\ n \in C \cup {n} /\ Stays(tree, C \cup {n}, mac)
        BY <1>2 DEF Stays
    <2>2. k \in C \cup {n}
        BY <2>1 DEF Leads
    <2>. QED  BY <2>2
<1>. QED  BY <1>1, <1>2 DEF Leads

(* A way that leads to a node leads to the next one *)
LEMMA LeadsOn ==
    ASSUME NEW tree, NEW n, NEW k, NEW mac, Leads(tree, n, k, mac), Side(tree, k, mac) # NULL
    PROVE  Leads(tree, n, Side(tree, k, mac), mac)
BY DEF Leads, Stays

(* A way among the first m nodes is still there in a tree that only has new *)
(* links where there were none.                                             *)
LEMMA LeadsKept ==
    ASSUME NEW tree, NEW new, NEW m \in 1 .. NcLimit, NEW mac, NEW k,
           Leads(tree, 0, k, mac),
           \A n \in 0 .. m - 1 :
               \/ Side(tree, n, mac) = NULL
               \/ Side(tree, n, mac) \in 0 .. m - 1 /\ Side(new, n, mac) = Side(tree, n, mac)
    PROVE  Leads(new, 0, k, mac)
<1> SUFFICES ASSUME NEW C \in SUBSET Nodes, 0 \in C, Stays(new, C, mac) PROVE k \in C
    BY DEF Leads
<1>1. PICK B : B = 0 .. m - 1
    OBVIOUS
<1>2. 0 \in B /\ NULL \notin B
    BY <1>1, RulesAssumption DEF NULL
<1>3. Stays(tree, C \cap B, mac)
    BY <1>1, <1>2 DEF Stays
<1>4. 0 \in C \cap B /\ C \cap B \in SUBSET Nodes
    BY <1>2
<1>. QED  BY <1>3, <1>4 DEF Leads

(* One step of the walk of rule_add_nic; it stays at the last node          *)
Down(tree, n, mac) == IF Side(tree, n, mac) = NULL THEN n ELSE Side(tree, n, mac)
IsWalk(f, tree, mac, j) ==
    f = [k \in 0 .. j |-> IF k = 0 THEN 0 ELSE Down(tree, f[k - 1], mac)]

(* There is a walk of any length                                            *)
LEMMA WalkExists ==
    ASSUME NEW tree, NEW mac, NEW j \in Nat
    PROVE  \E f : IsWalk(f, tree, mac, j)
<1>. DEFINE P(l) == \E f : IsWalk(f, tree, mac, l)
            S == {l \in Nat : ~ P(l)}
<1>. SUFFICES ASSUME S # {} PROVE FALSE
    OBVIOUS
<1>1. PICK l \in S : \A y \in S : l =< y
    <2>. HIDE DEF P
    <2>1. S \in SUBSET Nat
        OBVIOUS
    <2>. HIDE DEF S
    <2>. QED  BY <2>1, LeastIn
<1>2. l \in Nat /\ ~ P(l)
    BY <1>1
<1>3. P(0)
    <2>1. PICK f : f = [k \in 0 .. 0 |-> 0]
        OBVIOUS
    <2>2. f = [k \in 0 .. 0 |-> IF k = 0 THEN 0 ELSE Down(tree, f[k - 1], mac)]
        BY <2>1
    <2>. QED  BY <2>2 DEF IsWalk
<1>4. l # 0
    BY <1>2, <1>3
<1>5. l - 1 \in Nat /\ l - 1 < l
    BY <1>2, <1>4
<1>6. P(l - 1)
    <2>. HIDE DEF P
    <2>. QED  BY <1>5, <1>1
<1>7. PICK f : IsWalk(f, tree, mac, l - 1)
    BY <1>6
<1>8. PICK g : g = [k \in 0 .. l |-> IF k = 0 THEN 0 ELSE Down(tree, f[k - 1], mac)]
    OBVIOUS
<1>9. \A k \in 0 .. l : k # 0 => k - 1 \in 0 .. l - 1 /\ k - 1 \in 0 .. l
    BY <1>2
<1>10. \A k \in 0 .. l - 1 : g[k] = f[k]
    <2>1. \A k \in 0 .. l - 1 : k \in 0 .. l
        BY <1>2
    <2>. QED  BY <1>7, <1>8, <2>1 DEF IsWalk
<1>11. g = [k \in 0 .. l |-> IF k = 0 THEN 0 ELSE Down(tree, g[k - 1], mac)]
    BY <1>8, <1>9, <1>10
<1>12. P(l)
    BY <1>11 DEF IsWalk
<1>. QED  BY <1>2, <1>12

(* Parent returns where such a walk ends                                    *)
LEMMA ParentWalks ==
    ASSUME NEW tree, NEW mac
    PROVE  \E f : IsWalk(f, tree, mac, NcLimit) /\ Parent(tree, mac) = f[NcLimit]
<1>. DEFINE down[k \in 0 .. NcLimit] ==
          IF k = 0 THEN 0
          ELSE LET n == tree[down[k - 1]]
                   next == IF GoesLeft(mac, n) THEN n.left ELSE n.right
               IN IF next = NULL THEN down[k - 1] ELSE next
<1>1. Parent(tree, mac) = down[NcLimit]
    BY DEF Parent
<1>2. PICK f : IsWalk(f, tree, mac, NcLimit)
    BY WalkExists, RulesAssumption
<1>3. f = [k \in 0 .. NcLimit |->
          IF k = 0 THEN 0
          ELSE LET n == tree[f[k - 1]]
                   next == IF GoesLeft(mac, n) THEN n.left ELSE n.right
               IN IF next = NULL THEN f[k - 1] ELSE next]
    BY <1>2 DEF IsWalk, Down, Side, GoesLeft
<1>4. down = [k \in 0 .. NcLimit |->
          IF k = 0 THEN 0
          ELSE LET n == tree[down[k - 1]]
                   next == IF GoesLeft(mac, n) THEN n.left ELSE n.right
               IN IF next = NULL THEN down[k - 1] ELSE next]
    BY <1>3, Zenon
<1>5. IsWalk(down, tree, mac, NcLimit)
    <2>. HIDE DEF down
    <2>. QED  BY <1>4 DEF IsWalk, Down, Side, GoesLeft
<1>. QED  BY <1>1, <1>5

(* rule_add_nic links a node under one that its card leads to and that has  *)
(* no link yet on that side.                                                *)
LEMMA ParentIsThere ==
    ASSUME NEW m \in 1 .. NcLimit, NEW tree \in Trees, NEW mac, Linking(tree, m)
    PROVE  /\ Parent(tree, mac) \in 0 .. m - 1
           /\ Side(tree, Parent(tree, mac), mac) = NULL
           /\ Leads(tree, 0, Parent(tree, mac), mac)
<1>1. PICK f : IsWalk(f, tree, mac, NcLimit) /\ Parent(tree, mac) = f[NcLimit]
    BY ParentWalks
<1>. DEFINE P(l) == /\ f[l] \in 0 .. m - 1
                    /\ Leads(tree, 0, f[l], mac)
                    /\ f[l] >= l \/ Side(tree, f[l], mac) = NULL
            S == {l \in 0 .. NcLimit : ~ P(l)}
<1>2. S = {}
    <2>1. SUFFICES ASSUME S # {} PROVE FALSE
        OBVIOUS
    <2>2. PICK l \in S : \A y \in S : l =< y
        <3>1. S \in SUBSET Nat
            BY RulesAssumption
        <3>. HIDE DEF S
        <3>. QED  BY <2>1, <3>1, LeastIn
    <2>3. l \in 0 .. NcLimit /\ ~ P(l)
        BY <2>2
    <2>4. CASE l = 0
        <3>1. f[0] = 0
            BY RulesAssumption, <1>1 DEF IsWalk
        <3>2. Leads(tree, 0, 0, mac)
            BY DEF Leads
        <3>. QED  BY <2>3, <2>4, <3>1, <3>2
    <2>5. CASE l # 0
        <3>1. l - 1 \in 0 .. NcLimit /\ l - 1 < l /\ NcLimit \in Nat
            BY <2>3, <2>5, RulesAssumption
        <3>2. P(l - 1)
            <4>. HIDE DEF P
            <4>. QED  BY <3>1, <2>2
        <3>3. PICK a \in 0 .. m - 1 : a = f[l - 1]
            BY <3>2
        <3>4. f[l] = Down(tree, a, mac)
            BY <1>1, <2>3, <2>5, <3>3 DEF IsWalk
        <3>5. CASE Side(tree, a, mac) = NULL
            BY <3>5, <3>4, <3>3, <3>2, <2>3 DEF Down
        <3>6. CASE Side(tree, a, mac) # NULL
            <4>1. f[l] = Side(tree, a, mac)
                BY <3>4, <3>6 DEF Down
            <4>2. f[l] \in 0 .. m - 1 /\ f[l] > a
                BY <4>1, <3>6, <3>3 DEF Linking, Side
            <4>3. Leads(tree, 0, f[l], mac)
                BY <4>1, <3>2, <3>3, <3>6, LeadsOn
            <4>4. a >= l - 1
                BY <3>2, <3>3, <3>6
            <4>. QED  BY <2>3, <4>2, <4>3, <4>4
        <3>. QED  BY <3>5, <3>6
    <2>. QED  BY <2>4, <2>5
<1>3. NcLimit \in 0 .. NcLimit /\ NcLimit \in Nat
    BY RulesAssumption
<1>4. P(NcLimit)
    <2>. HIDE DEF P
    <2>. QED  BY <1>2, <1>3
<1>. QED  BY <1>1, <1>3, <1>4

(* rule_add_nic adds its rule to the tree: the first m nodes were one of R, *)
(* the first m + 1 are one of R and the new rule.                           *)
LEMMA LinkedIsTree ==
    ASSUME NEW m \in 0 .. NcLimit - 1, NEW tree \in Trees, NEW r \in Pairs, NEW R,
           IsTree(tree, m, R)
    PROVE  Linked(tree, m, r) \in Trees /\ IsTree(Linked(tree, m, r), m + 1, R \cup {r})
<1>1. m \in Nodes /\ m \in Nat /\ NcLimit \in Nat /\ NULL \in Links /\ NULL = NcLimit /\ NULL # m
    BY RulesAssumption DEF Nodes, Links, NULL
<1>2. PICK new : new = [tree EXCEPT ![m] = NewNode(r)]
    OBVIOUS
<1>3. new \in Trees /\ new[m] = NewNode(r) /\ \A n \in Nodes : n # m => new[n] = tree[n]
    BY <1>1, <1>2 DEF Trees, NewNode
<1>4. CASE m = 0
    <2>1. Linked(tree, m, r) = new
        BY <1>4, <1>2 DEF Linked, IsFirst
    <2>2. R = {}
        BY <1>4 DEF IsTree
    <2>3. \A n \in 0 .. 0 : n = 0
        OBVIOUS
    <2>4. new[0].rule = r /\ new[0].left = NULL /\ new[0].right = NULL
        BY <1>3, <1>4 DEF NewNode
    <2>5. Linking(new, 1)
        BY <2>4, <2>3 DEF Linking
    <2>6. {r} = {new[n].rule : n \in 0 .. 0}
        BY <2>4, <2>3
    <2>7. Leads(new, 0, 0, r.mac)
        BY DEF Leads
    <2>8. IsTree(new, 1, {r})
        BY <2>3, <2>4, <2>5, <2>6, <2>7 DEF IsTree
    <2>. QED  BY <1>3, <1>4, <2>1, <2>2, <2>8
<1>5. CASE m # 0
    <2>1. m \in 1 .. NcLimit /\ 0 .. m - 1 \subseteq Nodes /\ m \notin 0 .. m - 1
        BY <1>1, <1>5 DEF Nodes
    <2>2. \A n \in 0 .. m - 1 : new[n] = tree[n]
        BY <2>1, <1>3
    <2>3. Linking(new, m)
        BY <2>2 DEF IsTree, Linking
    <2>4. PICK p : p = Parent(new, r.mac)
        OBVIOUS
    <2>5. p \in 0 .. m - 1 /\ Side(new, p, r.mac) = NULL /\ Leads(new, 0, p, r.mac)
        BY <2>1, <2>3, <2>4, <1>3, ParentIsThere
    <2>6. PICK all : all = Linked(tree, m, r)
        OBVIOUS
    <2>7. all = IF GoesLeft(r.mac, new[p]) THEN [new EXCEPT ![p].left = m]
                ELSE [new EXCEPT ![p].right = m]
        BY <2>6, <2>4, <1>2, <1>5 DEF Linked, IsFirst
    <2>8. p \in Nodes /\ p # m /\ m \in Links
        BY <2>5, <2>1, <1>1 DEF Links
    <2>9. all \in Trees
        BY <2>7, <2>8, <1>3 DEF Trees
    <2>10. \A n \in Nodes : n # p => all[n] = new[n]
        BY <2>7, <1>3 DEF Trees
    <2>11. /\ all[p].rule = new[p].rule
           /\ new[p].rule.mac < r.mac => all[p].left = m /\ all[p].right = new[p].right
           /\ ~ (new[p].rule.mac < r.mac) => all[p].right = m /\ all[p].left = new[p].left
        BY <2>7, <2>8, <1>3 DEF Trees, GoesLeft
    <2>12. \A n \in Nodes : all[n].rule = new[n].rule
        BY <2>10, <2>11
    <2>13. Linking(all, m + 1)
        <3>. SUFFICES ASSUME NEW n \in 0 .. m
                      PROVE  /\ all[n].left = NULL \/ (all[n].left \in 0 .. m /\ all[n].left > n)
                             /\ all[n].right = NULL \/ (all[n].right \in 0 .. m /\ all[n].right > n)
            BY <1>1 DEF Linking
        <3>1. CASE n = m
            BY <3>1, <2>10, <2>8, <1>1, <1>3 DEF NewNode
        <3>2. CASE n \in 0 .. m - 1 /\ n # p
            BY <3>2, <2>10, <2>1, <2>3, <1>1 DEF Linking
        <3>3. CASE n = p
            <4>1. /\ new[p].left = NULL \/ (new[p].left \in 0 .. m - 1 /\ new[p].left > p)
                  /\ new[p].right = NULL \/ (new[p].right \in 0 .. m - 1 /\ new[p].right > p)
                BY <2>3, <2>5 DEF Linking
            <4>2. m > p /\ m \in 0 .. m
                BY <2>5, <1>1
            <4>. QED  BY <3>3, <4>1, <4>2, <2>11, <1>1
        <3>. QED  BY <3>1, <3>2, <3>3, <1>1
    <2>14. R \cup {r} = {all[n].rule : n \in 0 .. m}
        <3>1. R = {all[n].rule : n \in 0 .. m - 1}
            BY <2>12, <2>2, <2>1 DEF IsTree
        <3>2. 0 .. m = (0 .. m - 1) \cup {m}
            BY <1>1
        <3>3. all[m].rule = r
            BY <2>12, <1>1, <1>3 DEF NewNode
        <3>. QED  BY <3>1, <3>2, <3>3
    <2>15. \A n \in 0 .. m - 1 : \A mac :
              \/ Side(new, n, mac) = NULL
              \/ Side(new, n, mac) \in 0 .. m - 1
        BY <2>3 DEF Linking, Side
    <2>16. ASSUME NEW n \in 0 .. m - 1, NEW mac \in Macs, Side(new, n, mac) # NULL
           PROVE  Side(all, n, mac) = Side(new, n, mac)
        <3>1. CASE n # p
            BY <3>1, <2>10, <2>1 DEF Side
        <3>2. CASE n = p
            <4>1. ~ (new[p].rule.mac < mac <=> new[p].rule.mac < r.mac)
                BY <2>16, <3>2, <2>5 DEF Side
            <4>. QED  BY <4>1, <3>2, <2>11 DEF Side
        <3>. QED  BY <3>1, <3>2
    <2>17. \A mac \in Macs : \A k : Leads(new, 0, k, mac) => Leads(all, 0, k, mac)
        BY <2>1, <2>15, <2>16, LeadsKept
    <2>18. r.mac \in Macs /\ \A n \in 0 .. m - 1 : tree[n].rule.mac \in Macs
        BY <2>1 DEF Pairs, Trees
    <2>19. ASSUME NEW n \in 0 .. m - 1 PROVE Leads(all, 0, n, all[n].rule.mac)
        <3>1. PICK mac \in Macs : mac = tree[n].rule.mac
            BY <2>18
        <3>2. Leads(tree, 0, n, mac)
            BY <3>1 DEF IsTree
        <3>3. \A k \in 0 .. m - 1 :
                  \/ Side(tree, k, mac) = NULL
                  \/ Side(tree, k, mac) \in 0 .. m - 1 /\ Side(new, k, mac) = Side(tree, k, mac)
            BY <2>2, <2>15 DEF Side
        <3>4. Leads(new, 0, n, mac)
            BY <3>2, <3>3, <2>1, LeadsKept
        <3>5. all[n].rule.mac = mac
            BY <3>1, <2>12, <2>2, <2>1
        <3>. QED  BY <3>4, <3>5, <2>17
    <2>20. Leads(all, 0, m, all[m].rule.mac)
        <3>1. all[m].rule = r
            BY <2>12, <1>1, <1>3 DEF NewNode
        <3>2. Leads(all, 0, p, r.mac)
            BY <2>17, <2>18, <2>5
        <3>3. Side(all, p, r.mac) = m
            BY <2>11 DEF Side
        <3>. QED  BY <3>1, <3>2, <3>3, <1>1, LeadsOn
    <2>21. IsTree(all, m + 1, R \cup {r})
        <3>1. 0 .. m = (0 .. m - 1) \cup {m} /\ (m + 1) - 1 = m
            BY <1>1
        <3>. QED  BY <3>1, <2>13, <2>14, <2>19, <2>20 DEF IsTree
    <2>. QED  BY <2>6, <2>9, <2>21
<1>. QED  BY <1>4, <1>5

----------------------------------------------------------------------------
(* Every variable has its type *)
RulesTyped == RulesTypeOK /\ exInUse \in Seq(ExemptRules) /\ exNext \in Seq(ExemptRules)

(* Who holds the two locks for reading *)
ReadersHold ==
    \A t \in IoThreads : (t \in ex_readers <=> match_pc[t] = "exempt") /\ (t \in nc_readers <=> match_pc[t] = "walk")

(* The first entries of an array of exemptions are those the logger added *)
ExemptsAre(arr, count, added) ==
    /\ count = Len(added) /\ count <= Len(arr)
    /\ \A k \in 1 .. count : arr[k] = added[k]
ExemptsFollow ==
    /\ ExemptsAre(ex[ex_rul_active], ex_active_count, exInUse)
    /\ ExemptsAre(ex[ex_rul_shadow], ex_count, exNext)

(* The search for an exemption has passed only those that do not match, and *)
(* a packet that everyone may send is no longer in the filter.              *)
SearchFollows ==
    \A t \in IoThreads :
        /\ match_pc[t] = "exempt" => match_i[t] <= ex_active_count
                               /\ \A k \in 1 .. match_i[t] : match_pkt[t].host \notin exInUse[k].hosts
        /\ match_pc[t] \in {"client", "walk"} => pkt_exmpt[t] # 2

(* A walk is at a node of the tree in use from which its card, if there is  *)
(* one, is still ahead.                                                     *)
CardOf(p) == [mac |-> p.mac, ip |-> p.ip]
WalkFollows(t, m) ==
    /\ list[t].node # NULL => list[t].arr = nc_rul_active /\ list[t].node \in 0 .. m - 1
    /\ \A k \in 0 .. m - 1 :
          nc[nc_rul_active][k].rule = CardOf(match_pkt[t]) =>
              list[t].node # NULL /\ Leads(nc[nc_rul_active], list[t].node, k, match_pkt[t].mac)

(* The tree in use has m nodes *)
InUseIs(m) ==
    /\ IsTree(nc[nc_rul_active], m, ncInUse)
    /\ nc_rul_list = IF m = 0 THEN NoNode ELSE [arr |-> nc_rul_active, node |-> 0]
    /\ \A t \in IoThreads : match_pc[t] = "walk" => WalkFollows(t, m)
CardsFollow ==
    /\ nc_rul_shadow = 1 - nc_rul_active
    /\ IsTree(nc[nc_rul_shadow], nc_count, ncNext)
    /\ \E m \in 0 .. NcLimit : InUseIs(m)

(* The inductive invariant of the rules *)
RulesInv == RulesTyped /\ ReadersHold /\ ExemptsFollow /\ SearchFollows /\ CardsFollow

(* It holds of the empty lists the filter starts with. *)
LEMMA RulesInvInit == ASSUME RulesInit PROVE RulesInv
<1>1. NcLimit \in Nat /\ NcLimit > 0 /\ NULL = NcLimit /\ NULL \in Links /\ 0 \in Nodes
    BY RulesAssumption DEF NULL, Links, Nodes
<1>2. NoNode \in [arr : Arrays, node : Links] /\ NoNode.node = NULL
    BY <1>1 DEF NoNode, Arrays
<1>3. Blank \in [rule : Pairs, left : Links, right : Links]
    <2>1. \E r \in Pairs : TRUE
        <3>1. PICK a \in Macs, b \in Ips : TRUE
            BY RulesAssumption
        <3>2. [mac |-> a, ip |-> b] \in Pairs
            BY DEF Pairs
        <3>. QED  BY <3>2
    <2>2. (CHOOSE r \in Pairs : TRUE) \in Pairs
        BY <2>1
    <2>. QED  BY <2>2, <1>1 DEF Blank, Pairs
<1>4. (CHOOSE p \in Headers : TRUE) \in Headers
    <2>1. PICK a \in Macs, b \in Ips, h \in Hosts : TRUE
        BY RulesAssumption
    <2>2. [mac |-> a, ip |-> b, host |-> h] \in Headers
        BY DEF Headers
    <2>. QED  BY <2>2
<1>5. <<>> \in Seq(ExemptRules) /\ Len(<<>>) = 0
    OBVIOUS
<1>6. RulesTypeOK
    <2>1. /\ ex \in [Arrays -> Seq(ExemptRules)] /\ ex_rul_active \in Arrays
          /\ ex_active_count \in 0 .. ExLimit /\ ex_count \in 0 .. ExLimit
        BY <1>5, RulesAssumption DEF RulesInit, Arrays
    <2>2. /\ nc \in [Arrays -> [Nodes -> [rule : Pairs, left : Links, right : Links]]]
          /\ nc_rul_active \in Arrays /\ nc_rul_shadow \in Arrays
          /\ nc_rul_list \in [arr : Arrays, node : Links] /\ nc_count \in 0 .. NcLimit
        BY <1>3, <1>2, <1>1 DEF RulesInit, Arrays
    <2>3. /\ ex_readers \subseteq IoThreads /\ nc_readers \subseteq IoThreads
          /\ swap_pc \in {"idle", "nics"}
          /\ match_pc \in [IoThreads -> {"idle", "exempt", "client", "walk"}]
          /\ match_pkt \in [IoThreads -> Headers] /\ match_i \in [IoThreads -> Nat]
          /\ pkt_exmpt \in [IoThreads -> 0 .. 2]
          /\ list \in [IoThreads -> [arr : Arrays, node : Links]]
          /\ verdict \in [IoThreads -> {"none", "pass", "block", "log"}]
        BY <1>4, <1>2 DEF RulesInit
    <2>. QED  BY <2>1, <2>2, <2>3 DEF RulesTypeOK, Pairs
<1>7. ReadersHold /\ SearchFollows
    BY DEF RulesInit, ReadersHold, SearchFollows
<1>8. ExemptsFollow
    BY <1>5 DEF RulesInit, ExemptsFollow, ExemptsAre, ex_rul_shadow, Arrays
<1>9. ASSUME NEW tree PROVE IsTree(tree, 0, {})
    BY DEF IsTree, Linking
<1>10. InUseIs(0)
    BY <1>9 DEF RulesInit, InUseIs
<1>11. CardsFollow
    BY <1>1, <1>9, <1>10 DEF RulesInit, CardsFollow
<1>. QED  BY <1>5, <1>6, <1>7, <1>8, <1>11 DEF RulesInit, RulesInv, RulesTyped

(* CardsFollow depends on the trees, the packets and the walks only *)
LEMMA CardsKept ==
    ASSUME CardsFollow, UNCHANGED ncVars,
           \A t \in IoThreads : match_pc'[t] = "walk" =>
               match_pc[t] = "walk" /\ list'[t] = list[t] /\ match_pkt'[t] = match_pkt[t]
    PROVE  CardsFollow'
<1>1. PICK m \in 0 .. NcLimit : InUseIs(m)
    BY DEF CardsFollow
<1>2. ASSUME NEW t \in IoThreads, match_pc'[t] = "walk" PROVE WalkFollows(t, m)'
    <2>1. WalkFollows(t, m) /\ list'[t] = list[t] /\ match_pkt'[t] = match_pkt[t]
        BY <1>1, <1>2 DEF InUseIs
    <2>. QED  BY <2>1 DEF WalkFollows, ncVars
<1>3. InUseIs(m)'
    BY <1>1, <1>2 DEF InUseIs, ncVars
<1>. QED  BY <1>3 DEF CardsFollow, ncVars

(* Adding an exemption writes into the shadow array only. *)
LEMMA AddExemptKeeps ==
    ASSUME RulesInv, NEW r \in ExemptRules, rule_add_exempt(r)
    PROVE  RulesInv'
<1>. USE DEF rule_add_exempt, RulesInv
<1>1. PICK a \in Arrays : a = ex_rul_shadow /\ a # ex_rul_active
    BY DEF RulesTyped, RulesTypeOK, ex_rul_shadow, Arrays
<1>2. PICK c \in 0 .. ExLimit : c = ex_count /\ c # ExLimit
    BY DEF RulesTyped, RulesTypeOK, ExRoom
<1>3. PICK s \in Seq(ExemptRules) : s = ex[a] /\ c <= Len(s)
    BY <1>1, <1>2 DEF RulesTyped, RulesTypeOK, ExemptsFollow, ExemptsAre
<1>4. PICK new : new = Append(SubSeq(s, 1, c), r)
    OBVIOUS
<1>5. /\ new \in Seq(ExemptRules) /\ Len(new) = c + 1
      /\ \A k \in 1 .. c : new[k] = s[k]
      /\ new[c + 1] = r
    BY <1>2, <1>3, <1>4
<1>6. ex' = [ex EXCEPT ![a] = new]
    BY <1>1, <1>2, <1>3, <1>4
<1>7. ex' \in [Arrays -> Seq(ExemptRules)] /\ ex'[a] = new /\ ex'[ex_rul_active] = ex[ex_rul_active]
    <2>1. ex \in [Arrays -> Seq(ExemptRules)] /\ ex_rul_active \in Arrays
        BY DEF RulesTyped, RulesTypeOK
    <2>. QED  BY ONLY <2>1, <1>1, <1>5, <1>6
<1>8. c + 1 \in 0 .. ExLimit
    BY <1>2, RulesAssumption
<1>9. RulesTypeOK'
    BY <1>7, <1>8, <1>2 DEF RulesTyped, RulesTypeOK, ncVars, matchVars
<1>10. exNext \in Seq(ExemptRules) /\ Len(exNext) = c /\ \A k \in 1 .. c : s[k] = exNext[k]
    BY <1>1, <1>2, <1>3 DEF RulesTyped, ExemptsFollow, ExemptsAre
<1>11. exNext' \in Seq(ExemptRules) /\ Len(exNext') = c + 1 /\ exNext'[c + 1] = r
       /\ \A k \in 1 .. c : exNext'[k] = exNext[k]
    BY <1>10
<1>12. \A k \in 1 .. c + 1 : k \in 1 .. c \/ k = c + 1
    BY <1>2
<1>13. ExemptsAre(new, c + 1, exNext')
    BY <1>5, <1>10, <1>11, <1>12, <1>2 DEF ExemptsAre
<1>14. ex_rul_shadow' = a /\ ex_count' = c + 1
    BY <1>1, <1>2 DEF ex_rul_shadow
<1>15. ExemptsFollow'
    <2>1. ExemptsAre(ex'[ex_rul_active'], ex_active_count', exInUse')
        BY <1>7 DEF ExemptsFollow
    <2>2. ExemptsAre(ex'[ex_rul_shadow'], ex_count', exNext')
        BY <1>7, <1>13, <1>14
    <2>. QED  BY <2>1, <2>2 DEF ExemptsFollow, ExemptsAre
<1>16. ReadersHold' /\ SearchFollows'
    BY DEF ReadersHold, SearchFollows, matchVars
<1>17. CardsFollow'
    BY CardsKept DEF matchVars
<1>. QED  BY <1>9, <1>11, <1>15, <1>16, <1>17 DEF RulesTyped

(* Adding a card makes the tree of the shadow array one of a rule more. *)
LEMMA AddNicKeeps ==
    ASSUME RulesInv, NEW r \in NicRules, rule_add_nic(r)
    PROVE  RulesInv'
<1>. USE DEF rule_add_nic, RulesInv
<1>1. PICK a \in Arrays : a = nc_rul_shadow /\ a # nc_rul_active
    BY DEF RulesTyped, RulesTypeOK, CardsFollow, Arrays
<1>2. PICK c \in 0 .. NcLimit - 1 : c = nc_count
    BY RulesAssumption DEF RulesTyped, RulesTypeOK
<1>3. nc \in [Arrays -> Trees]
    BY DEF RulesTyped, RulesTypeOK, Trees, Pairs
<1>4. PICK tree \in Trees : tree = nc[a] /\ IsTree(tree, c, ncNext)
    BY <1>1, <1>2, <1>3 DEF CardsFollow
<1>5. r \in Pairs
    BY RulesAssumption DEF Pairs
<1>6. PICK new : new = Linked(tree, c, r)
    OBVIOUS
<1>7. new \in Trees /\ IsTree(new, c + 1, ncNext \cup {r})
    BY <1>4, <1>5, <1>6, LinkedIsTree
<1>8. nc' = [nc EXCEPT ![a] = new]
    BY <1>1, <1>2, <1>4, <1>6
<1>9. nc' \in [Arrays -> Trees] /\ nc'[a] = new /\ nc'[nc_rul_active] = nc[nc_rul_active]
    BY <1>1, <1>3, <1>7, <1>8 DEF RulesTyped, RulesTypeOK
<1>10. c + 1 \in 0 .. NcLimit
    BY <1>2, RulesAssumption
<1>11. RulesTypeOK'
    BY <1>9, <1>10, <1>2 DEF RulesTyped, RulesTypeOK, exVars, matchVars, Trees, Pairs
<1>12. ReadersHold' /\ SearchFollows' /\ ExemptsFollow'
    BY DEF ReadersHold, SearchFollows, ExemptsFollow, matchVars, exVars, ex_rul_shadow
<1>13. PICK m \in 0 .. NcLimit : InUseIs(m)
    BY DEF CardsFollow
<1>14. ASSUME NEW t \in IoThreads, match_pc'[t] = "walk" PROVE WalkFollows(t, m)'
    <2>1. WalkFollows(t, m)
        BY <1>13, <1>14 DEF InUseIs, matchVars
    <2>. QED  BY <2>1, <1>9 DEF WalkFollows, matchVars
<1>15. InUseIs(m)'
    BY <1>13, <1>14, <1>9 DEF InUseIs
<1>16. IsTree(nc'[nc_rul_shadow], nc_count', ncNext')
    BY <1>1, <1>2, <1>7, <1>9
<1>17. CardsFollow'
    BY <1>15, <1>16 DEF CardsFollow
<1>. QED  BY <1>11, <1>12, <1>17 DEF RulesTyped, exVars

(* No thread searches the exemptions while they are exchanged. *)
LEMMA SwapExemptsKeeps ==
    ASSUME RulesInv, SwapExempts
    PROVE  RulesInv'
<1>. USE DEF SwapExempts, RulesInv
<1>1. PICK a \in Arrays : a = ex_rul_shadow /\ ex_rul_active = 1 - a
    BY DEF RulesTyped, RulesTypeOK, ex_rul_shadow, Arrays
<1>2. ex_rul_active' = a /\ ex_rul_shadow' = ex_rul_active
    BY <1>1 DEF ex_rul_shadow, Arrays
<1>3. RulesTyped'
    BY <1>1, <1>2, RulesAssumption DEF RulesTyped, RulesTypeOK, ActiveCount, ncVars, matchVars
<1>4. ExemptsAre(ex'[ex_rul_active'], ex_active_count', exInUse')
    BY <1>1, <1>2 DEF ExemptsFollow, ActiveCount
<1>5. ExemptsAre(ex'[ex_rul_shadow'], ex_count', exNext')
    <2>1. Len(ex[ex_rul_active]) \in Nat
        BY <1>1 DEF RulesTyped, RulesTypeOK
    <2>. QED  BY <2>1, <1>2 DEF ExemptsAre
<1>6. ExemptsFollow'
    BY <1>4, <1>5 DEF ExemptsFollow
<1>7. ReadersHold' /\ SearchFollows'
    BY DEF ReadersHold, SearchFollows, matchVars
<1>8. CardsFollow'
    BY CardsKept DEF matchVars
<1>. QED  BY <1>3, <1>6, <1>7, <1>8

(* Nor does one walk in the tree while the cards are. *)
LEMMA SwapNicsKeeps ==
    ASSUME RulesInv, SwapNics
    PROVE  RulesInv'
<1>. USE DEF SwapNics, RulesInv
<1>1. PICK a \in Arrays : a = nc_rul_shadow /\ nc_rul_active = 1 - a
    BY DEF RulesTyped, RulesTypeOK, CardsFollow, Arrays
<1>2. PICK c \in 0 .. NcLimit : c = nc_count
    BY DEF RulesTyped, RulesTypeOK
<1>3. 0 \in Links /\ NULL \in Links /\ 0 \in Arrays
    BY RulesAssumption DEF Links, Nodes, NULL, Arrays
<1>4. nc_rul_list' = IF c = 0 THEN NoNode ELSE [arr |-> a, node |-> 0]
    BY <1>1, <1>2
<1>5. nc_rul_list' \in [arr : Arrays, node : Links]
    BY <1>3, <1>4 DEF NoNode
<1>6. RulesTyped'
    BY <1>1, <1>5, RulesAssumption DEF RulesTyped, RulesTypeOK, ShadowAfterSwap, exVars, matchVars
<1>7. ReadersHold' /\ SearchFollows' /\ ExemptsFollow'
    BY DEF ReadersHold, SearchFollows, ExemptsFollow, matchVars, exVars, ex_rul_shadow
<1>8. \A t \in IoThreads : match_pc'[t] # "walk"
    BY DEF ReadersHold, NcWrLockFree, matchVars
<1>9. IsTree(nc'[nc_rul_active'], c, ncInUse')
    BY <1>1, <1>2 DEF CardsFollow
<1>10. InUseIs(c)'
    BY <1>1, <1>4, <1>8, <1>9 DEF InUseIs
<1>11. IsTree(nc'[nc_rul_shadow'], nc_count', ncNext')
    BY DEF IsTree, Linking
<1>12. nc_rul_shadow' = 1 - nc_rul_active'
    BY <1>1 DEF ShadowAfterSwap, Arrays
<1>. QED  BY <1>6, <1>7, <1>10, <1>11, <1>12 DEF CardsFollow

(* A packet starts its search at the first exemption. *)
LEMMA PacketArrivesKeeps ==
    ASSUME RulesInv, NEW t \in IoThreads, NEW p \in Headers, PacketArrives(t, p)
    PROVE  RulesInv'
<1>. USE DEF PacketArrives, RulesInv
<1>1. RulesTyped'
    BY DEF RulesTyped, RulesTypeOK, exVars, ncVars
<1>2. ReadersHold'
    BY DEF RulesTyped, RulesTypeOK, ReadersHold
<1>3. ExemptsFollow'
    BY DEF ExemptsFollow, exVars, ex_rul_shadow
<1>4. SearchFollows'
    BY RulesAssumption DEF RulesTyped, RulesTypeOK, SearchFollows, exVars
<1>5. CardsFollow'
    BY CardsKept DEF RulesTyped, RulesTypeOK
<1>. QED  BY <1>1, <1>2, <1>3, <1>4, <1>5

(* Nor does an exemption that it has passed match. *)
LEMMA ExemptStepKeeps ==
    ASSUME RulesInv, NEW t \in IoThreads, ExemptStep(t)
    PROVE  RulesInv'
<1>. USE DEF ExemptStep, RulesInv
<1>1. RulesTyped' /\ ReadersHold'
    BY DEF RulesTyped, RulesTypeOK, ReadersHold, exVars, ncVars
<1>2. ExemptsFollow'
    BY DEF ExemptsFollow, exVars, ex_rul_shadow
<1>3. PICK j \in Nat : j = match_i[t] /\ j < ex_active_count
    BY DEF RulesTyped, RulesTypeOK
<1>4. match_i'[t] = j + 1 /\ \A u \in IoThreads : u # t => match_i'[u] = match_i[u]
    BY <1>3 DEF RulesTyped, RulesTypeOK
<1>5. ex_active_count \in Nat /\ j + 1 <= ex_active_count
    BY <1>3, RulesAssumption DEF RulesTyped, RulesTypeOK
<1>6. match_pkt[t].host \notin exInUse[j + 1].hosts
    BY <1>3, <1>5 DEF Matches, ExemptsFollow, ExemptsAre
<1>7. \A k \in 1 .. j + 1 : match_pkt[t].host \notin exInUse[k].hosts
    BY <1>3, <1>6 DEF SearchFollows
<1>8. SearchFollows'
    BY <1>4, <1>5, <1>7 DEF SearchFollows, exVars
<1>9. CardsFollow'
    BY CardsKept
<1>. QED  BY <1>1, <1>2, <1>8, <1>9

(* What the search of rule_match_exempt has come to *)
ExemptResult(t) ==
    IF match_i[t] < ex_active_count THEN ex[ex_rul_active][match_i[t] + 1].active ELSE 0

(* It is the first exemption in use that matches, or none is left. *)
LEMMA ExemptFound ==
    ASSUME RulesInv, NEW t \in IoThreads, ExemptDone(t)
    PROVE  ExemptResult(t) \in 0 .. 2 /\ ExemptResult(t) = FirstExempt(match_pkt[t])
<1>. USE DEF RulesInv
<1>1. PICK j \in Nat : j = match_i[t]
    BY DEF RulesTyped, RulesTypeOK
<1>2. PICK c \in Nat : c = ex_active_count /\ c = Len(exInUse) /\ j <= c
    BY <1>1, RulesAssumption DEF RulesTyped, RulesTypeOK, ExemptsFollow, ExemptsAre, ExemptDone, SearchFollows
<1>3. PICK h : h = match_pkt[t].host
    OBVIOUS
<1>4. PICK hits : hits = {k \in 1 .. c : h \in exInUse[k].hosts}
    OBVIOUS
<1>5. \A k \in 1 .. j : h \notin exInUse[k].hosts
    BY <1>1, <1>3 DEF ExemptDone, SearchFollows
<1>6. FirstExempt(match_pkt[t]) = IF hits = {} THEN 0
                            ELSE exInUse[CHOOSE k \in hits : \A l \in hits : k <= l].active
    <2>1. DOMAIN exInUse = 1 .. c
        BY <1>2 DEF RulesTyped
    <2>2. hits = {k \in DOMAIN exInUse : match_pkt[t].host \in exInUse[k].hosts}
        BY ONLY <2>1, <1>3, <1>4
    <2>. DEFINE FirstOf(H) == IF H = {} THEN 0
                              ELSE exInUse[CHOOSE k \in H : \A l \in H : k <= l].active
    <2>3. FirstExempt(match_pkt[t]) = FirstOf({k \in DOMAIN exInUse : match_pkt[t].host \in exInUse[k].hosts})
        BY Zenon DEF FirstExempt
    <2>4. FirstExempt(match_pkt[t]) = FirstOf(hits)
        <3>. HIDE DEF FirstOf
        <3>. QED  BY ONLY <2>2, <2>3
    <2>. QED  BY <2>4
<1>7. CASE j < c
    <2>1. j + 1 \in 1 .. c
        BY <1>7
    <2>2. PICK e : e = exInUse[j + 1]
        OBVIOUS
    <2>3. e \in ExemptRules /\ ex[ex_rul_active][j + 1] = e
        BY <2>1, <2>2, <1>2 DEF RulesTyped, ExemptsFollow, ExemptsAre
    <2>4. ExemptResult(t) = e.active
        BY <2>3, <1>1, <1>2, <1>7 DEF ExemptResult
    <2>5. h \in e.hosts
        BY <2>3, <1>1, <1>2, <1>3, <1>7 DEF ExemptDone, Matches
    <2>6. j + 1 \in hits /\ hits \subseteq Nat /\ \A l \in hits : j + 1 <= l
        BY <2>1, <2>2, <2>5, <1>4, <1>5
    <2>7. (CHOOSE k \in hits : \A l \in hits : k <= l) = j + 1
        <3>1. \A k \in hits : (\A l \in hits : k <= l) => k = j + 1
            BY <2>6
        <3>. QED  BY <2>6, <3>1
    <2>8. FirstExempt(match_pkt[t]) = e.active
        BY <1>6, <2>2, <2>6, <2>7
    <2>9. e.active \in {1, 2}
        BY <2>3, RulesAssumption
    <2>. QED  BY <2>4, <2>8, <2>9
<1>8. CASE ~ (j < c)
    <2>1. hits = {}
        BY <1>2, <1>4, <1>5, <1>8
    <2>. QED  BY <2>1, <1>6, <1>8, <1>1, <1>2 DEF ExemptResult
<1>. QED  BY <1>7, <1>8

(* A packet that everyone may send leaves the filter here. *)
LEMMA ExemptDoneKeeps ==
    ASSUME RulesInv, NEW t \in IoThreads, ExemptDone(t)
    PROVE  RulesInv'
<1>1. PICK r \in 0 .. 2 : r = ExemptResult(t)
    BY ExemptFound
<1>2. /\ match_pc[t] = "exempt"
      /\ pkt_exmpt' = [pkt_exmpt EXCEPT ![t] = r]
      /\ verdict' = [verdict EXCEPT ![t] = IF r = 2 THEN "pass" ELSE "none"]
      /\ match_pc' = [match_pc EXCEPT ![t] = IF r = 2 THEN "idle" ELSE "client"]
      /\ ex_readers' = ex_readers \ {t}
      /\ UNCHANGED <<exVars, ncVars, nc_readers, match_pkt, match_i, list, swap_pc, adds>>
    BY <1>1 DEF ExemptDone, ExemptResult
<1>. USE DEF RulesInv
<1>3. RulesTyped'
    BY <1>2 DEF RulesTyped, RulesTypeOK, exVars, ncVars
<1>4. ReadersHold'
    BY <1>2 DEF RulesTyped, RulesTypeOK, ReadersHold
<1>5. ExemptsFollow'
    BY <1>2 DEF ExemptsFollow, exVars, ex_rul_shadow
<1>6. SearchFollows'
    <2>. SUFFICES ASSUME NEW u \in IoThreads
                  PROVE  /\ match_pc'[u] = "exempt" => match_i'[u] <= ex_active_count'
                               /\ \A k \in 1 .. match_i'[u] : match_pkt'[u].host \notin exInUse'[k].hosts
                         /\ match_pc'[u] \in {"client", "walk"} => pkt_exmpt'[u] # 2
        BY DEF SearchFollows
    <2>1. CASE u = t
        BY <1>2, <2>1 DEF RulesTyped, RulesTypeOK
    <2>2. CASE u # t
        BY <1>2, <2>2 DEF RulesTyped, RulesTypeOK, SearchFollows, exVars
    <2>. QED  BY <2>1, <2>2
<1>7. CardsFollow'
    <2>1. \A u \in IoThreads : match_pc'[u] = "walk" => match_pc[u] = "walk" /\ list'[u] = list[u] /\ match_pkt'[u] = match_pkt[u]
        BY <1>2 DEF RulesTyped, RulesTypeOK
    <2>2. CardsFollow /\ UNCHANGED ncVars
        BY <1>2
    <2>. QED  BY ONLY <2>1, <2>2, CardsKept
<1>. QED  BY <1>3, <1>4, <1>5, <1>6, <1>7

(* A step of one walk that leaves the trees and the other walks alone *)
LEMMA OneWalks ==
    ASSUME CardsFollow, UNCHANGED ncVars, NEW t \in IoThreads, NEW m \in 0 .. NcLimit, InUseIs(m),
           \A u \in IoThreads : u # t => match_pc'[u] = match_pc[u] /\ list'[u] = list[u] /\ match_pkt'[u] = match_pkt[u],
           match_pc'[t] = "walk" => WalkFollows(t, m)'
    PROVE  CardsFollow'
<1>1. ASSUME NEW u \in IoThreads, match_pc'[u] = "walk", u # t PROVE WalkFollows(u, m)'
    <2>1. WalkFollows(u, m) /\ list'[u] = list[u] /\ match_pkt'[u] = match_pkt[u]
        BY <1>1 DEF InUseIs
    <2>. QED  BY <2>1 DEF WalkFollows, ncVars
<1>2. InUseIs(m)'
    BY <1>1 DEF InUseIs, ncVars
<1>. QED  BY <1>2 DEF CardsFollow, ncVars

(* From the root the way of every card leads to its node. *)
LEMMA ClientBeginKeeps ==
    ASSUME RulesInv, NEW t \in IoThreads, ClientBegin(t)
    PROVE  RulesInv'
<1>. USE DEF ClientBegin, RulesInv
<1>1. RulesTyped'
    BY DEF RulesTyped, RulesTypeOK, exVars, ncVars
<1>2. ReadersHold'
    BY DEF RulesTyped, RulesTypeOK, ReadersHold
<1>3. ExemptsFollow'
    BY DEF ExemptsFollow, exVars, ex_rul_shadow
<1>4. SearchFollows'
    BY DEF RulesTyped, RulesTypeOK, SearchFollows, exVars
<1>5. PICK m \in 0 .. NcLimit : InUseIs(m)
    BY DEF CardsFollow
<1>6. list'[t] = nc_rul_list /\ \A u \in IoThreads : u # t =>
            match_pc'[u] = match_pc[u] /\ list'[u] = list[u] /\ match_pkt'[u] = match_pkt[u]
    BY DEF RulesTyped, RulesTypeOK
<1>7. UNCHANGED <<nc, nc_rul_active, match_pkt>>
    BY DEF ncVars
<1>8. NcLimit \in Nat /\ NULL = NcLimit /\ 0 # NULL
    BY RulesAssumption DEF NULL
<1>9. WalkFollows(t, m)'
    <2>1. CASE m = 0
        <3>1. list'[t].node = NULL /\ 0 .. m - 1 = {}
            BY <2>1, <1>5, <1>6 DEF InUseIs, NoNode
        <3>. QED  BY <3>1 DEF WalkFollows
    <2>2. CASE m # 0
        <3>1. list'[t].node = 0 /\ list'[t].arr = nc_rul_active /\ 0 \in 0 .. m - 1
            BY <2>2, <1>5, <1>6, <1>8 DEF InUseIs
        <3>2. ASSUME NEW k \in 0 .. m - 1, nc[nc_rul_active][k].rule = CardOf(match_pkt[t])
              PROVE  Leads(nc[nc_rul_active], 0, k, match_pkt[t].mac)
            <4>1. Leads(nc[nc_rul_active], 0, k, nc[nc_rul_active][k].rule.mac)
                BY <1>5 DEF InUseIs, IsTree
            <4>. QED  BY <4>1, <3>2 DEF CardOf
        <3>. QED  BY <3>1, <3>2, <1>7, <1>8 DEF WalkFollows
    <2>. QED  BY <2>1, <2>2
<1>10. CardsFollow'
    BY <1>5, <1>6, <1>9, OneWalks
<1>. QED  BY <1>1, <1>2, <1>3, <1>4, <1>10

(* A walk that is not at its card goes on towards it. *)
LEMMA ClientStepKeeps ==
    ASSUME RulesInv, NEW t \in IoThreads, ClientStep(t)
    PROVE  RulesInv'
<1>. USE DEF ClientStep, RulesInv
<1>1. PICK m \in 0 .. NcLimit : InUseIs(m)
    BY DEF CardsFollow
<1>2. WalkFollows(t, m)
    BY <1>1 DEF InUseIs
<1>3. PICK a \in Arrays, tree \in Trees : a = nc_rul_active /\ tree = nc[a]
    BY DEF RulesTyped, RulesTypeOK, Trees, Pairs
<1>4. PICK n \in 0 .. m - 1 : n = list[t].node /\ list[t].arr = a
    BY <1>2, <1>3 DEF WalkFollows
<1>5. NcLimit \in Nat /\ NULL = NcLimit /\ n \in Nodes /\ n # NULL
    BY RulesAssumption DEF NULL, Nodes
<1>6. PICK next : next = Side(tree, n, match_pkt[t].mac)
    OBVIOUS
<1>7. next \in Links
    BY <1>5, <1>6 DEF Side, Trees
<1>8. Node(t) = tree[n]
    BY <1>3, <1>4 DEF Node
<1>9. list' = [list EXCEPT ![t].node = next]
    BY <1>6, <1>8 DEF LooksLeft, Side
<1>10. list \in [IoThreads -> [arr : Arrays, node : Links]]
    BY DEF RulesTyped, RulesTypeOK
<1>11. /\ list' \in [IoThreads -> [arr : Arrays, node : Links]]
       /\ list'[t].node = next /\ list'[t].arr = a
       /\ \A u \in IoThreads : u # t => list'[u] = list[u]
    BY <1>4, <1>7, <1>9, <1>10
<1>12. RulesTyped' /\ ReadersHold' /\ SearchFollows' /\ ExemptsFollow'
    BY <1>11 DEF RulesTyped, RulesTypeOK, ReadersHold, SearchFollows, ExemptsFollow, ex_rul_shadow, exVars, ncVars
<1>13. UNCHANGED <<nc, nc_rul_active, match_pkt>>
    BY DEF ncVars
<1>14. WalkFollows(t, m)'
    <2>1. next # NULL => next \in 0 .. m - 1
        BY <1>1, <1>3, <1>6 DEF InUseIs, IsTree, Linking, Side
    <2>2. ASSUME NEW k \in 0 .. m - 1, tree[k].rule = CardOf(match_pkt[t])
          PROVE  next # NULL /\ Leads(tree, next, k, match_pkt[t].mac)
        <3>1. Leads(tree, n, k, match_pkt[t].mac)
            BY <1>2, <1>3, <1>4, <2>2 DEF WalkFollows
        <3>2. k # n
            BY <2>2, <1>4, <1>5, <1>8 DEF Hit, CardOf
        <3>. QED  BY <3>1, <3>2, <1>5, <1>6, StepLeads
    <2>. QED  BY <2>1, <2>2, <1>3, <1>11, <1>13 DEF WalkFollows
<1>15. CardsFollow'
    <2>1. \A u \in IoThreads : u # t => match_pc'[u] = match_pc[u] /\ list'[u] = list[u] /\ match_pkt'[u] = match_pkt[u]
        BY <1>11
    <2>2. CardsFollow /\ UNCHANGED ncVars
        OBVIOUS
    <2>. QED  BY ONLY <2>1, <2>2, <1>1, <1>14, OneWalks
<1>. QED  BY <1>12, <1>15

(* A packet leaves the tree. *)
LEMMA ClientDoneKeeps ==
    ASSUME RulesInv, NEW t \in IoThreads, ClientDone(t)
    PROVE  RulesInv'
<1>. USE DEF ClientDone, RulesInv
<1>1. NoNode \in [arr : Arrays, node : Links]
    BY DEF NoNode, Arrays, Links
<1>2. pkt_exmpt[t] = 0 \/ pkt_exmpt[t] = 1
    BY DEF RulesTyped, RulesTypeOK, SearchFollows
<1>3. PICK v \in {"none", "pass", "block", "log"} : verdict' = [verdict EXCEPT ![t] = v]
    <2>1. CASE ~ Hit(t)
        <3>1. verdict' = [verdict EXCEPT ![t] = "block"]
            BY <2>1
        <3>. QED  BY <3>1
    <2>2. CASE Hit(t) /\ pkt_exmpt[t] = 1
        <3>1. verdict' = [verdict EXCEPT ![t] = "pass"]
            BY <2>2
        <3>. QED  BY <3>1
    <2>3. CASE Hit(t) /\ pkt_exmpt[t] = 0
        <3>1. verdict' = [verdict EXCEPT ![t] = "log"]
            BY <2>3
        <3>. QED  BY <3>1
    <2>. QED  BY <1>2, <2>1, <2>2, <2>3
<1>4. RulesTyped'
    BY <1>1, <1>3 DEF RulesTyped, RulesTypeOK, exVars, ncVars
<1>5. ReadersHold'
    BY DEF RulesTyped, RulesTypeOK, ReadersHold
<1>6. ExemptsFollow'
    BY DEF ExemptsFollow, exVars, ex_rul_shadow
<1>7. SearchFollows'
    BY DEF RulesTyped, RulesTypeOK, SearchFollows, exVars
<1>8. CardsFollow'
    <2>1. \A u \in IoThreads : match_pc'[u] = "walk" => match_pc[u] = "walk" /\ list'[u] = list[u] /\ match_pkt'[u] = match_pkt[u]
        BY DEF RulesTyped, RulesTypeOK
    <2>2. CardsFollow /\ UNCHANGED ncVars
        OBVIOUS
    <2>. QED  BY ONLY <2>1, <2>2, CardsKept
<1>. QED  BY <1>4, <1>5, <1>6, <1>7, <1>8

(* Every step of the threads of io-net and of the resource manager keeps    *)
(* the invariant of the rules.                                              *)
LEMMA RulesInvNext == ASSUME RulesInv, [RulesNext]_rulesVars PROVE RulesInv'
<1>1. ASSUME NEW r \in ExemptRules, rule_add_exempt(r) PROVE RulesInv'
    BY <1>1, AddExemptKeeps
<1>2. ASSUME NEW r \in NicRules, rule_add_nic(r) PROVE RulesInv'
    BY <1>2, AddNicKeeps
<1>3. CASE SwapExempts
    BY <1>3, SwapExemptsKeeps
<1>4. CASE SwapNics
    BY <1>4, SwapNicsKeeps
<1>5. ASSUME NEW t \in IoThreads, NEW p \in Headers, PacketArrives(t, p) PROVE RulesInv'
    BY <1>5, PacketArrivesKeeps
<1>6. ASSUME NEW t \in IoThreads, Filter(t) PROVE RulesInv'
    BY <1>6, ExemptStepKeeps, ExemptDoneKeeps, ClientBeginKeeps, ClientStepKeeps, ClientDoneKeeps
       DEF Filter
<1>7. CASE UNCHANGED rulesVars
    <2>1. /\ RulesTyped' /\ ReadersHold' /\ SearchFollows' /\ ExemptsFollow'
        BY <1>7 DEF RulesInv, RulesTyped, RulesTypeOK, ReadersHold, SearchFollows, ExemptsFollow,
             ex_rul_shadow, rulesVars, exVars, ncVars, matchVars
    <2>2. CardsFollow'
        BY <1>7, CardsKept DEF RulesInv, rulesVars, matchVars
    <2>. QED  BY <2>1, <2>2 DEF RulesInv
<1>. QED  BY <1>1, <1>2, <1>3, <1>4, <1>5, <1>6, <1>7 DEF RulesNext

(* A card is let through exactly if it is among the rules in use. *)
LEMMA ClientFound ==
    ASSUME RulesInv, NEW t \in IoThreads, ClientDone(t)
    PROVE  verdict'[t] # "block" <=> [mac |-> match_pkt[t].mac, ip |-> match_pkt[t].ip] \in ncInUse
<1>. USE DEF RulesInv
<1>1. PICK m \in 0 .. NcLimit : InUseIs(m)
    BY DEF CardsFollow
<1>2. WalkFollows(t, m)
    BY <1>1 DEF InUseIs, ClientDone
<1>3. PICK tree : tree = nc[nc_rul_active]
    OBVIOUS
<1>4. PICK card : card = [mac |-> match_pkt[t].mac, ip |-> match_pkt[t].ip] /\ card = CardOf(match_pkt[t])
    BY DEF CardOf
<1>5. card \in ncInUse <=> \E k \in 0 .. m - 1 : tree[k].rule = card
    BY <1>1, <1>3 DEF InUseIs, IsTree
<1>6. pkt_exmpt[t] = 0 \/ pkt_exmpt[t] = 1
    BY DEF RulesTyped, RulesTypeOK, SearchFollows, ClientDone
<1>7. verdict'[t] # "block" <=> Hit(t)
    BY <1>6 DEF RulesTyped, RulesTypeOK, ClientDone
<1>8. Hit(t) => card \in ncInUse
    BY <1>2, <1>3, <1>4, <1>5 DEF Hit, Node, WalkFollows
<1>9. card \in ncInUse => Hit(t)
    BY <1>2, <1>3, <1>4, <1>5 DEF ClientDone, WalkFollows
<1>. QED  BY <1>4, <1>7, <1>8, <1>9

(* The invariant holds at every step of the threads and of the swaps, for   *)
(* rules and limits as QxcRules assumes them.                               *)
LEMMA RulesInvariant == RulesSpec => []RulesInv
<1>1. RulesInit => RulesInv
  BY RulesInvInit
<1>2. RulesInv /\ [RulesNext]_rulesVars => RulesInv'
  BY RulesInvNext
<1> QED
  BY <1>1, <1>2, PTL DEF RulesSpec

(* Every variable of the rules has its type, and no thread walks in the     *)
(* array that the resource manager fills without a lock.                    *)
THEOREM RulesShadowIsPrivate == RulesSpec => []ShadowIsPrivate
<1>1. RulesInv => ShadowIsPrivate
  BY DEF RulesInv, RulesTyped, CardsFollow, InUseIs, WalkFollows, ShadowIsPrivate,
       RulesTypeOK, Arrays
<1> QED
  BY <1>1, RulesInvariant, PTL

(* The search of rule_match_exempt ends at the first exemption in use that  *)
(* matches the packet, while rules are added and swapped.                   *)
THEOREM RulesExemptIsRight == RulesSpec => ExemptIsRight
<1>1. RulesInv /\ [RulesNext]_rulesVars =>
          [\A t \in IoThreads : ExemptDone(t) =>
               pkt_exmpt'[t] = FirstExempt(match_pkt[t])]_rulesVars
  <2> SUFFICES ASSUME RulesInv, NEW t \in IoThreads, ExemptDone(t)
               PROVE  pkt_exmpt'[t] = FirstExempt(match_pkt[t])
    OBVIOUS
  <2>1. pkt_exmpt'[t] = ExemptResult(t)
    BY DEF ExemptDone, ExemptResult, RulesInv, RulesTyped, RulesTypeOK
  <2> QED
    BY <2>1, ExemptFound
<1> QED
  BY <1>1, RulesInvariant, PTL DEF RulesSpec, ExemptIsRight

(* rule_match_client lets a card through exactly if its pair is among the   *)
(* rules in use, in whatever order they were added.                         *)
THEOREM RulesClientIsRight == RulesSpec => ClientIsRight
<1>1. RulesInv /\ [RulesNext]_rulesVars =>
          [\A t \in IoThreads : ClientDone(t) =>
               (verdict'[t] # "block" <=>
                   [mac |-> match_pkt[t].mac, ip |-> match_pkt[t].ip] \in ncInUse)]_rulesVars
  <2> SUFFICES ASSUME RulesInv, NEW t \in IoThreads, ClientDone(t)
               PROVE  verdict'[t] # "block" <=>
                          [mac |-> match_pkt[t].mac, ip |-> match_pkt[t].ip] \in ncInUse
    OBVIOUS
  <2> QED
    BY ClientFound
<1> QED
  BY <1>1, RulesInvariant, PTL DEF RulesSpec, ClientIsRight
=============================================================================
