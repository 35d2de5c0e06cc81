---------------------------- MODULE QavirdProofs ----------------------------
(***************************************************************************)
(* Proofs about Qavird for any number of threads, engines and scans.       *)
(***************************************************************************)
EXTENDS Qavird, TLAPS

Busy == {"load", "build", "switch", "free"}

(* Who holds the lock, and that it is a readers-writer lock.                *)
LockDiscipline ==
    /\ \A t \in Threads : t \in readers <=> pc[t] \in {"info", "scan", "count"}
    /\ \A t \in Threads : t \in writer <=> pc[t] = "switch"
    /\ \A t, u \in writer : t = u
    /\ writer # {} => readers = {}

(* A scan works with the engine in use.                                     *)
ScansUseRoot == \A t \in Threads : pc[t] = "scan" => scanning[t] = cl_root_node

(* The engines known to somebody have been allocated; the others were never *)
(* freed.                                                                   *)
HeapView ==
    /\ cl_root_node \in built
    /\ freed[cl_root_node] = 0
    /\ \A e \in Engines \ built : freed[e] = 0
    /\ \A t \in Threads : old_node[t] \in built \cup {NoEngine}
    /\ \A t \in Threads : pc[t] \in Busy => old_node[t] \in built

(* Until it is switched in, a new engine is known to its reload alone.      *)
NewIsPrivate ==
    \A t \in Threads : pc[t] = "build" =>
        /\ new_node[t] \in built
        /\ freed[new_node[t]] = 0
        /\ new_node[t] # cl_root_node
        /\ \A u \in Threads : old_node[u] # new_node[t]
        /\ \A u \in Threads : (u # t /\ pc[u] = "build") => new_node[u] # new_node[t]

(* An engine about to be freed is no longer in use.                         *)
OldIsRetired == \A t \in Threads : pc[t] \in {"switch", "free"} => old_node[t] # cl_root_node

(* What the info of a reload holds at each point.                           *)
InfoView ==
    /\ writer = {} => state_info.base = cl_root_node
    /\ \A t \in Threads : pc[t] = "build" => new_info[t].base = new_node[t]
    /\ \A t \in Threads : pc[t] = "switch" =>
          new_info[t].base = cl_root_node /\ new_info[t].fdone = done /\ new_info[t].virfound = found

(* The inductive invariant, with or without the attribute lock.             *)
IInv ==
    /\ TypeOK
    /\ LockDiscipline
    /\ ScansUseRoot
    /\ HeapView
    /\ NewIsPrivate
    /\ OldIsRetired
    /\ InfoView
    /\ NoScanLost

(* main leaves the first engine built and the counters at zero.             *)
LEMMA InitIInv == Init => IInv
  BY AvirdAssumption
  DEF Init, IInv, TypeOK, Info, LockDiscipline, ScansUseRoot, HeapView, NewIsPrivate,
      OldIsRetired, InfoView, NoScanLost, Busy

(* Every step of INFO and SCANFILE keeps the invariant.                     *)
LEMMA ScanIInv ==
    ASSUME IInv, NEW t \in Threads, InfoBegin(t) \/ InfoEnd(t) \/ ScanRequest(t)
    PROVE  IInv'
<1> USE AvirdAssumption DEF IInv, Return, lockVars, infoVars, localVars, heapVars, scanVars
<1>1. CASE InfoBegin(t) \/ InfoEnd(t)
  <2> USE <1>1 DEF InfoBegin, InfoEnd, RdLockFree
  <2>1. TypeOK' BY DEF TypeOK
  <2>2. LockDiscipline' BY DEF TypeOK, LockDiscipline
  <2>3. ScansUseRoot' /\ HeapView' BY DEF TypeOK, ScansUseRoot, HeapView, Busy
  <2>4. NewIsPrivate' /\ OldIsRetired' BY DEF TypeOK, NewIsPrivate, OldIsRetired
  <2>5. InfoView' /\ NoScanLost' BY DEF TypeOK, InfoView, NoScanLost
  <2> QED BY <2>1, <2>2, <2>3, <2>4, <2>5
<1>2. CASE ScanBegin(t)
  <2> USE <1>2 DEF ScanBegin, RdLockFree
  <2>1. TypeOK' BY DEF TypeOK
  <2>2. LockDiscipline' BY DEF TypeOK, LockDiscipline
  <2>3. ScansUseRoot' /\ HeapView' BY DEF TypeOK, ScansUseRoot, HeapView, Busy
  <2>4. NewIsPrivate' /\ OldIsRetired' BY DEF TypeOK, NewIsPrivate, OldIsRetired
  <2>5. InfoView' /\ NoScanLost' BY DEF TypeOK, InfoView, NoScanLost
  <2> QED BY <2>1, <2>2, <2>3, <2>4, <2>5
<1>3. CASE ScanVirus(t) \/ ScanOther(t) \/ ScanEnd(t)
  <2> USE <1>3 DEF ScanVirus, ScanOther, ScanEnd
  <2>0. t \in readers /\ writer = {} BY DEF LockDiscipline, TypeOK
  <2>1. TypeOK' BY DEF TypeOK, Info
  <2>2. LockDiscipline' BY <2>0 DEF TypeOK, LockDiscipline
  <2>3. ScansUseRoot' /\ HeapView' BY DEF TypeOK, ScansUseRoot, HeapView, Busy
  <2>4. NewIsPrivate' /\ OldIsRetired' BY DEF TypeOK, NewIsPrivate, OldIsRetired
  <2>5. \A u \in Threads : pc[u] # "switch" BY <2>0 DEF LockDiscipline
  <2>6. InfoView' BY <2>0, <2>5 DEF TypeOK, Info, InfoView
  <2>7. NoScanLost' BY DEF TypeOK, Info, NoScanLost
  <2> QED BY <2>1, <2>2, <2>3, <2>4, <2>6, <2>7
<1> QED BY <1>1, <1>2, <1>3 DEF ScanRequest

(* Every step of AVBASERELOAD keeps it too, although several reloads may be *)
(* under way at the same time.                                              *)
LEMMA ReloadIInv ==
    ASSUME IInv, NEW t \in Threads, ReloadRequest(t)
    PROVE  IInv'
<1> USE AvirdAssumption DEF IInv, Return, lockVars, infoVars, localVars, heapVars, scanVars
<1>1. CASE ReloadBegin(t) \/ LoadFails(t)
  <2> USE <1>1 DEF ReloadBegin, LoadFails
  <2>1. TypeOK' BY DEF TypeOK
  <2>2. LockDiscipline' BY DEF TypeOK, LockDiscipline
  <2>3. ScansUseRoot' /\ HeapView' BY DEF TypeOK, ScansUseRoot, HeapView, Busy
  <2>4. NewIsPrivate' /\ OldIsRetired' BY DEF TypeOK, NewIsPrivate, OldIsRetired, HeapView
  <2>5. InfoView' /\ NoScanLost' BY DEF TypeOK, InfoView, NoScanLost
  <2> QED BY <2>1, <2>2, <2>3, <2>4, <2>5
<1>2. CASE Load(t)
  <2> USE <1>2 DEF Load
  <2>1. TypeOK' BY DEF TypeOK, Info
  <2>2. LockDiscipline' BY DEF TypeOK, LockDiscipline
  <2>3. ScansUseRoot' /\ HeapView' BY DEF TypeOK, ScansUseRoot, HeapView, Busy
  <2>4. NewIsPrivate' /\ OldIsRetired' BY DEF TypeOK, NewIsPrivate, OldIsRetired, HeapView
  <2>5. InfoView' /\ NoScanLost' BY DEF TypeOK, Info, InfoView, NoScanLost
  <2> QED BY <2>1, <2>2, <2>3, <2>4, <2>5
<1>3. CASE BuildFails(t)
  <2> USE <1>3 DEF BuildFails
  <2>0. new_node[t] \in Engines /\ new_node[t] # cl_root_node /\ new_node[t] \in built
    BY DEF TypeOK, NewIsPrivate
  <2>1. TypeOK' BY <2>0 DEF TypeOK
  <2>2. LockDiscipline' BY DEF TypeOK, LockDiscipline
  <2>3. ScansUseRoot' /\ HeapView' BY <2>0 DEF TypeOK, ScansUseRoot, HeapView, Busy
  <2>4. NewIsPrivate' /\ OldIsRetired' BY <2>0 DEF TypeOK, NewIsPrivate, OldIsRetired, HeapView
  <2>5. InfoView' /\ NoScanLost' BY DEF TypeOK, InfoView, NoScanLost
  <2> QED BY <2>1, <2>2, <2>3, <2>4, <2>5
<1>4. CASE Switch(t)
  <2> USE <1>4 DEF Switch, SwitchedTo, CarriedOver, WrLockFree
  <2>0. /\ new_node[t] \in built /\ new_node[t] # cl_root_node /\ freed[new_node[t]] = 0
        /\ new_node[t] \in Engines
    BY DEF TypeOK, NewIsPrivate
  <2>1. TypeOK' BY <2>0 DEF TypeOK, Info
  <2>2. LockDiscipline' BY DEF TypeOK, LockDiscipline
  <2>3. ScansUseRoot' BY DEF TypeOK, ScansUseRoot, LockDiscipline
  <2>4. HeapView' BY <2>0 DEF TypeOK, HeapView, Busy
  <2>5. NewIsPrivate' BY DEF TypeOK, NewIsPrivate
  <2>6. OldIsRetired' BY DEF TypeOK, NewIsPrivate, OldIsRetired
  <2>7. InfoView' /\ NoScanLost' BY DEF TypeOK, Info, InfoView, NoScanLost, LockDiscipline
  <2> QED BY <2>1, <2>2, <2>3, <2>4, <2>5, <2>6, <2>7
<1>5. CASE SwitchInfo(t)
  <2> USE <1>5 DEF SwitchInfo
  <2>0. writer' = {} /\ readers = {} /\ t \in writer BY DEF TypeOK, LockDiscipline
  <2>1. TypeOK' BY DEF TypeOK
  <2>2. LockDiscipline' BY <2>0 DEF TypeOK, LockDiscipline
  <2>3. ScansUseRoot' /\ HeapView' BY DEF TypeOK, ScansUseRoot, HeapView, Busy
  <2>4. NewIsPrivate' /\ OldIsRetired' BY DEF TypeOK, NewIsPrivate, OldIsRetired
  <2>5. InfoView' /\ NoScanLost' BY DEF TypeOK, InfoView, NoScanLost
  <2> QED BY <2>1, <2>2, <2>3, <2>4, <2>5
<1>6. CASE FreeOld(t)
  <2> USE <1>6 DEF FreeOld
  <2>0. old_node[t] \in built /\ old_node[t] # cl_root_node /\ old_node[t] \in Engines
    BY DEF TypeOK, HeapView, OldIsRetired, Busy
  <2>1. TypeOK' BY <2>0 DEF TypeOK
  <2>2. LockDiscipline' BY DEF TypeOK, LockDiscipline
  <2>3. ScansUseRoot' /\ HeapView' BY <2>0 DEF TypeOK, ScansUseRoot, HeapView, Busy
  <2>4. NewIsPrivate' /\ OldIsRetired' BY <2>0 DEF TypeOK, NewIsPrivate, OldIsRetired, HeapView
  <2>5. InfoView' /\ NoScanLost' BY DEF TypeOK, InfoView, NoScanLost
  <2> QED BY <2>1, <2>2, <2>3, <2>4, <2>5
<1> QED BY <1>1, <1>2, <1>3, <1>4, <1>5, <1>6 DEF ReloadRequest

(* The invariant holds in every reachable state.                            *)
LEMMA AvirdInvariant == Spec => []IInv
<1>1. ASSUME IInv, UNCHANGED vars PROVE IInv'
  BY <1>1 DEF IInv, vars, lockVars, infoVars, localVars, heapVars, scanVars, TypeOK, LockDiscipline,
       ScansUseRoot, HeapView, NewIsPrivate, OldIsRetired, InfoView, NoScanLost
<1>2. IInv /\ [Next]_vars => IInv'
  BY <1>1, ScanIInv, ReloadIInv DEF Next
<1> QED BY InitIInv, <1>2, PTL DEF Spec

(* All variables of the resource manager keep their types.                  *)
THEOREM AvirdTypeCorrect == Spec => []TypeOK
<1>1. IInv => TypeOK BY DEF IInv
<1> QED BY AvirdInvariant, <1>1, PTL

(* SCANFILE never works with an engine that a reload has freed, whether or  *)
(* not the library serialises the requests.                                 *)
THEOREM AvirdNoUseAfterFree == Spec => []NoUseAfterFree
<1>1. IInv => NoUseAfterFree BY DEF IInv, HeapView, ScansUseRoot, NoUseAfterFree
<1> QED BY AvirdInvariant, <1>1, PTL

(* AVBASERELOAD never loses the count of a scan that ran at the same time.  *)
THEOREM AvirdNoScanLost == Spec => []NoScanLost
<1>1. IInv => NoScanLost BY DEF IInv
<1> QED BY AvirdInvariant, <1>1, PTL

(* Under the read lock state_info is about the engine in use.               *)
THEOREM AvirdInfoIsOfEngineInUse == Spec => []InfoIsOfEngineInUse
<1>1. IInv => InfoIsOfEngineInUse BY DEF IInv, InfoView, LockDiscipline, InfoIsOfEngineInUse
<1> QED BY AvirdInvariant, <1>1, PTL

----------------------------------------------------------------------------
(* With the attribute lock requests are served one at a time ...            *)
OneRequest ==
    /\ \A t \in Threads : t \in attr <=> pc[t] # "idle"
    /\ \A t, u \in attr : t = u

(* ... so that a reload still sees the engine it read at the beginning.     *)
OldIsRoot == \A t \in Threads : pc[t] \in {"load", "build"} => old_node[t] = cl_root_node

(* Engines somebody will still use or free.                                 *)
Live(e) ==
    \/ e = cl_root_node
    \/ \E t \in Threads : pc[t] = "build" /\ new_node[t] = e
    \/ \E t \in Threads : pc[t] \in {"switch", "free"} /\ old_node[t] = e

(* Exactly the allocated engines that are not live have been freed, once.   *)
Accounting == \A e \in built : freed[e] = IF Live(e) THEN 0 ELSE 1

SInv == IInv /\ OneRequest /\ OldIsRoot /\ Accounting

(* One step keeps the account of allocated and freed engines.               *)
LEMMA NextSInv ==
    ASSUME AttrLocked, SInv, IInv', [Next]_vars
    PROVE  SInv'
<1> USE AvirdAssumption DEF SInv, Return, lockVars, infoVars, localVars, heapVars, scanVars
<1>0. TypeOK BY DEF IInv
<1>1. ASSUME NEW t \in Threads, InfoBegin(t) \/ InfoEnd(t) \/ ScanRequest(t) PROVE SInv'
  <2> USE <1>0, <1>1
      DEF InfoBegin, InfoEnd, ScanRequest, ScanBegin, ScanVirus, ScanOther, ScanEnd, AttrFree
  <2>1. OneRequest' BY DEF TypeOK, OneRequest
  <2>2. OldIsRoot' BY DEF TypeOK, OldIsRoot
  <2>3. \A e \in Engines : Live(e)' <=> Live(e) BY DEF TypeOK, Live
  <2>4. Accounting' BY <2>3 DEF TypeOK, Accounting
  <2> QED BY <2>1, <2>2, <2>4
<1>2. ASSUME NEW t \in Threads, ReloadBegin(t) \/ LoadFails(t) PROVE SInv'
  <2> USE <1>0, <1>2 DEF ReloadBegin, LoadFails, AttrFree
  <2>1. OneRequest' BY DEF TypeOK, OneRequest
  <2>2. OldIsRoot' BY DEF TypeOK, OldIsRoot
  <2>3. \A e \in Engines : Live(e)' <=> Live(e) BY DEF TypeOK, Live
  <2>4. Accounting' BY <2>3 DEF TypeOK, Accounting
  <2> QED BY <2>1, <2>2, <2>4
<1>3. ASSUME NEW t \in Threads, Load(t) PROVE SInv'
  <2> USE <1>0, <1>3 DEF Load
  <2>0. PICK x \in Engines \ built : built' = built \cup {x} /\ new_node' = [new_node EXCEPT ![t] = x]
    OBVIOUS
  <2>1. OneRequest' BY DEF TypeOK, OneRequest
  <2>2. OldIsRoot' BY DEF TypeOK, OldIsRoot
  <2>3. \A e \in built : Live(e)' <=> Live(e) BY <2>0 DEF TypeOK, Live
  <2>4. Live(x)' BY <2>0 DEF TypeOK, Live
  <2>5. freed[x] = 0 BY <2>0 DEF TypeOK, IInv, HeapView
  <2>6. Accounting' BY <2>0, <2>3, <2>4, <2>5 DEF TypeOK, Accounting
  <2> QED BY <2>1, <2>2, <2>6
<1>4. ASSUME NEW t \in Threads, BuildFails(t) PROVE SInv'
  <2> USE <1>0, <1>4 DEF BuildFails
  <2>1. OneRequest' BY DEF TypeOK, OneRequest
  <2>2. OldIsRoot' BY DEF TypeOK, OldIsRoot
  <2>3. \A u \in Threads \ {t} : pc[u] = "idle" BY DEF OneRequest
  <2>4. \A e \in built : Live(e)' <=> e = cl_root_node BY <2>3 DEF TypeOK, Live
  <2>5. \A e \in built : Live(e) <=> e \in {cl_root_node, new_node[t]} BY <2>3 DEF TypeOK, Live
  <2>6. new_node[t] \in built /\ new_node[t] # cl_root_node /\ freed[new_node[t]] = 0
    BY DEF IInv, NewIsPrivate
  <2>7. Accounting' BY <2>4, <2>5, <2>6 DEF TypeOK, Accounting
  <2> QED BY <2>1, <2>2, <2>7
<1>5. ASSUME NEW t \in Threads, Switch(t) PROVE SInv'
  <2> USE <1>0, <1>5 DEF Switch, SwitchedTo
  <2>1. OneRequest' BY DEF TypeOK, OneRequest
  <2>3. \A u \in Threads \ {t} : pc[u] = "idle" BY DEF OneRequest
  <2>2. OldIsRoot' BY <2>3 DEF TypeOK, OldIsRoot
  <2>4. \A e \in built : Live(e)' <=> e \in {new_node[t], old_node[t]} BY <2>3 DEF TypeOK, Live
  <2>5. \A e \in built : Live(e) <=> e \in {cl_root_node, new_node[t]} BY <2>3 DEF TypeOK, Live
  <2>6. old_node[t] = cl_root_node BY DEF OldIsRoot
  <2>7. Accounting' BY <2>4, <2>5, <2>6 DEF TypeOK, Accounting
  <2> QED BY <2>1, <2>2, <2>7
<1>6. ASSUME NEW t \in Threads, SwitchInfo(t) PROVE SInv'
  <2> USE <1>0, <1>6 DEF SwitchInfo
  <2>1. OneRequest' BY DEF TypeOK, OneRequest
  <2>2. OldIsRoot' BY DEF TypeOK, OldIsRoot
  <2>3. \A e \in Engines : Live(e)' <=> Live(e) BY DEF TypeOK, Live
  <2>4. Accounting' BY <2>3 DEF TypeOK, Accounting
  <2> QED BY <2>1, <2>2, <2>4
<1>7. ASSUME NEW t \in Threads, FreeOld(t) PROVE SInv'
  <2> USE <1>0, <1>7 DEF FreeOld
  <2>1. OneRequest' BY DEF TypeOK, OneRequest
  <2>2. OldIsRoot' BY DEF TypeOK, OldIsRoot
  <2>3. \A u \in Threads \ {t} : pc[u] = "idle" BY DEF OneRequest
  <2>4. \A e \in built : Live(e)' <=> e = cl_root_node BY <2>3 DEF TypeOK, Live
  <2>5. \A e \in built : Live(e) <=> e \in {cl_root_node, old_node[t]} BY <2>3 DEF TypeOK, Live
  <2>6. old_node[t] \in built /\ old_node[t] # cl_root_node
    BY DEF IInv, HeapView, OldIsRetired, Busy
  <2>7. Accounting' BY <2>4, <2>5, <2>6 DEF TypeOK, Accounting
  <2> QED BY <2>1, <2>2, <2>7
<1>8. CASE UNCHANGED vars
  <2> USE <1>8 DEF vars
  <2>1. OneRequest' /\ OldIsRoot' BY DEF OneRequest, OldIsRoot
  <2>2. Accounting' BY DEF Accounting, Live
  <2> QED BY <2>1, <2>2
<1> QED
  BY <1>1, <1>2, <1>3, <1>4, <1>5, <1>6, <1>7, <1>8 DEF Next, ReloadRequest

(* Reloads free every engine they replace exactly once, provided that the   *)
(* library serves one request at a time: the code alone does not see to it. *)
THEOREM AvirdEngineFreedOnce == AttrLocked => (Spec => []EngineFreedOnce)
<1> SUFFICES ASSUME AttrLocked PROVE Spec => []EngineFreedOnce
  OBVIOUS
<1>1. Init => SInv
  <2>1. Init => OneRequest /\ OldIsRoot BY DEF Init, OneRequest, OldIsRoot
  <2>2. Init => Accounting BY AvirdAssumption DEF Init, Accounting, Live
  <2> QED BY InitIInv, <2>1, <2>2 DEF SInv
<1>2. SInv /\ IInv' /\ [Next]_vars => SInv'
  BY NextSInv
<1>3. SInv => EngineFreedOnce
  <2> SUFFICES ASSUME SInv PROVE EngineFreedOnce
    OBVIOUS
  <2>1. \A e \in Engines : freed[e] <= 1
    BY DEF SInv, IInv, TypeOK, HeapView, Accounting
  <2>2. attr = {} => \A e \in built : Live(e) <=> e = cl_root_node
    BY DEF SInv, OneRequest, Live
  <2>3. attr = {} => \A e \in built \ {cl_root_node} : freed[e] = 1
    BY <2>2 DEF SInv, Accounting
  <2> QED BY <2>1, <2>3 DEF EngineFreedOnce
<1> QED BY AvirdInvariant, <1>1, <1>2, <1>3, PTL DEF Spec
=============================================================================
