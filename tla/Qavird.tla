------------------------------- MODULE Qavird -------------------------------
(***************************************************************************)
(* The antivirus resource manager (QX-avird/qavird.c): pool threads that   *)
(* serve INFO, SCANFILE and AVBASERELOAD on one virus database (an engine  *)
(* of libclamav) that a reload replaces while scans are going on.          *)
(*                                                                         *)
(* The code takes cl_root_node_rwlock itself.  In addition the default     *)
(* lock_ocb handler that iofunc_func_init installs makes the QNX resource  *)
(* manager library hold the device's one attribute structure during every  *)
(* request; AttrLocked = FALSE asks what remains true without that.        *)
(***************************************************************************)
EXTENDS Naturals, FiniteSets

CONSTANTS Threads,     \* threads of the pool
          Engines,     \* addresses of engines, one per call of cl_loaddbdir
          NoEngine,    \* NULL
          MaxScans,    \* bound on the scans started
          AttrLocked   \* the library serialises the requests

ASSUME AvirdAssumption ==
    /\ NoEngine \notin Engines
    /\ Engines # {}
    /\ MaxScans \in Nat
    /\ AttrLocked \in BOOLEAN

VARIABLES
    attr,          \* threads inside a request, each holding the attribute lock if there is one
    readers,       \* threads that hold cl_root_node_rwlock for reading
    writer,        \* the set of threads that hold it for writing
    cl_root_node,  \* engine in use
    state_info,    \* struct Qavird_info: the engine described and the two counters
    pc,            \* where a thread is in Qavird_devctl
    old_node,      \* its local old_node
    new_node,      \* its local new_cl_root_node
    new_info,      \* its local new_state_info
    scanning,      \* engine it has given to cl_scanfile
    built,         \* engines allocated so far
    freed,         \* how often each engine was given to cl_free
    scans,         \* scans started
    done,          \* scans finished
    found          \* scans that found a virus

lockVars == <<attr, readers, writer>>
infoVars == <<cl_root_node, state_info>>
localVars == <<old_node, new_node, new_info, scanning>>
heapVars == <<built, freed>>
scanVars == <<scans, done, found>>
vars == <<lockVars, infoVars, pc, localVars, heapVars, scanVars>>

Info == [base : Engines, virfound : Nat, fdone : Nat]

(* main: the first engine is loaded and built before the pool starts *)
Init ==
    /\ \E e \in Engines :
          /\ cl_root_node = e
          /\ state_info = [base |-> e, virfound |-> 0, fdone |-> 0]
          /\ new_info = [t \in Threads |-> state_info]
          /\ built = {e}
    /\ attr = {} /\ readers = {} /\ writer = {}
    /\ pc = [t \in Threads |-> "idle"]
    /\ old_node = [t \in Threads |-> NoEngine]
    /\ new_node = [t \in Threads |-> NoEngine]
    /\ scanning = [t \in Threads |-> NoEngine]
    /\ freed = [e \in Engines |-> 0]
    /\ scans = 0 /\ done = 0 /\ found = 0

----------------------------------------------------------------------------
(* The library finds the attribute structure unlocked *)
AttrFree == AttrLocked => attr = {}

(* pthread_rwlock_rdlock / wrlock on cl_root_node_rwlock succeed *)
RdLockFree_slip == TRUE
RdLockFree == writer = {}

WrLockFree_slip == TRUE
WrLockFree == writer = {} /\ readers = {}

(* The engine in use after the switch *)
SwitchedTo_slip(t) == NoEngine
SwitchedTo(t) == new_node[t]

(* The counters a reload carries over into the new info *)
CarriedOver_slip(t) == [new_info[t] EXCEPT !.virfound = state_info.virfound]
CarriedOver(t) ==
    [new_info[t] EXCEPT !.virfound = state_info.virfound, !.fdone = state_info.fdone]

Return(t) ==
    /\ pc' = [pc EXCEPT ![t] = "idle"]
    /\ attr' = attr \ {t}

----------------------------------------------------------------------------
(* QAVIRD_CMD_INFO copies state_info under the read lock.  (A request that   *)
(* is refused for the size of its data changes nothing and is left out.)    *)
InfoBegin(t) ==
    /\ pc[t] = "idle" /\ AttrFree
    /\ RdLockFree
    /\ attr' = attr \cup {t}
    /\ readers' = readers \cup {t}
    /\ pc' = [pc EXCEPT ![t] = "info"]
    /\ UNCHANGED <<writer, infoVars, localVars, heapVars, scanVars>>

InfoEnd(t) ==
    /\ pc[t] = "info"
    /\ Return(t)
    /\ readers' = readers \ {t}
    /\ UNCHANGED <<writer, infoVars, localVars, heapVars, scanVars>>

(* QAVIRD_CMD_SCANFILE: the engine is read under the read lock ...          *)
ScanBegin(t) ==
    /\ pc[t] = "idle" /\ AttrFree
    /\ RdLockFree
    /\ scans < MaxScans
    /\ scans' = scans + 1
    /\ attr' = attr \cup {t}
    /\ readers' = readers \cup {t}
    /\ scanning' = [scanning EXCEPT ![t] = cl_root_node]
    /\ pc' = [pc EXCEPT ![t] = "scan"]
    /\ UNCHANGED <<writer, infoVars, old_node, new_node, new_info, heapVars, done, found>>

(* ... cl_scanfile returns CL_VIRUS, or CL_CLEAN or an error ...            *)
ScanVirus(t) ==
    /\ pc[t] = "scan"
    /\ state_info' = [state_info EXCEPT !.virfound = @ + 1]
    /\ found' = found + 1
    /\ scanning' = [scanning EXCEPT ![t] = NoEngine]
    /\ pc' = [pc EXCEPT ![t] = "count"]
    /\ UNCHANGED <<lockVars, cl_root_node, old_node, new_node, new_info, heapVars, scans, done>>

ScanOther(t) ==
    /\ pc[t] = "scan"
    /\ scanning' = [scanning EXCEPT ![t] = NoEngine]
    /\ pc' = [pc EXCEPT ![t] = "count"]
    /\ UNCHANGED <<lockVars, infoVars, old_node, new_node, new_info, heapVars, scanVars>>

(* ... and the scan is counted before the lock is released.                 *)
ScanEnd(t) ==
    /\ pc[t] = "count"
    /\ state_info' = [state_info EXCEPT !.fdone = @ + 1]
    /\ done' = done + 1
    /\ readers' = readers \ {t}
    /\ Return(t)
    /\ UNCHANGED <<writer, cl_root_node, localVars, heapVars, scans, found>>

(* QAVIRD_CMD_AVBASERELOAD: old_node is read before the lock is taken ...   *)
ReloadBegin(t) ==
    /\ pc[t] = "idle" /\ AttrFree
    /\ attr' = attr \cup {t}
    /\ old_node' = [old_node EXCEPT ![t] = cl_root_node]
    /\ pc' = [pc EXCEPT ![t] = "load"]
    /\ UNCHANGED <<readers, writer, infoVars, new_node, new_info, scanning, heapVars, scanVars>>

(* ... cl_loaddbdir allocates the new engine, or fails ...                  *)
Load(t) ==
    /\ pc[t] = "load"
    /\ \E e \in Engines \ built :
          /\ built' = built \cup {e}
          /\ new_node' = [new_node EXCEPT ![t] = e]
          /\ new_info' = [new_info EXCEPT ![t] = [base |-> e, virfound |-> 0, fdone |-> 0]]
    /\ pc' = [pc EXCEPT ![t] = "build"]
    /\ UNCHANGED <<lockVars, infoVars, old_node, scanning, freed, scanVars>>

LoadFails(t) ==
    /\ pc[t] = "load"
    /\ Return(t)
    /\ old_node' = [old_node EXCEPT ![t] = NoEngine]
    /\ UNCHANGED <<readers, writer, infoVars, new_node, new_info, scanning, heapVars, scanVars>>

(* ... cl_build or one of the two cl_cvdhead fails: the new engine goes ... *)
BuildFails(t) ==
    /\ pc[t] = "build"
    /\ freed' = [freed EXCEPT ![new_node[t]] = @ + 1]
    /\ old_node' = [old_node EXCEPT ![t] = NoEngine]
    /\ new_node' = [new_node EXCEPT ![t] = NoEngine]
    /\ Return(t)
    /\ UNCHANGED <<readers, writer, infoVars, new_info, scanning, built, scanVars>>

(* ... or the write lock is taken and the engine and the info are switched  *)
Switch(t) ==
    /\ pc[t] = "build"
    /\ WrLockFree
    /\ writer' = writer \cup {t}
    /\ cl_root_node' = SwitchedTo(t)
    /\ new_info' = [new_info EXCEPT ![t] = CarriedOver(t)]
    /\ pc' = [pc EXCEPT ![t] = "switch"]
    /\ UNCHANGED <<attr, readers, state_info, old_node, new_node, scanning, heapVars, scanVars>>

SwitchInfo(t) ==
    /\ pc[t] = "switch"
    /\ state_info' = new_info[t]
    /\ writer' = writer \ {t}
    /\ pc' = [pc EXCEPT ![t] = "free"]
    /\ UNCHANGED <<attr, readers, cl_root_node, localVars, heapVars, scanVars>>

(* ... and the engine read at the beginning is freed without any lock.      *)
FreeOld(t) ==
    /\ pc[t] = "free"
    /\ freed' = [freed EXCEPT ![old_node[t]] = @ + 1]
    /\ old_node' = [old_node EXCEPT ![t] = NoEngine]
    /\ new_node' = [new_node EXCEPT ![t] = NoEngine]
    /\ Return(t)
    /\ UNCHANGED <<readers, writer, infoVars, new_info, scanning, built, scanVars>>

ScanRequest(t) == ScanBegin(t) \/ ScanVirus(t) \/ ScanOther(t) \/ ScanEnd(t)

ReloadRequest(t) ==
    \/ ReloadBegin(t) \/ Load(t) \/ LoadFails(t) \/ BuildFails(t)
    \/ Switch(t) \/ SwitchInfo(t) \/ FreeOld(t)

Next == \E t \in Threads : InfoBegin(t) \/ InfoEnd(t) \/ ScanRequest(t) \/ ReloadRequest(t)

Spec == Init /\ [][Next]_vars

----------------------------------------------------------------------------
TypeOK ==
    /\ attr \subseteq Threads /\ readers \subseteq Threads /\ writer \subseteq Threads
    /\ cl_root_node \in Engines
    /\ state_info \in Info
    /\ pc \in [Threads -> {"idle", "info", "scan", "count", "load", "build", "switch", "free"}]
    /\ old_node \in [Threads -> Engines \cup {NoEngine}]
    /\ new_node \in [Threads -> Engines \cup {NoEngine}]
    /\ new_info \in [Threads -> Info]
    /\ scanning \in [Threads -> Engines \cup {NoEngine}]
    /\ built \subseteq Engines
    /\ freed \in [Engines -> Nat]
    /\ scans \in Nat /\ done \in Nat /\ found \in Nat

(* A reload frees the old engine without holding a lock, yet neither the    *)
(* engine in use nor one that cl_scanfile is working with is ever freed.    *)
NoUseAfterFree ==
    /\ freed[cl_root_node] = 0
    /\ \A t \in Threads : pc[t] = "scan" => freed[scanning[t]] = 0

(* The counters that INFO shows account for every scan: no increment is     *)
(* lost in a reload that copies them over to the info of the new engine.    *)
NoScanLost == state_info.fdone = done /\ state_info.virfound = found

(* What INFO shows while it holds the read lock is about the engine that a  *)
(* scan at that moment would use.                                           *)
InfoIsOfEngineInUse == readers # {} => state_info.base = cl_root_node

(* Every engine is freed at most once, and once no request is in progress   *)
(* every engine but the one in use has been freed.                          *)
EngineFreedOnce ==
    /\ \A e \in Engines : freed[e] <= 1
    /\ attr = {} => \A e \in built \ {cl_root_node} : freed[e] = 1
=============================================================================
