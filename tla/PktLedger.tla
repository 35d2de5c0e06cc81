----------------------------- MODULE PktLedger -----------------------------
(***************************************************************************)
(* What the packet log of nfm-qxc promises the billing: a packet that the  *)
(* filter lets pass is written down, handed over once, and charged once.   *)
(* A packet is refused only when the log of the current period is full,    *)
(* and no log is handed over before the previous one is worked off.        *)
(***************************************************************************)
EXTENDS Naturals, FiniteSets

CONSTANTS Packets,   \* every packet that may come along
          LogLimit   \* slots in one log region

VARIABLES pending,   \* accepted during the current period
          captured,  \* handed over to the logger, not yet worked off
          billed,    \* worked off by the logger
          refused    \* turned away: the log was full

lvars == <<pending, captured, billed, refused>>

Known == pending \cup captured \cup billed \cup refused

Init ==
    /\ pending = {}
    /\ captured = {}
    /\ billed = {}
    /\ refused = {}

Accept(p) ==
    /\ p \notin Known
    /\ Cardinality(pending) < LogLimit
    /\ pending' = pending \cup {p}
    /\ UNCHANGED <<captured, billed, refused>>

Refuse(p) ==
    /\ p \notin Known
    /\ Cardinality(pending) = LogLimit
    /\ refused' = refused \cup {p}
    /\ UNCHANGED <<pending, captured, billed>>

HandOver ==
    /\ captured = {}
    /\ captured' = pending
    /\ pending' = {}
    /\ UNCHANGED <<billed, refused>>

Bill(p) ==
    /\ p \in captured
    /\ captured' = captured \ {p}
    /\ billed' = billed \cup {p}
    /\ UNCHANGED <<pending, refused>>

Next ==
    \/ \E p \in Packets : Accept(p) \/ Refuse(p) \/ Bill(p)
    \/ HandOver

Spec == Init /\ [][Next]_lvars
=============================================================================
