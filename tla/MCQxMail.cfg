SPECIFICATION Spec
CONSTANTS
    Pool = {t1, t2}
    Spoolers = {s1, s2}
    Boxes = {b}
    Ext = {x}
    Domain <- MCDomain
    Msgs = {m1, m2}
    NULL = NULL
    MaxRcpt = 2
    MaxTargets = 1
SYMMETRY Symmetry
VIEW View
INVARIANTS MailConserved ViewIsStable LocksAreOwned NoStrangerRelays
CHECK_DEADLOCK FALSE
