SPECIFICATION Spec
CONSTANTS
    Threads = {t1, t2, t3}
    Blocks = {m1, m2}
    NumFds = 5
    CallIds = {1}
    MaxSeq = 1
    Setups <- MCSetups
INVARIANTS CallsAreLegal FreedIsExplained
SYMMETRY Symmetry
CHECK_DEADLOCK FALSE
