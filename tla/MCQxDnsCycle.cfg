SPECIFICATION Spec
CONSTANTS
    Pool = {t1, t2}
    Main = Main
    Buffers = {b1, b2, b3, b4}
    NULL = NULL
    Queries = {q1, q2}
    Period = 1
    MaxClock = 2
    Hosts <- MCHosts
    Room = 2
    CacheMAX = 2
    CacheTTL = 1
    Setups <- MCCycle
SYMMETRY Symmetry
INVARIANT QueueIsList
