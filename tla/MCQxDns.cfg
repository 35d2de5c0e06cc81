SPECIFICATION Spec
CONSTANTS
    Pool = {t1, t2}
    Main = Main
    Buffers = {b1, b2, b3}
    NULL = NULL
    Queries = {q1, q2}
    Period = 1
    MaxClock = 2
    Hosts <- MCHosts
    Room = 2
    CacheMAX = 2
    CacheTTL = 1
    Setups <- MCSetups
SYMMETRY Symmetry
INVARIANTS QueueIsList BuffersAccounted AnsweredOnce ServersInOrder
PROPERTY CacheReplaces
CHECK_DEADLOCK FALSE
