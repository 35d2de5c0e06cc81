SPECIFICATION FairSpec
CONSTANTS
    Threads = {t1, t2, t3}
    Packets = {p1, p2, p3}
    LogLimit = 2
    NoPkt = NoPkt
INVARIANTS NoTornRead CountWithinRegion SlotsAreExclusive
PROPERTIES LedgerSpec PassedIsBilled
