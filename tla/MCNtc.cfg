SPECIFICATION FairSpec
CONSTANTS
    Threads = {t1, t2}
    Clients = {c1, c2}
    Names = {"en0", "en1"}
    Interest = "en0"
    MaxPktRead = 2
    LogPeriod = 2
    Setups <- MCSetups
INVARIANTS PacketsAddUp AlertIsExplained AskedIsKept
PROPERTY QueueDrains
CHECK_DEADLOCK FALSE
