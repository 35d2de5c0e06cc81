SPECIFICATION Spec
CONSTANTS
    Threads = {t1, t2, t3}
    Engines = {e1, e2, e3, e4}
    NoEngine = NoEngine
    MaxScans = 3
    AttrLocked = FALSE
SYMMETRY Symmetry
INVARIANTS NoUseAfterFree NoScanLost InfoIsOfEngineInUse
