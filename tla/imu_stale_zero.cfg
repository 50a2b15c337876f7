\* An update loop and one calibration.
CONSTANTS
    loop = loop
    c1 = c1
    c2 = c2
    Updaters = {loop}
    Callers = {c1}
    Ops = {"calibrate"}
    MaxCalls = 1
    RawYaws <- MCYaws
    Offsets <- MCOffsets
SPECIFICATION Spec
INVARIANTS
    CacheReflectsZero
