\* An update loop that never ends, and two callers of every other method.
CONSTANTS
    loop = loop
    c1 = c1
    c2 = c2
    Updaters = {loop}
    Callers = {c1, c2}
    Ops = {"initialize", "calibrate", "set_calibration", "get_calibration", "get_cached_data"}
    MaxCalls = 1
    RawYaws <- MCYaws
    Offsets <- MCOffsets
SPECIFICATION Spec
INVARIANTS
    TypeOK
    NoDataRace
    YawWrapped
PROPERTIES
    StaleZeroHeals
    CallsReturn
