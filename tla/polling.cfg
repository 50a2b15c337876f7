\* One thread in step, and two threads or a late glove out of step.
CONSTANTS
    t1 = t1
    t2 = t2
    Threads = {t1, t2}
    MaxCalls = 6
    NUM_MOTORS = 2
    Applications <- MCApplications
SPECIFICATION Spec
INVARIANTS
    TypeOK
    ReadingsSeparate
    OwnReadings
    Truthful
    StagesInOrder
    NoMotorLeftOut
CHECK_DEADLOCK FALSE
