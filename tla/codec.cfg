\* Every request and every kind of reply, whole, cut at every length, or with
\* any one byte changed to any other value.
CONSTANTS
    MotorIds = {1}
    Modes = {0, 3}
    Words <- MCWords
    Samples <- MCSamples
    Damages <- AllDamages
SPECIFICATION Spec
INVARIANTS
    TypeOK
    RoundTrip
    DamageDetected
    ReadingsFaithful
    NoCrossTalk
    RepliesUnderstood
    ReadsWithin
CHECK_DEADLOCK FALSE
