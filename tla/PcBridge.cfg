CONSTANTS
    EXPORT_QUEUE_LENGTH = 2
    LOCAL_STATE_PERIOD = 2
    SequenceModulus = 2
    FcModulus = 2
    MaxUptime = 3
    MaxBoots = 2
    MaxPackets = 4
SPECIFICATION Spec
\* The run stops at MaxUptime in the last boot.
CHECK_DEADLOCK FALSE
INVARIANTS
    EveryLossIsCounted
    NewestRecordsWait
    GapsAreLosses
    OneBootOnDisplay
