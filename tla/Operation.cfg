CONSTANTS
    GAMEPAD_TIMEOUT = 2
    BIND_DURATION = 2
    PREARM_MODE_TIMEOUT = 2
    TELEMETRY_TIMEOUT = 2
    GESTURE_IDLE = 1
    GESTURE_STEP = 1
    AgeCap = 5
    ARM_THROTTLE_MAX = 10
    THROTTLE_MAX_PERCENT = 50
    RADIO_FAILURE_LIMIT = 3
    BAYANG_RF_CHANNELS = 4
    MaxStall = 1
    StoredFlags = {0}
    Reports <- OperationReports
    Replies <- LegacyReplies
SPECIFICATION FairSpec
INVARIANTS
    HopsInOrder
PROPERTIES
    HeldShortcutPlaysOnce
    TimedStatesEnd
    SilenceDisarms
