CONSTANTS
    GAMEPAD_TIMEOUT = 3
    BIND_DURATION = 2
    PREARM_MODE_TIMEOUT = 3
    TELEMETRY_TIMEOUT = 3
    GESTURE_IDLE = 1
    GESTURE_STEP = 1
    AgeCap = 7
    ARM_THROTTLE_MAX = 10
    THROTTLE_MAX_PERCENT = 50
    RADIO_FAILURE_LIMIT = 2
    BAYANG_RF_CHANNELS = 1
    MaxStall = 2
    StoredFlags = {24}
    Reports <- ArmReports
    Replies <- ArmReplies
SPECIFICATION Spec
PROPERTIES
    FirstArmedPacketIsConfirmed
