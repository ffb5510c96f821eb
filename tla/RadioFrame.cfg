CONSTANTS
    RADIO_FAILURE_LIMIT = 3
    BAYANG_RF_CHANNELS = 4
    MaxFrames = 6
SPECIFICATION Spec
\* The run stops at MaxFrames, and RADIO_ERROR is left only by a reboot.
CHECK_DEADLOCK FALSE
INVARIANTS
    ReplyIsFromThisFrame
    SentMeansOnAir
    DeadRadioIsDetected
