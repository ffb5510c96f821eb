CONSTANTS
    GAMEPAD_TIMEOUT = 1
    BIND_DURATION = 1
    PREARM_MODE_TIMEOUT = 1
    EVENT_QUEUE_LENGTH = 2
    Nothing = Nothing
SPECIFICATION MCSpec
INVARIANTS
    CueIsComplete
PROPERTIES
    StateIsShown
    StateIsPrinted
