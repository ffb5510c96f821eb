CONSTANTS
    FrameLength = 2
    BufferLimit = 2
    SilenceTimeout = 1
    MaxFrames = 3
    MaxNoise = 1
    MaxPlugs = 2
    Stories <- SmallStories
SPECIFICATION FairSpec
\* The program ends on Ctrl+C.
CHECK_DEADLOCK FALSE
INVARIANTS
    LiveIsReplay
    BooksAreClosed
    EventLogIsCurrent
PROPERTY DeadHandleIsReplaced
