CONSTANT
    Scenarios <- Sessions
SPECIFICATION FairSpec
\* A closed or recovered session rests.
CHECK_DEADLOCK FALSE
INVARIANTS
    NoSilentLoss
    ChunksStayReadable
    CompletedIsComplete
    NewestChunksKept
PROPERTY CloseCompletes
