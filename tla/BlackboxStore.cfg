CONSTANT Launches = 3
SPECIFICATION Spec
\* Every launch ends.
CHECK_DEADLOCK FALSE
INVARIANT LaunchRecovers
PROPERTIES
    OwnedSessionsUntouched
    OnlyFinishedRemoved
