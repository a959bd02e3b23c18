\* One refresh_now() caller beside the loop, one snapshot reader, a parent and
\* a child layer: both tracked, or both full commits.
SPECIFICATION SafetySpec
CONSTANTS
    Callers = {c1}
    Readers = {r1}
    NumLayers = 2
    Kind <- MCTracked
    Rejected <- MCRejectedParent
    HasFallback = TRUE
    Periodic = TRUE
    FailureLimit = 2
    MinBackoff = 1
    MaxBackoff = 3
    Capacity = 1
    MaxVersion = 1
    MaxLoads = 3
INVARIANTS
    TypeOK
    SnapshotNeverBehind
    StatusDescribesCurrent
    EventsFollowCurrent
PROPERTIES
    ShutdownIsLast
    BackoffCoversStreak
    ServesLastKnownGood
    PinnedStaysFinal
