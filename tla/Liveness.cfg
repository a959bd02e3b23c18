\* Of the change set: one request, a failure, a loss of the store or a crash,
\* and one intervention on GitHub.  Each of the systems may stop: the change set once
\* it is closed and its branch gone, the handle once it is shut down, the
\* server once it has exited.
SPECIFICATION LivenessSpec
CONSTANTS
    Requests = {r1}
    Timer = timer
    MaxPulls = 1
    MaxHead = 1
    MaxOutside = 1
    MaxFaults = 1
    Garbled = Garbled
    NoBuffer = NoBuffer
PROPERTIES
    RowSettles
    ConvergesToSource
    RefreshNowReturns
    RefreshingEnds
    ShutdownReturns
    EveryRequestIsAnswered
    DiagnosticsSettle
CHECK_DEADLOCK FALSE
