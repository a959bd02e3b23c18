\* A degraded start whose primary is a full commit.
SPECIFICATION Spec
CONSTANTS
    Callers = {}
    Readers = {}
    NumLayers = 1
    Kind <- MCPinned
    Rejected = {}
    HasFallback = TRUE
    Periodic = TRUE
    FailureLimit = 2
    MinBackoff = 1
    MaxBackoff = 3
    Capacity = 1
    MaxVersion = 0
    MaxLoads = 3
PROPERTY StandsDownWhenImmutable
