SPECIFICATION LayersSpec
CONSTANTS
    Worlds <- LayerWorlds
    Idle = Idle
    MaxDepth = 4
PROPERTIES
    GrantsOnlyNarrow
CHECK_DEADLOCK FALSE
