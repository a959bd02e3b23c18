\* The smallest instance: one server, two calls, and a pin that is used again.
SPECIFICATION Spec
CONSTANTS
    Calls = {c1, c2}
    Servers = {s1}
    Pins = {p1, p2}
    Weight <- MCWeight
    MaxWeight = 1
    MaxBytes = 1
    Grace = 1
    MaxClock = 2
PROPERTIES
    JustStagedIsSafe
