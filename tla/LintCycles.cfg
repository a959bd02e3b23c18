SPECIFICATION Spec
CONSTANTS
    None = None
    Malformed = Malformed
    Packages <- MCPackages
    Contexts <- MCContexts
    MaxClock = 1
INVARIANT LintCatchesCycles
CHECK_DEADLOCK FALSE
