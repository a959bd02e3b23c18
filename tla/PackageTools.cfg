\* An editor that opens, changes, saves and closes one document while one read
\* is under way; the worlds, packages, contexts, versions and trees of the
\* MC modules of the other parts; batches of two edits.  Every part stops when
\* it is done.
SPECIFICATION ToolsSpec
CONSTANTS
    Requests = {q1}
    Garbled = Garbled
    NoBuffer = NoBuffer
    Notices = {"didOpen", "didChange", "didSave", "didClose"}
    Ranged = {TRUE}
    MaxEdits = 1
    MaxNotices = 2
    MaxCancels = 1
    None = None
    Malformed = Malformed
    Idle = Idle
    Packages <- ResolvedPackages
    Contexts <- ResolvedContexts
    Versions <- DiffedVersions
    Panels <- DiffedPanels
    MaxClock = 1
INVARIANTS
    OneAnswer
    ReadYourEdits
    SiblingsCommute
    TopmostLayerWins
    BatchMeansEach
    ShadowedNeverChosen
    LintedNeverCycles
    LintedCompiles
    OneArmPerLayer
    ImpactsAreExplained
    ExpansionMovesNoOne
    BatchMeansOneByOne
    TablesLandWhereAsked
    RecordsNameThePlan
PROPERTIES
    ChangesAreGranted
CHECK_DEADLOCK FALSE
