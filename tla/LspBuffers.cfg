\* An open document, changes of ranges, and a save between them.
SPECIFICATION SessionSpec
CONSTANTS
    Requests = {}
    Garbled = Garbled
    NoBuffer = NoBuffer
    Notices = {"didOpen", "didChange", "didSave", "didClose"}
    Ranged = {TRUE}
    MaxEdits = 2
    MaxNotices = 3
    MaxCancels = 0
INVARIANT BuffersMatchEditor
CHECK_DEADLOCK FALSE
