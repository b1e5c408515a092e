SPECIFICATION Spec
CONSTANTS
    NItems = 2
    NUploads = 2
    NParts = 2
    Queue = 2
    Check = TRUE
    Versions = 2
    MaxTrouble = 1
CHECK_DEADLOCK FALSE
INVARIANTS
    OneOpenUpload
    RunningUploadIsRecorded
PROPERTIES
    DoneUploadIsTheFile
    QueueMoves

