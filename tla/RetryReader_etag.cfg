SPECIFICATION Spec
CONSTANTS
    FileSizes = {0, 2, 4}
    StartOffset = 0
    StartCounts = {0, 3, 5}
    BufferSize = 2
    MaxRetryRequests = 2
    TreatEarlyCloseAsError = FALSE
    MaxVersion = 2
INVARIANTS
    SingleVersion
