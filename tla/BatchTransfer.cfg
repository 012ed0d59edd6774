SPECIFICATION Spec
CONSTANTS
    TransferSize = 7
    ChunkSize = 2
    Workers = {w1, w2, w3}
    Outcomes = {"ok", "err", "panic"}
INVARIANTS
    TypeOK
    RunningOpsDisjoint
    NilMeansComplete
    SendNeverBlocks
    ChunkAccounting
PROPERTIES
    ImplementsPromise
    ErrorReported
    EverythingEnds
