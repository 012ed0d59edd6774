SPECIFICATION Spec
CONSTANTS
    TransferSize = 5
    ChunkSize = 2
    Workers = {w1, w2}
    MaxTries = 2
INVARIANTS
    NoReadAfterReturn
