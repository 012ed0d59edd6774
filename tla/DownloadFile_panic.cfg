SPECIFICATION Spec
CONSTANTS
    TransferSize = 5
    ChunkSize = 2
    Workers = {w1, w2}
    Lengths = {4, 5, 6}
INVARIANTS
    ServiceErrorIsReturned
