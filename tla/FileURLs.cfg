SPECIFICATION Spec
CONSTANTS
    Given <- MCGiven
    Names = {"n"}
    Snapshots <- MCSnapshots
    Signable <- MCSignable
    MaxBuilt = 5
INVARIANTS
    DenotesWhatWasAsked
    SnapshotAsAsked
    SASIntact
