SPECIFICATION Spec
CONSTANTS
    MaxTries = 3
INVARIANTS
    TypeOK
    OnlyLastTryHolds
    VerdictOfLastTry
    OneTryAfterContextEnds
PROPERTIES
    PolicyReturns
