SPECIFICATION Spec
CONSTANTS
    MaxTries = 2
    MaxCalls = 2
    MaxUnknown = 2
    Skew = 1
    Asked <- MCAsked
    Credentials <- MCCredentials
    Positions = {0, 1, 2, 3, 4, 5, 6, 7, 8, 9}
INVARIANTS
    VerdictMatchesEffect
    ConfirmedOnce
    RequestAsAsked
    ReadBack
    OnlyDownloadStaysOpen
