SPECIFICATION Spec
CONSTANTS
    Width = 26
    Grain = 2
    OptionsGiven <- MCOptions
    DefaultDelay <- MCDefaultDelay
    DefaultMaxDelay = 120
    DefaultTryTimeout = 60000
    Deadlines <- MCDeadlines
    LastTry = 10
INVARIANTS
    DelayWithinBounds
    TryTimeoutFits
PROPERTIES
    DelayNeverShrinks
