SPECIFICATION Spec
CONSTANTS
    Width = 24
    Grain = 1
    OptionsGiven <- MCLongOptions
    DefaultDelay <- MCDefaultDelay
    DefaultMaxDelay = 120
    DefaultTryTimeout = 60000
    Deadlines = {}
    LastTry = 30
PROPERTIES
    DelayNeverShrinks
