SPECIFICATION Spec
CONSTANTS
    Malformed = Malformed
    NoFile = NoFile
    BadFile = BadFile
    NotGiven = NotGiven
    IntWidth = 5
    DefaultConns = 4
    Files <- MCFiles
    Environments <- MCEnvironments
    Arguments <- MCArguments
    Samples = {0, 5, 10}
    MaxLimit = 8
INVARIANT EnvironmentIsHeard
CHECK_DEADLOCK FALSE
