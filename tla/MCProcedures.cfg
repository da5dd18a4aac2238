SPECIFICATION FairSpec
CONSTANTS
    Methods <- MCMethods
    PhotoTries = 2
    VideoTries = 3
    LookTries = 2
    Retries = 1
    Window = 2
    Older = 3
    MaxFaults = 2
    MaxForeign = 1
INVARIANT TypeOK WritesAreWhole AnswersAreTrue
PROPERTY Terminates
CHECK_DEADLOCK FALSE
