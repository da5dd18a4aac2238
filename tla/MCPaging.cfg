SPECIFICATION FairSpec
CONSTANTS
    Methods <- MCMethods
    Listing = 5
    PageMax = 3
    Amounts = {0, 1, 3}
    PageSizes = {0, 2}
    Known = {0, 3}
    MaxFaults = 2
    MaxRequests = 30
CHECK_DEADLOCK FALSE
INVARIANT TypeOK CollectedOnce AnswerIsTheList
PROPERTY Terminates
