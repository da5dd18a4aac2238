CONSTANTS
  MaxOps = 3
  MaxProgress = 1
SPECIFICATION FairSpec
INVARIANT TypeOK
INVARIANT WindowAndWorkerAgree
INVARIANT StopKeepsToItsOperation
INVARIANT ReviewIsCurrent
INVARIANT ExitLeavesNoChrome
PROPERTY StopAndCloseAreServed
