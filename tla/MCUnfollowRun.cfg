CONSTANTS
  a1 = a1
  a2 = a2
  me = me
  other = other
  NoViewer = NoViewer
  Accounts <- MCAccounts
  Viewers <- MCViewers
  SwitchPlaces <- AtTheDelay
  MaxSelected = 3
  MaxLimit = 1
SPECIFICATION FairSpec
CHECK_DEADLOCK FALSE
INVARIANT TypeOK
INVARIANT VerifiedReportIsTrue
INVARIANT WritesAreReviewed
INVARIANT RunAddsUp
PROPERTY KeepsTheLedger
PROPERTY Terminates
