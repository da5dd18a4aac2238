CONSTANTS
  a = a
  Accounts <- MCAccounts
  NoSession = NoSession
  MaxSessions = 3
  MaxRevocations = 1
  MaxCalls = 2
  MaxDepth = 5
  Challenged = {"login", "validate", "work", "take"}
  CodeRounds = 2

SPECIFICATION FairSpec

INVARIANTS
  TypeOK
  NothingOldSurvivesRelogin
  LoginValidates

PROPERTY
  Terminates

CHECK_DEADLOCK FALSE
