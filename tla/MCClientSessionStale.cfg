CONSTANTS
  a = a
  Accounts <- MCAccounts
  NoSession = NoSession
  MaxSessions = 3
  MaxRevocations = 1
  MaxCalls = 1
  MaxDepth = 5
  Challenged = {"login", "validate", "work", "take"}
  CodeRounds = 2

SPECIFICATION Spec

INVARIANT
  ResendCarriesTheSession

CHECK_DEADLOCK FALSE
