SPECIFICATION Spec
CONSTANTS
  Threads = {w1, w2}
  MaxFailedLoginAttempts = 3
  MaxSessions = 2
  MaxTokens = 3
  MaxPasswords = 2
INVARIANTS
  SessionsKnowPassword
  ExchangedOnce
  FailuresCounted
PROPERTIES
  RevokedForGood
  LockHolds
