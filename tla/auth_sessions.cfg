\* Two threads guess passwords and use sessions of two accounts.
SPECIFICATION Spec
CONSTANTS
  MaxUserId = 3
  Name = {"admin", "tech"}
  AdminName = "admin"
  Password = {"p", "q"}
  AdminPassword = "p"
  AdminRole = "admin"
  Token = {k1, k2}
  Key = {}
  Thread = {t1, t2}
  SessionMinutes = 1
  LockoutMinutes = 1
  MaxAttempts = 1
  ApiKeyEnabled = FALSE
  ApiKeyHeader = "X-API-Key"
  MaxTime = 2
  MaxTries = 2
  NoUser = NoUser
  NoSession = NoSession
  NoKey = NoKey
  Free = Free
SYMMETRY Symmetry
INVARIANTS TypeOK DeactivationKillsSessions LockoutSpacesGuesses ExhaustedIsLocked
PROPERTIES KeepsSessionPromise
