\* One handler at a time, the purge thread and restarts, under fairness;
\* four accounts over the resets, any of them an administrator; API keys on.
SPECIFICATION FairSpec
CONSTANTS
  MaxUserId = 4
  Name = {"admin", "bob", "tech"}
  AdminName = "admin"
  Password = {"p"}
  AdminPassword = "p"
  AdminRole = "admin"
  Token = {k1, k2}
  Key = {a1}
  Thread = {t1}
  SessionMinutes = 1
  LockoutMinutes = 1
  MaxAttempts = 1
  ApiKeyEnabled = TRUE
  ApiKeyHeader = "x-api-key"
  MaxTime = 2
  MaxTries = 0
  NoUser = NoUser
  NoSession = NoSession
  NoKey = NoKey
  Free = Free
INVARIANTS ActiveAdminRemains
PROPERTIES ExpiredSessionsAreDeleted
