\* One page: init, a login, two clicks on "Sign off" and a shutdown at once;
\* two sessions ever issued, so a kept one meets a new one.
SPECIFICATION Spec
CONSTANTS
  Token <- Tokens
  Attempt <- Attempts
  SignOff <- SignOffs
  None = None
INVARIANTS TypeOK SessionIsSent AppIsSignedIn
PROPERTIES HandlersEnd
