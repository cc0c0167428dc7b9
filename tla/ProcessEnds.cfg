SPECIFICATION FairSpec
CONSTANTS
  Captures <- SomeCaptures
  MaxRequests = 1
CHECK_DEADLOCK FALSE
INVARIANT ExitCodeTells
PROPERTY Ends
