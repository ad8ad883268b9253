SPECIFICATION Spec
CONSTANTS
  CloudEnabled = TRUE
  InlineEscalate = TRUE
  TrustSelf = FALSE
  Samples = 2
  ProfileTier = 1
  Retries = 2
  MaxRounds = 2
INVARIANT SpendIsRecorded
CHECK_DEADLOCK FALSE
